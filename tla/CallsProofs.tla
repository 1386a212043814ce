---------------------------- MODULE CallsProofs -----------------------------
(* Theorems about calls: of RpcClient, of a client over LocalBus, of        *)
(* ProxyApi, of BatchDeploy and of Robot, and of the runs they share. They  *)
(* share no state; each is proved about by itself, for every value of the   *)
(* constants MCClients has for it.                                          *)
EXTENDS MCClients, Integers, SequenceTheorems, FiniteSetTheorems, WellFoundedInduction, TLAPS

(***************************************************************************)
(* The calls of an RpcClient.                                              *)
(***************************************************************************)

IInv == TypeOK /\ Registered /\ ClosedWindow /\ closed \subseteq Calls
        /\ \A c \in Calls : pc[c] \notin {"delete", "returned"} => c \notin closed

LEMMA InitIInv == Init => IInv
<1> SUFFICES ASSUME Init PROVE IInv OBVIOUS
<1>1. [e \in Envelope |-> 0] \in [Envelope -> 0..MaxCopies] BY CopiesAssumption
<1>2. TypeOK
  <2>1. answers \in [Calls -> [Envelope -> 0..MaxCopies]] BY <1>1 DEF Init
  <2> QED BY <2>1 DEF Init, TypeOK, Step, Result
<1>3. Registered /\ ClosedWindow BY DEF Init, Registered, ClosedWindow
<1> QED BY <1>2, <1>3 DEF Init, IInv

LEMMA AnswersType ==
  ASSUME TypeOK, NEW c \in Calls, NEW e \in Envelope, NEW k \in 0..MaxCopies
  PROVE  [answers EXCEPT ![c][e] = k] \in [Calls -> [Envelope -> 0..MaxCopies]]
  BY DEF TypeOK

LEMMA TakenType ==
  ASSUME TypeOK, NEW c \in Calls, NEW e \in Envelope, Pending(c, e), Taken(c, e)
  PROVE  answers' \in [Calls -> [Envelope -> 0..MaxCopies]]
<1>1. answers[c][e] \in 0..MaxCopies BY DEF TypeOK
<1>2. answers[c][e] - 1 \in 0..MaxCopies BY <1>1, CopiesAssumption DEF Pending
<1>3. answers' = [answers EXCEPT ![c][e] = answers[c][e] - 1] BY DEF Taken, TypeOK
<1> QED BY <1>2, <1>3, AnswersType

LEMMA CallerStep ==
  ASSUME IInv, NEW c \in Calls, CallStep(c) \/ ContextDone(c) PROVE IInv'
<1> USE DEF IInv, TypeOK, Registered, ClosedWindow, Goto, Step
<1>1. CASE Register(c) BY <1>1 DEF Register
<1>2. CASE Transmit(c)
  <2>1. answers' \in [Calls -> [Envelope -> 0..MaxCopies]]
    BY <1>2, AnswersType DEF Transmit
  <2> QED BY <1>2, <2>1 DEF Transmit
<1>3. CASE SendRequest(c) BY <1>3 DEF SendRequest
<1>4. CASE SendRequestFails(c) BY <1>4 DEF SendRequestFails, Return, Result
<1>5. CASE GiveUp(c) BY <1>5 DEF GiveUp, Return, Result
<1>6. CASE Receive(c) BY <1>6 DEF Receive, Return, Result
<1>7. CASE CloseChannel(c) BY <1>7 DEF CloseChannel
<1>8. CASE Unregister(c) BY <1>8 DEF Unregister
<1>9. CASE ContextDone(c) BY <1>9 DEF ContextDone
<1> QED BY <1>1, <1>2, <1>3, <1>4, <1>5, <1>6, <1>7, <1>8, <1>9 DEF CallStep

LEMMA RouterStep ==
  ASSUME IInv, NEW c \in Calls, NEW e \in Envelope,
         RouteUnknown(c, e) \/ Route(c, e) \/ RoutePanics(c, e) \/ Lose(c, e)
  PROVE  IInv'
<1>1. CASE RouteUnknown(c, e) \/ Lose(c, e)
  BY <1>1, TakenType DEF IInv, TypeOK, Registered, ClosedWindow, RouteUnknown, Lose
<1>2. CASE Route(c, e)
  BY <1>2, TakenType DEF IInv, TypeOK, Registered, ClosedWindow, Route
<1>3. CASE RoutePanics(c, e)
  BY <1>3 DEF IInv, TypeOK, Registered, ClosedWindow, RoutePanics
<1> QED BY <1>1, <1>2, <1>3

LEMMA NextStep == IInv /\ [Next]_vars => IInv'
<1> SUFFICES ASSUME IInv, [Next]_vars PROVE IInv' OBVIOUS
<1>1. CASE Done \/ UNCHANGED vars
  BY <1>1 DEF Done, vars, IInv, TypeOK, Registered, ClosedWindow
<1> QED BY <1>1, CallerStep, RouterStep DEF Next, Process

(* Calls, their channels and their ids in the map agree in every reachable *)
(* state, for any set of calls and any number of copies of an answer.      *)
THEOREM Invariance == Spec => []IInv
  BY InitIInv, NextStep, PTL DEF Spec

(* The map of pending calls is exact, for any number of concurrent calls.  *)
THEOREM MapExact == Spec => []Registered
<1>1. IInv => Registered BY DEF IInv
<1> QED BY <1>1, Invariance, PTL

(* A closed channel is in the map only between close and delete.           *)
THEOREM WindowExact == Spec => []ClosedWindow
<1>1. IInv => ClosedWindow BY DEF IInv
<1> QED BY <1>1, Invariance, PTL

-----------------------------------------------------------------------------
(***************************************************************************)
(* A call of the grid proxy.                                               *)
(***************************************************************************)

CallRecord ==
  /\ call = [kind |-> call.kind, id |-> call.id, valid |-> call.valid, tries |-> call.tries,
             phase |-> call.phase, got |-> call.got, code |-> call.code]
  /\ call.kind \in Api!Kinds \cup {"none"} /\ call.valid \in BOOLEAN /\ call.tries \in Nat
  /\ call.phase \in {"idle", "sending", "answered", "failed"}

(* Until the call ends, what it asks for at this very moment has been      *)
(* written down; and without a fault every proxy runs and reaches the      *)
(* database, so that the one the client is at does.                        *)
ApiInv ==
  /\ CallRecord /\ faults \in Nat /\ active \in Api!Endpoint
  /\ call.phase = "sending" => call.kind \in Api!Kinds /\ Api!Now(call.kind, call.id) \in moments
  /\ faults = 0 => serving = Api!Endpoint /\ database = TRUE
  /\ Api!TrueAnswer /\ Api!ServedOtherwise

(* What a method decodes is what it asked for; and it decodes nothing of a *)
(* good reply to a valid request only when there is nothing.               *)
LEMMA Decoded ==
  ASSUME NEW kind_ \in Api!ClientKinds, NEW id, NEW valid,
         NEW reply \in Api!Replies(kind_, id, valid)
  PROVE  /\ Api!Decode(kind_, reply) # Api!Nothing =>
              kind_ = "ping" \/ Api!Decode(kind_, reply) = Api!Now(kind_, id)
         /\ Api!Decode(kind_, reply) = Api!Nothing /\ valid = TRUE /\ database = TRUE => Api!Now(kind_, id) = Api!Nothing
<1> USE DEF Api!Replies, Api!Decode, Api!DecodeOne, Api!Now, Api!Ok, Api!Error, Api!Query, Api!Nothing,
            Api!Lists
<1>1. CASE kind_ = "ping" BY <1>1
<1>2. CASE kind_ = "nodes" BY <1>2 DEF Api!ListNodes, Api!Parsed, Api!Rows
<1>3. CASE kind_ = "contracts"
  <2>1. Api!Rows(contracts).of = "rows" /\ Api!Rows(contracts) # Api!Nothing BY DEF Api!Rows
  <2>2. \/ reply.body = Api!Rows(contracts)
        \/ reply.body.of = "error" /\ ~(valid = TRUE /\ database = TRUE)
    BY <1>3 DEF Api!ListContracts, Api!Parsed
  <2>3. Api!Decode(kind_, reply) = IF reply.body.of = "rows" THEN reply.body ELSE Api!Nothing
    BY <1>3 DEF Api!DecodeContracts
  <2>4. Api!Now(kind_, id) = Api!Rows(contracts) BY <1>3
  <2> QED BY <2>1, <2>2, <2>3, <2>4
<1>4. CASE kind_ = "stats" BY <1>4 DEF Api!GetStats, Api!Stats
<1>5. CASE kind_ = "node" BY <1>5 DEF Api!GetNode, Api!NodeRow, Api!Row
<1>6. CASE kind_ = "status" BY <1>6 DEF Api!GetStatus, Api!NodeRow, Api!Row
<1>7. CASE kind_ = "contract" BY <1>7 DEF Api!GetContract, Api!ContractRow, Api!Row
<1>8. CASE kind_ = "bills" BY <1>8 DEF Api!GetBills, Api!BillRows
<1> QED BY <1>1, <1>2, <1>3, <1>4, <1>5, <1>6, <1>7, <1>8 DEF Api!ClientKinds, Api!OfContract

LEMMA ApiAsk ==
  ASSUME ApiInv, NEW k \in Api!Kinds, NEW id, NEW valid \in BOOLEAN, Api!Ask(k, id, valid)
  PROVE  ApiInv'
<1>1. call' = [kind |-> k, id |-> id, valid |-> valid, tries |-> 0, phase |-> "sending",
               got |-> Api!Nothing, code |-> 0]
  BY DEF Api!Ask, Api!Idle
<1>2. CallRecord' BY <1>1 DEF CallRecord
<1>3. Api!Now(k, id)' = Api!Now(k, id)
  BY DEF Api!Ask, Api!Now, Api!Rows, Api!NodeRow, Api!ContractRow, Api!BillRows, Api!Stats
<1> QED BY <1>1, <1>2, <1>3 DEF ApiInv, Api!Ask, Api!TrueAnswer, Api!ServedOtherwise

(* A try that fails is made again, or ends the call.                       *)
LEMMA FailedCall ==
  ASSUME CallRecord, NEW c, c = Api!Failed(call), call.kind \in Api!Kinds
  PROVE  /\ c = [kind |-> call.kind, id |-> call.id, valid |-> call.valid, tries |-> call.tries + 1,
                 phase |-> c.phase, got |-> call.got, code |-> call.code]
         /\ c.phase \in {"sending", "failed"} /\ c.tries \in Nat
<1>1. PICK p \in {"sending", "failed"} : c = [call EXCEPT !.tries = call.tries + 1, !.phase = p]
  BY DEF Api!Failed
<1>2. c = [kind |-> call.kind, id |-> call.id, valid |-> call.valid, tries |-> call.tries + 1,
           phase |-> p, got |-> call.got, code |-> call.code]
  BY <1>1 DEF CallRecord
<1>3. c.phase = p /\ c.tries = call.tries + 1 BY <1>2
<1> QED BY <1>2, <1>3 DEF CallRecord

LEMMA ApiFails ==
  ASSUME ApiInv, call.phase = "sending", \E err \in Api!DoErrors : Api!Fails(err),
         faults' \in Nat \ {0}
  PROVE  ApiInv'
<1>1. call' = [kind |-> call.kind, id |-> call.id, valid |-> call.valid, tries |-> call.tries + 1,
               phase |-> call'.phase, got |-> call.got, code |-> call.code]
      /\ call'.phase \in {"sending", "failed"} /\ call'.tries \in Nat
  BY FailedCall DEF ApiInv, Api!Fails
<1>2. CallRecord' BY <1>1 DEF CallRecord, ApiInv
<1>3. active' = active BY DEF Api!Fails, Api!DoErrors, Api!Rotated, Api!Switches
<1>4. Api!Now(call.kind, call.id)' = Api!Now(call.kind, call.id)
  <2>1. call'.kind = call.kind /\ call'.id = call.id BY <1>1
  <2> QED BY <2>1
    DEF Api!Fails, Api!Now, Api!Rows, Api!NodeRow, Api!ContractRow, Api!BillRows, Api!Stats
<1>5. call'.kind = call.kind BY <1>1
<1> QED BY <1>1, <1>2, <1>3, <1>4, <1>5
     DEF ApiInv, Api!Fails, Api!Endpoint, Api!TrueAnswer, Api!ServedOtherwise

LEMMA ApiServe == ASSUME ApiInv, Api!Serve PROVE ApiInv'
<1>1. PICK reply \in Api!Replies(call.kind, call.id, call.valid) :
        call' = IF call.kind \in Api!ClientKinds /\ Api!Decode(call.kind, reply) = Api!Nothing
                THEN [Api!Failed(call) EXCEPT !.code = reply.code]
                ELSE [call EXCEPT !.phase = "answered", !.code = reply.code,
                        !.got = IF call.kind \in Api!ClientKinds THEN Api!Decode(call.kind, reply)
                                ELSE reply.body]
  BY DEF Api!Serve
<1> DEFINE got == Api!Decode(call.kind, reply)
           now == Api!Now(call.kind, call.id)
<1>2. call.kind \in Api!Kinds /\ call.valid \in BOOLEAN /\ now \in moments /\ call.phase = "sending" /\ CallRecord
  BY DEF ApiInv, Api!Serve, CallRecord
<1>3. CASE call.kind \in Api!ClientKinds /\ got = Api!Nothing
  <2>1. call' = [Api!Failed(call) EXCEPT !.code = reply.code] BY <1>1, <1>3
  <2>2. call' = [kind |-> call.kind, id |-> call.id, valid |-> call.valid, tries |-> call.tries + 1,
                 phase |-> call'.phase, got |-> call.got, code |-> reply.code]
        /\ call'.phase \in {"sending", "failed"} /\ call'.tries \in Nat
    BY <1>2, <2>1, FailedCall
  <2>3. CallRecord' BY <1>2, <2>2 DEF CallRecord
  <2>4. call.valid = TRUE /\ database = TRUE => now = Api!Nothing
    BY <1>2, <1>3, Decoded DEF CallRecord
  <2>5. Api!ServedOtherwise'
    <3>1. faults = 0 => database = TRUE BY DEF ApiInv
    <3>2. Api!Nothing \notin moments /\ call.valid => faults # 0 BY <1>2, <2>4, <3>1
    <3>3. call'.valid = call.valid /\ moments' = moments /\ faults' = faults
      BY <2>2 DEF Api!Serve
    <3> QED BY <3>2, <3>3 DEF Api!ServedOtherwise, ApiInv, Api!Nothing
  <2>6. Api!TrueAnswer' BY <2>2 DEF Api!TrueAnswer
  <2>7. call'.kind = call.kind /\ call'.id = call.id BY <2>2
  <2>8. Api!Now(call.kind, call.id)' = now
    <3>1. UNCHANGED <<nodes, contracts, billed>> BY DEF Api!Serve
    <3> QED BY <2>7, <3>1 DEF Api!Now, Api!Rows, Api!NodeRow, Api!ContractRow, Api!BillRows, Api!Stats
  <2> QED BY <1>2, <2>3, <2>5, <2>6, <2>7, <2>8 DEF ApiInv, Api!Serve, Api!Endpoint
<1>4. CASE ~(call.kind \in Api!ClientKinds /\ got = Api!Nothing)
  <2> DEFINE what == IF call.kind \in Api!ClientKinds THEN got ELSE reply.body
  <2>1. call' = [call EXCEPT !.phase = "answered", !.code = reply.code, !.got = what] BY <1>1, <1>4
  <2> HIDE DEF what
  <2>2. call' = [kind |-> call.kind, id |-> call.id, valid |-> call.valid, tries |-> call.tries,
                 phase |-> "answered", got |-> what, code |-> reply.code]
    BY <1>2, <2>1 DEF CallRecord
  <2>3. CallRecord' BY <1>2, <2>2 DEF CallRecord
  <2>4. call.kind \in Api!ClientKinds \ {"ping"} => got = now
    <3> SUFFICES ASSUME call.kind \in Api!ClientKinds, call.kind # "ping" PROVE got = now OBVIOUS
    <3>1. got # Api!Nothing BY <1>4
    <3>2. got # Api!Nothing => call.kind = "ping" \/ got = now BY <1>2, Decoded
    <3> QED BY <3>1, <3>2
  <2>5. Api!TrueAnswer'
    BY <1>2, <2>2, <2>4 DEF Api!TrueAnswer, Api!Serve, what
  <2>6. Api!ServedOtherwise' BY <2>2 DEF Api!ServedOtherwise
  <2>7. call'.phase = "answered" BY <2>2
  <2> QED BY <2>3, <2>5, <2>6, <2>7 DEF ApiInv, Api!Serve, Api!Endpoint
<1> QED BY <1>3, <1>4

(* Rows change, are billed, proxies and the database break and mend.       *)
LEMMA ApiWorld ==
  ASSUME ApiInv,
         \/ \E n \in ApiNode, s \in {"none", "up", "standby", "down"} : Api!NodeChanges(n, s)
         \/ \E c \in ApiContract : Api!ContractChanges(c) \/ Api!Bill(c)
         \/ Api!Breaks \/ Api!Mends
  PROVE  ApiInv'
<1>1. UNCHANGED <<call, active>> /\ (Api!Watched \/ UNCHANGED <<moments, nodes, contracts, billed>>)
  BY DEF Api!NodeChanges, Api!ContractChanges, Api!Bill, Api!Breaks, Api!Mends
<1>2. faults' \in Nat /\ (faults' = faults \/ faults' = faults + 1)
  BY DEF ApiInv, Api!NodeChanges, Api!ContractChanges, Api!Bill, Api!Breaks, Api!Mends
<1>3. faults' = 0 => serving' = Api!Endpoint /\ database' = TRUE
  BY DEF ApiInv, Api!NodeChanges, Api!ContractChanges, Api!Bill, Api!Breaks, Api!Mends
<1>4. call.phase # "idle" => moments \subseteq moments'
  BY <1>1 DEF Api!Watched
<1>5. call.phase = "sending" => Api!Now(call.kind, call.id)' \in moments'
  <2>1. CASE Api!Watched BY <2>1 DEF Api!Watched
  <2>2. CASE UNCHANGED <<moments, nodes, contracts, billed>>
    BY <1>1, <2>2 DEF ApiInv, Api!Now, Api!Rows, Api!NodeRow, Api!ContractRow, Api!BillRows, Api!Stats
  <2> QED BY <1>1, <2>1, <2>2
<1>6. Api!TrueAnswer' BY <1>1, <1>4 DEF ApiInv, Api!TrueAnswer
<1>7. Api!ServedOtherwise' BY <1>1, <1>2, <1>4 DEF ApiInv, Api!ServedOtherwise
<1> QED BY <1>1, <1>2, <1>3, <1>5, <1>6, <1>7 DEF ApiInv, CallRecord, Api!Endpoint

LEMMA ApiNext == ApiInv /\ [Api!Next]_(Api!vars) => ApiInv'
<1> SUFFICES ASSUME ApiInv, [Api!Next]_(Api!vars) PROVE ApiInv' OBVIOUS
<1>1. CASE \E k \in Api!Kinds, valid \in BOOLEAN : \E id \in Api!IdsOf(k) : Api!Ask(k, id, valid)
  BY <1>1, ApiAsk
<1>2. CASE Api!Refused
  <2>1. faults' \in Nat \ {0} BY <1>2 DEF ApiInv, Api!Refused
  <2>2. call.phase = "sending" /\ \E err \in Api!DoErrors : Api!Fails(err)
    BY <1>2 DEF Api!Refused, Api!DoErrors
  <2> QED BY <2>1, <2>2, ApiFails
<1>3. CASE Api!Late
  <2>1. faults' \in Nat \ {0} BY <1>3 DEF ApiInv, Api!Late
  <2>2. call.phase = "sending" /\ \E err \in Api!DoErrors : Api!Fails(err)
    BY <1>3 DEF Api!Late, Api!DoErrors
  <2> QED BY <2>1, <2>2, ApiFails
<1>4. CASE Api!Serve BY <1>4, ApiServe
<1>5. CASE UNCHANGED Api!vars
  BY <1>5 DEF Api!vars, ApiInv, CallRecord, Api!TrueAnswer, Api!ServedOtherwise, Api!Now, Api!Rows,
              Api!NodeRow, Api!ContractRow, Api!BillRows, Api!Stats, Api!Endpoint
<1> QED BY <1>1, <1>2, <1>3, <1>4, <1>5, ApiWorld DEF Api!Next, Api!ClientStep

LEMMA ApiInit == ASSUME Api!ApiAssumption, Api!Init PROVE ApiInv
BY DEF Api!Init, Api!Idle, ApiInv, CallRecord, Api!Endpoint, Api!ApiAssumption, Api!TrueAnswer,
       Api!ServedOtherwise

(* Calls, rows and proxies, in every reachable state.                      *)
THEOREM ApiInvariance == Api!ApiAssumption => (Api!Spec => []ApiInv)
<1> SUFFICES ASSUME Api!ApiAssumption PROVE Api!Spec => []ApiInv OBVIOUS
<1>1. Api!Init => ApiInv BY ApiInit
<1> QED BY <1>1, ApiNext, PTL DEF Api!Spec

(* Clientimpl returns a listing, a row or counters that the database held  *)
(* at a moment of the call, whatever was tried before and changed since.   *)
THEOREM AnswersTrue == Api!ApiAssumption => (Api!Spec => []Api!TrueAnswer)
<1> SUFFICES ASSUME Api!ApiAssumption PROVE Api!Spec => []Api!TrueAnswer OBVIOUS
<1>1. ApiInv => Api!TrueAnswer BY DEF ApiInv
<1> QED BY <1>1, ApiInvariance, PTL

(* A valid call for what is there fails only if a proxy or its database    *)
(* broke or a reply was late: never by the client's own mistake.           *)
THEOREM ServedUnlessBroken == Api!ApiAssumption => (Api!Spec => []Api!ServedOtherwise)
<1> SUFFICES ASSUME Api!ApiAssumption PROVE Api!Spec => []Api!ServedOtherwise OBVIOUS
<1>1. ApiInv => Api!ServedOtherwise BY DEF ApiInv
<1> QED BY <1>1, ApiInvariance, PTL

(* Both: what a call of the client ends with is right, and has a reason.   *)
THEOREM HonestClient == Api!ApiAssumption => (Api!Spec => []Api!Honest)
<1> SUFFICES ASSUME Api!ApiAssumption PROVE Api!Spec => []Api!Honest OBVIOUS
<1>1. Api!TrueAnswer /\ Api!ServedOtherwise => Api!Honest BY DEF Api!Honest
<1> QED BY <1>1, AnswersTrue, ServedUnlessBroken, PTL

-----------------------------------------------------------------------------
(***************************************************************************)
(* A call over the local bus.  First the way from a topic to its handler,  *)
(* for any tree of routers.                                                *)
(***************************************************************************)

LEMMA Least ==
  ASSUME NEW S \in SUBSET Nat, S # {} PROVE \E m \in S : \A n \in S : m <= n
<1>1. PICK m \in S : \A n \in S : ~(<<n, m>> \in OpToRel(<, Nat))
  BY NatLessThanWellFounded, WFMin
<1>2. \A n \in S : n < m => <<n, m>> \in OpToRel(<, Nat) BY DEF OpToRel
<1>3. \A n \in S : ~(n < m) BY <1>1, <1>2
<1>4. \A n \in S : m <= n BY <1>3
<1> QED BY <1>4

LEMMA PrefixType ==
  ASSUME NEW S, NEW s \in Seq(S), NEW k \in 0..Len(s)
  PROVE  SubSeq(s, 1, k) \in Seq(S) /\ Len(SubSeq(s, 1, k)) = k
<1>1. Len(s) \in Nat /\ \A i \in 1..Len(s) : s[i] \in S BY LenProperties, ElementOfSeq
<1>2. \A i \in 1..k : s[i] \in S BY <1>1
<1> QED BY <1>1, <1>2, SubSeqProperties

LEMMA PrefixOfPrefix ==
  ASSUME NEW S, NEW s \in Seq(S), NEW k \in 0..Len(s), NEW j \in 0..k
  PROVE  SubSeq(SubSeq(s, 1, k), 1, j) = SubSeq(s, 1, j)
<1> DEFINE t == SubSeq(s, 1, k)
<1>1. Len(s) \in Nat /\ \A i \in 1..Len(s) : s[i] \in S BY LenProperties, ElementOfSeq
<1>2. t \in Seq(S) /\ Len(t) = k /\ \A i \in 1..k : t[i] = s[i]
  <2>1. \A i \in 1..k : s[i] \in S BY <1>1
  <2> QED BY <1>1, <2>1, SubSeqProperties
<1> HIDE DEF t
<1>3. SubSeq(t, 1, j) \in Seq(S) /\ Len(SubSeq(t, 1, j)) = j /\ \A i \in 1..j : SubSeq(t, 1, j)[i] = t[i]
  <2>1. \A i \in 1..j : t[i] \in S BY <1>1, <1>2
  <2> QED BY <1>1, <2>1, SubSeqProperties
<1>4. SubSeq(s, 1, j) \in Seq(S) /\ Len(SubSeq(s, 1, j)) = j /\ \A i \in 1..j : SubSeq(s, 1, j)[i] = s[i]
  <2>1. \A i \in 1..j : s[i] \in S BY <1>1
  <2> QED BY <1>1, <2>1, SubSeqProperties
<1>5. SubSeq(t, 1, j) = SubSeq(s, 1, j) BY <1>1, <1>2, <1>3, <1>4, SeqEqual
<1> QED BY <1>5 DEF t

(* Every router above a router is one.                                     *)
LEMMA RouterAbove ==
  ASSUME Bus!BusAssumption, NEW p \in Routers, NEW j \in 0..Len(p)
  PROVE  SubSeq(p, 1, j) \in Routers
<1>1. p \in Seq(STRING) /\ Len(p) \in Nat BY LenProperties DEF Bus!BusAssumption, Bus!Topic
<1> DEFINE Bad == {d \in 0..Len(p) : SubSeq(p, 1, Len(p) - d) \notin Routers}
<1>2. Bad = {}
  <2> SUFFICES ASSUME Bad # {} PROVE FALSE OBVIOUS
  <2>1. PICK m \in Bad : \A d \in Bad : m <= d
    <3>1. Bad \in SUBSET Nat OBVIOUS
    <3> HIDE DEF Bad
    <3> QED BY <3>1, Least
  <2>2. m # 0
    <3>1. SubSeq(p, 1, Len(p)) = p BY <1>1, SubSeqFull
    <3>2. Len(p) - 0 = Len(p) BY <1>1
    <3> QED BY <2>1, <3>1, <3>2
  <2> DEFINE k == Len(p) - (m - 1)
             q == SubSeq(p, 1, k)
  <2>3. k \in 0..Len(p) /\ k - 1 = Len(p) - m /\ k - 1 \in 0..k BY <1>1, <2>2
  <2>4. q \in Routers
    <3>1. m - 1 \in 0..Len(p) /\ m - 1 \notin Bad BY <1>1, <2>1, <2>2
    <3> QED BY <3>1
  <2>5. Len(q) = k /\ q \in Seq(STRING) BY <1>1, <2>3, PrefixType
  <2>6. k # 0 BY <1>1, <2>1
  <2>7. q # <<>>
    <3> SUFFICES ASSUME q = <<>> PROVE FALSE OBVIOUS
    <3>1. Len(q) = 0 BY EmptySeq
    <3> QED BY <2>5, <2>6, <3>1
  <2>8. Bus!Front(q) \in Routers BY <2>4, <2>7 DEF Bus!BusAssumption
  <2>9. Bus!Front(q) = SubSeq(p, 1, k - 1)
    <3>1. SubSeq(q, 1, k - 1) = SubSeq(p, 1, k - 1) BY <1>1, <2>3, PrefixOfPrefix
    <3> QED BY <2>5, <3>1 DEF Bus!Front
  <2> QED BY <2>1, <2>3, <2>8, <2>9
<1>3. Len(p) - j \in 0..Len(p) /\ Len(p) - (Len(p) - j) = j BY <1>1
<1> QED BY <1>2, <1>3

(* call goes down to the first router where it stops.                      *)
LEMMA DepthIs ==
  ASSUME NEW route \in Bus!Topic
  PROVE  /\ Bus!Depth(route) \in 0..Len(route) /\ Bus!Stops(route, Bus!Depth(route))
         /\ \A j \in 0..Bus!Depth(route) - 1 : ~Bus!Stops(route, j)
<1> DEFINE S == {k \in 0..Len(route) : Bus!Stops(route, k)}
<1>1. Len(route) \in Nat BY LenProperties DEF Bus!Topic
<1>2. Bus!Stops(route, Len(route)) BY DEF Bus!Stops
<1>3. S \in SUBSET Nat /\ S # {} BY <1>1, <1>2
<1>4. PICK m \in S : \A k \in S : m <= k BY <1>3, Least
<1>5. \A j \in 0..m - 1 : ~Bus!Stops(route, j) BY <1>1, <1>4
<1>6. \E k \in 0..Len(route) : Bus!Stops(route, k) /\ \A j \in 0..k - 1 : ~Bus!Stops(route, j) BY <1>4, <1>5
<1> HIDE DEF S
<1> QED BY <1>6 DEF Bus!Depth

(* The handler call finds is registered under the topic, and a topic that  *)
(* has a handler is found, though a dotted name of one router may hide the *)
(* handlers of another.                                                    *)
LEMMA FoundServes ==
  ASSUME Bus!BusAssumption, NEW route \in Bus!Topic PROVE Bus!Found(route) <=> route \in Bus!Topics
<1> DEFINE d == Bus!Depth(route)
<1>1. Len(route) \in Nat /\ route \in Seq(STRING) BY LenProperties DEF Bus!Topic
<1>2. d \in 0..Len(route) /\ Bus!Stops(route, d) /\ \A j \in 0..d - 1 : ~Bus!Stops(route, j) BY DepthIs
<1> HIDE DEF d
<1>3. ASSUME Bus!Found(route) PROVE route \in Bus!Topics
  <2>1. Bus!At(route, d) \in Handlers BY <1>3 DEF Bus!Found, d
  <2>2. SubSeq(route, 1, d) \o SubSeq(route, d + 1, Len(route)) = route
    <3>1. 1 \in 1..Len(route) + 1 /\ d \in 1 - 1..Len(route) /\ Len(route) \in d..Len(route) BY <1>1, <1>2
    <3>2. SubSeq(route, 1, d) \o SubSeq(route, d + 1, Len(route)) = SubSeq(route, 1, Len(route))
      BY <1>1, <3>1, ConcatAdjacentSubSeq
    <3> QED BY <1>1, <3>2, SubSeqFull
  <2>3. Bus!At(route, d).at \o Bus!At(route, d).as = route BY <2>2 DEF Bus!At
  <2> QED BY <2>1, <2>3 DEF Bus!Topics
<1>4. ASSUME route \in Bus!Topics PROVE Bus!Found(route)
  <2>1. PICK h \in Handlers : route = h.at \o h.as BY <1>4 DEF Bus!Topics
  <2> DEFINE K == Len(h.at)
  <2>2. h.at \in Routers /\ h.at \in Seq(STRING) /\ h.as \in Seq(STRING) /\ h = [at |-> h.at, as |-> h.as]
    BY DEF Bus!BusAssumption, Bus!Topic
  <2>3. K \in Nat /\ Len(h.as) \in Nat /\ Len(route) = K + Len(h.as)
        /\ (\A i \in 1..K : route[i] = h.at[i]) /\ \A i \in 1..Len(h.as) : route[K + i] = h.as[i]
    BY <2>1, <2>2, LenProperties, ConcatProperties
  <2> HIDE DEF K
  <2>4. ASSUME NEW j \in 0..K PROVE SubSeq(route, 1, j) \in Routers
    <3>1. SubSeq(route, 1, j) \in Seq(STRING) /\ Len(SubSeq(route, 1, j)) = j
          /\ \A i \in 1..j : SubSeq(route, 1, j)[i] = route[i]
      <4>1. \A i \in 1..j : route[i] \in STRING BY <1>1, <2>3, ElementOfSeq
      <4> QED BY <2>3, <4>1, SubSeqProperties
    <3>2. SubSeq(h.at, 1, j) \in Seq(STRING) /\ Len(SubSeq(h.at, 1, j)) = j
          /\ \A i \in 1..j : SubSeq(h.at, 1, j)[i] = h.at[i]
      <4>1. \A i \in 1..j : h.at[i] \in STRING BY <2>2, <2>3, ElementOfSeq DEF K
      <4> QED BY <2>3, <4>1, SubSeqProperties
    <3>3. SubSeq(route, 1, j) = SubSeq(h.at, 1, j) BY <2>3, <3>1, <3>2, SeqEqual
    <3> QED BY <2>2, <2>3, <3>3, RouterAbove DEF K
  <2>5. Bus!At(route, K) \in Handlers
    <3>1. SubSeq(route, 1, K) = h.at
      <4>1. SubSeq(route, 1, K) \in Seq(STRING) /\ Len(SubSeq(route, 1, K)) = K
            /\ \A i \in 1..K : SubSeq(route, 1, K)[i] = route[i]
        <5>1. \A i \in 1..K : route[i] \in STRING BY <1>1, <2>3, ElementOfSeq
        <5> QED BY <2>3, <5>1, SubSeqProperties
      <4> QED BY <2>2, <2>3, <4>1, SeqEqual DEF K
    <3>2. SubSeq(route, K + 1, Len(route)) = h.as
      <4> DEFINE t == SubSeq(route, K + 1, Len(route))
      <4>1. t \in Seq(STRING) /\ Len(t) = (IF K + 1 <= Len(route) THEN Len(route) - (K + 1) + 1 ELSE 0)
            /\ \A i \in 1..Len(route) - (K + 1) + 1 : t[i] = route[K + 1 + i - 1]
        <5>1. \A i \in K + 1..Len(route) : route[i] \in STRING BY <1>1, <2>3, ElementOfSeq
        <5> QED BY <2>3, <5>1, SubSeqProperties
      <4> HIDE DEF t
      <4>2. Len(t) = Len(h.as) BY <2>3, <4>1
      <4>3. \A i \in 1..Len(h.as) : t[i] = h.as[i]
        <5> TAKE i \in 1..Len(h.as)
        <5>1. i \in 1..Len(route) - (K + 1) + 1 /\ K + 1 + i - 1 = K + i BY <2>3
        <5>2. t[i] = route[K + i] BY <4>1, <5>1
        <5> QED BY <2>3, <5>2
      <4>4. t = h.as BY <2>2, <4>1, <4>2, <4>3, SeqEqual
      <4> QED BY <4>4 DEF t
    <3> QED BY <2>2, <3>1, <3>2 DEF Bus!At
  <2>6. K \in 0..Len(route) /\ Bus!Stops(route, K) BY <2>3, <2>5 DEF Bus!Stops
  <2>7. ~(K < d) BY <1>1, <1>2, <2>3, <2>6
  <2>8. CASE d = K BY <2>5, <2>8 DEF Bus!Found, d
  <2>9. CASE d < K
    <3>1. d + 1 \in 0..K /\ d # Len(route) BY <1>1, <1>2, <2>3, <2>9
    <3>2. SubSeq(route, 1, d + 1) \in Routers BY <2>4, <3>1
    <3>3. Bus!At(route, d) \in Handlers BY <1>2, <3>1, <3>2 DEF Bus!Stops
    <3> QED BY <3>3 DEF Bus!Found, d
  <2> QED BY <1>1, <1>2, <2>3, <2>7, <2>8, <2>9
<1> QED BY <1>3, <1>4

(* What the routers may make of a call.                                    *)
EndKinds == {"rejected", "crash", "result", "error", "panicked", "noJson", "notFound"}

LEMMA PrefixesType == ASSUME NEW route \in Bus!Topic PROVE Bus!Prefixes(route) \subseteq Bus!Topic
<1>1. \A k \in 0..Len(route) : SubSeq(route, 1, k) \in Bus!Topic BY PrefixType DEF Bus!Topic
<1> QED BY <1>1 DEF Bus!Prefixes

LEMMA EndsIs ==
  ASSUME Bus!BusAssumption, NEW route \in Bus!Topic, NEW end \in Bus!Ends(route)
  PROVE  /\ end.end \in EndKinds /\ end.by \in Bus!Topic /\ Bus!Passed(route) \subseteq Bus!Topic
         /\ end.end = "result" => route \in Bus!Topics /\ Bus!Prefixes(end.by) = Bus!Passed(route)
         /\ end.end = "notFound" => route \notin Bus!Topics
<1>1. Bus!Depth(route) \in 0..Len(route) BY DepthIs
<1>2. SubSeq(route, 1, Bus!Depth(route)) \in Bus!Topic BY <1>1, PrefixType DEF Bus!Topic
<1>3. Bus!Passed(route) \subseteq Bus!Topic BY <1>2, PrefixesType DEF Bus!Passed
<1>4. <<>> \in Bus!Topic BY DEF Bus!BusAssumption
<1>5. CASE \E p \in Bus!Passed(route) : end = [end |-> "rejected", by |-> p] \/ end = [end |-> "crash", by |-> p]
  BY <1>3, <1>5 DEF EndKinds
<1>6. CASE /\ Bus!Found(route)
           /\ \E e \in {"result", "error", "panicked", "noJson"} :
                end = [end |-> e, by |-> Bus!At(route, Bus!Depth(route)).at]
  <2>1. Bus!At(route, Bus!Depth(route)).at = SubSeq(route, 1, Bus!Depth(route)) BY DEF Bus!At
  <2>2. route \in Bus!Topics BY <1>6, FoundServes
  <2>3. PICK e \in {"result", "error", "panicked", "noJson"} :
          end = [end |-> e, by |-> SubSeq(route, 1, Bus!Depth(route))]
    BY <1>6, <2>1
  <2>4. end.end = e /\ end.by = SubSeq(route, 1, Bus!Depth(route)) BY <2>3
  <2> QED BY <1>2, <1>3, <2>2, <2>4 DEF EndKinds, Bus!Passed
<1>7. CASE ~Bus!Found(route) /\ end = [end |-> "notFound", by |-> <<>>]
  <2>1. route \notin Bus!Topics BY <1>7, FoundServes
  <2>2. end.end = "notFound" /\ end.by = <<>> BY <1>7
  <2> QED BY <1>3, <1>4, <2>1, <2>2 DEF EndKinds
<1> QED BY <1>5, <1>6, <1>7 DEF Bus!Ends

(* A queue that holds each of its elements once.                           *)
Distinct(s) == \A i, j \in DOMAIN s : s[i] = s[j] => i = j

LEMMA HeadAndTail ==
  ASSUME NEW S, NEW s \in Seq(S), s # <<>>
  PROVE  /\ 1 \in DOMAIN s /\ Head(s) = s[1] /\ Head(s) \in S /\ Tail(s) \in Seq(S)
         /\ \A i \in DOMAIN Tail(s) : i + 1 \in DOMAIN s /\ Tail(s)[i] = s[i + 1]
         /\ \A i \in DOMAIN s : i = 1 \/ (i - 1 \in DOMAIN Tail(s) /\ Tail(s)[i - 1] = s[i])
<1>1. DOMAIN s = 1..Len(s) /\ Len(s) \in Nat BY LenProperties
<1>2. Len(s) # 0 BY EmptySeq
<1>3. Head(s) \in S /\ Tail(s) \in Seq(S) /\ Len(Tail(s)) = Len(s) - 1
      /\ \A i \in 1..Len(Tail(s)) : Tail(s)[i] = s[i + 1]
  BY HeadTailProperties
<1>4. DOMAIN Tail(s) = 1..Len(s) - 1 BY <1>3, LenProperties
<1>5. Head(s) = s[1] BY <1>1
<1> QED BY <1>1, <1>2, <1>3, <1>4, <1>5

LEMMA TakenOff ==
  ASSUME NEW S, NEW s \in Seq(S), s # <<>>, Distinct(s)
  PROVE  Head(s) \in Bus!ToSet(s) /\ Bus!ToSet(Tail(s)) = Bus!ToSet(s) \ {Head(s)} /\ Distinct(Tail(s))
<1>1. DOMAIN s = 1..Len(s) /\ Len(s) \in Nat BY LenProperties
<1> DEFINE t == Tail(s)
           h == Head(s)
<1>2. /\ 1 \in DOMAIN s /\ h = s[1]
      /\ \A i \in DOMAIN t : i + 1 \in DOMAIN s /\ t[i] = s[i + 1]
      /\ \A i \in DOMAIN s : i = 1 \/ (i - 1 \in DOMAIN t /\ t[i - 1] = s[i])
  BY HeadAndTail
<1>3. t \in Seq(S) /\ DOMAIN t \subseteq Nat BY HeadAndTail, LenProperties
<1> HIDE DEF t, h
<1>4. h \in Bus!ToSet(s) BY <1>2 DEF Bus!ToSet
<1>5. Bus!ToSet(t) \subseteq Bus!ToSet(s) \ {h}
  <2> SUFFICES ASSUME NEW i \in DOMAIN t PROVE t[i] \in Bus!ToSet(s) /\ t[i] # h BY DEF Bus!ToSet
  <2>1. i + 1 \in DOMAIN s /\ t[i] = s[i + 1] /\ i + 1 # 1 BY <1>1, <1>2, <1>3
  <2> QED BY <1>2, <2>1 DEF Bus!ToSet, Distinct
<1>6. Bus!ToSet(s) \ {h} \subseteq Bus!ToSet(t)
  <2> SUFFICES ASSUME NEW i \in DOMAIN s, s[i] # h PROVE s[i] \in Bus!ToSet(t) BY DEF Bus!ToSet
  <2> QED BY <1>2 DEF Bus!ToSet
<1>7. Distinct(t)
  <2> SUFFICES ASSUME NEW i \in DOMAIN t, NEW j \in DOMAIN t, t[i] = t[j] PROVE i = j BY DEF Distinct
  <2>1. i + 1 = j + 1 BY <1>2 DEF Distinct
  <2> QED BY <1>3, <2>1
<1> QED BY <1>4, <1>5, <1>6, <1>7 DEF t, h

LEMMA PutOn ==
  ASSUME NEW S, NEW s \in Seq(S), NEW e \in S
  PROVE  /\ Append(s, e) \in Seq(S) /\ Append(s, e) # <<>>
         /\ Bus!ToSet(Append(s, e)) = Bus!ToSet(s) \cup {e}
         /\ Distinct(s) /\ e \notin Bus!ToSet(s) => Distinct(Append(s, e))
         /\ \A i \in DOMAIN Append(s, e) : (i \in DOMAIN s /\ Append(s, e)[i] = s[i]) \/ Append(s, e)[i] = e
<1>1. DOMAIN s = 1..Len(s) /\ Len(s) \in Nat BY LenProperties
<1>2. /\ Append(s, e) \in Seq(S) /\ Append(s, e) # <<>> /\ Len(Append(s, e)) = Len(s) + 1
      /\ \A i \in 1..Len(s) : Append(s, e)[i] = s[i]
      /\ Append(s, e)[Len(s) + 1] = e
  BY AppendProperties
<1>3. DOMAIN Append(s, e) = 1..Len(s) + 1 BY <1>2, LenProperties
<1> DEFINE t == Append(s, e)
<1> HIDE DEF t
<1>4. /\ t \in Seq(S) /\ t # <<>> /\ DOMAIN t = 1..Len(s) + 1
      /\ (\A i \in 1..Len(s) : t[i] = s[i]) /\ t[Len(s) + 1] = e
  BY <1>2, <1>3 DEF t
<1>5. Bus!ToSet(t) = Bus!ToSet(s) \cup {e} BY <1>1, <1>4 DEF Bus!ToSet
<1>6. Distinct(s) /\ e \notin Bus!ToSet(s) => Distinct(t) BY <1>1, <1>4 DEF Bus!ToSet, Distinct
<1>7. \A i \in DOMAIN t : (i \in DOMAIN s /\ t[i] = s[i]) \/ t[i] = e BY <1>1, <1>4
<1> QED BY <1>4, <1>5, <1>6, <1>7 DEF t

(***************************************************************************)
(* The inductive invariant of the bus: a request is in one place, and once *)
(* there, until its handler has ended; what is answered is right wherever  *)
(* the answer is, and stays so after its call has given up.                *)
(***************************************************************************)
Phases == {"idle", "acquiring", "waiting", "ok", "failed"}
Answer == [end : EndKinds, of : BusCall, by : Bus!Topic, past : SUBSET Bus!Topic]
Asked(r) == r.phase \notin {"idle", "acquiring"}

BusType ==
  /\ kind \in {"redis", "peer"} /\ state \in {"running", "stopped", "crashed"}
  /\ calls \in [BusCall -> [phase : Phases, topic : Bus!Topic, got : Answer \cup {[end |-> "nothing"]}]]
  /\ bus \in Seq(BusCall) /\ arrived \subseteq BusCall /\ held \subseteq BusCall /\ jobs \in Seq(BusCall)
  /\ handling \subseteq BusCall /\ leaving \subseteq [to : BusCall, answer : Answer]
  /\ queues \in [BusCall -> Seq(Answer)] /\ ended \in [BusCall -> Seq(EndKinds)]
  /\ faults \in Nat

InHands == held \cup Bus!ToSet(jobs) \cup handling
Within == Bus!ToSet(bus) \cup arrived \cup InHands
Once ==
  /\ Distinct(bus) /\ Distinct(jobs) /\ \A c, d \in held : c = d
  /\ Bus!ToSet(bus) \cap (arrived \cup InHands) = {} /\ arrived \cap InHands = {}
  /\ held \cap (Bus!ToSet(jobs) \cup handling) = {} /\ Bus!ToSet(jobs) \cap handling = {}
  /\ \A c \in BusCall : Len(ended[c]) <= 1
  /\ \A c \in Within : ended[c] = <<>> /\ Asked(calls[c])
  /\ \A c \in BusCall : ~Asked(calls[c]) => ended[c] = <<>>

\* Answer a is one to call c, whose record is r.
Right(a, c, r) ==
  /\ a.of = c /\ Asked(r)
  /\ a.end = "result" => r.topic \in Bus!Topics /\ Bus!Prefixes(a.by) \subseteq a.past
  /\ a.end = "notFound" => r.topic \notin Bus!Topics

Answered ==
  /\ \A m \in leaving : m.to = m.answer.of /\ Right(m.answer, m.to, calls[m.to])
  /\ \A c \in BusCall : \A i \in DOMAIN queues[c] : Right(queues[c][i], c, calls[c])
  /\ \A c \in BusCall : calls[c].got.end # "nothing" => Right(calls[c].got, c, calls[c])
  /\ \A c \in BusCall : calls[c].phase = "ok" => calls[c].got.end = "result"

OnItsWay(c) ==
  \/ c \in Within \/ (\E m \in leaving : m.answer.of = c)
  \/ queues[c] # <<>> \/ ended[c] = <<"noJson">>
OnWay ==
  faults = 0 => state = "running" /\ \A c \in BusCall : calls[c].phase = "waiting" => OnItsWay(c)

BusInv == BusType /\ Once /\ Answered /\ OnWay

LEMMA EmptyQueue ==
  ASSUME NEW s, s = <<>>, NEW S
  PROVE  s \in Seq(S) /\ Len(s) = 0 /\ DOMAIN s = {} /\ Bus!ToSet(s) = {} /\ Distinct(s)
<1>1. s \in Seq(S) /\ Len(s) = 0 BY EmptySeq
<1>2. DOMAIN s = {} BY <1>1, LenProperties
<1> QED BY <1>1, <1>2 DEF Bus!ToSet, Distinct

LEMMA BusInit == ASSUME Bus!BusAssumption, Bus!Init PROVE BusInv
<1>1. /\ \A c \in BusCall : calls[c] = [phase |-> "idle", topic |-> <<>>, got |-> [end |-> "nothing"]]
      /\ \A c \in BusCall : queues[c] = <<>> /\ ended[c] = <<>>
      /\ bus = <<>> /\ jobs = <<>> /\ arrived = {} /\ held = {} /\ handling = {} /\ leaving = {}
  BY DEF Bus!Init, Bus!Idle
<1>2. <<>> \in Bus!Topic BY DEF Bus!BusAssumption
<1>3. calls \in [BusCall -> [phase : Phases, topic : Bus!Topic, got : Answer \cup {[end |-> "nothing"]}]]
  BY <1>2 DEF Bus!Init, Bus!Idle, Phases
<1>4. BusType
  <2>1. queues \in [BusCall -> Seq(Answer)] /\ ended \in [BusCall -> Seq(EndKinds)]
    BY <1>1, EmptyQueue DEF Bus!Init
  <2> QED BY <1>1, <1>3, <2>1, EmptyQueue DEF BusType, Bus!Init
<1>5. Within = {} BY <1>1, EmptyQueue DEF Within, InHands
<1>6. \A c \in BusCall : Len(ended[c]) = 0 /\ DOMAIN queues[c] = {} BY <1>1, EmptyQueue
<1>7. Once BY <1>1, <1>5, <1>6, EmptyQueue DEF Once, InHands
<1>8. \A c \in BusCall : calls[c].phase = "idle" /\ calls[c].got.end = "nothing" BY <1>1
<1>9. Answered BY <1>1, <1>6, <1>8 DEF Answered
<1>10. OnWay BY <1>8 DEF OnWay, Bus!Init
<1> QED BY <1>4, <1>7, <1>9, <1>10 DEF BusInv

(* How a step changes one call's record: the topic of a call that was made *)
(* stays, and what it got is right.                                        *)
LEMMA CallMoves ==
  ASSUME BusInv, NEW c \in BusCall, NEW p \in Phases, NEW t \in Bus!Topic, NEW g \in Answer \cup {[end |-> "nothing"]},
         calls' = [calls EXCEPT ![c] = [phase |-> p, topic |-> t, got |-> g]],
         Asked(calls[c]) => t = calls[c].topic /\ p \notin {"idle", "acquiring"},
         g.end # "nothing" => Right(g, c, [phase |-> p, topic |-> t, got |-> g]),
         p = "ok" => g.end = "result"
  PROVE  /\ calls' \in [BusCall -> [phase : Phases, topic : Bus!Topic, got : Answer \cup {[end |-> "nothing"]}]]
         /\ \A d \in BusCall : Asked(calls[d]) => Asked(calls'[d]) /\ calls'[d].topic = calls[d].topic
         /\ \A d \in BusCall, a \in Answer : Right(a, d, calls[d]) => Right(a, d, calls'[d])
         /\ \A d \in BusCall : calls'[d].got.end # "nothing" => Right(calls'[d].got, d, calls'[d])
         /\ \A d \in BusCall : calls'[d].phase = "ok" => calls'[d].got.end = "result"
         /\ calls'[c].phase = p /\ \A d \in BusCall \ {c} : calls'[d] = calls[d]
<1> DEFINE r == [phase |-> p, topic |-> t, got |-> g]
<1>1. r \in [phase : Phases, topic : Bus!Topic, got : Answer \cup {[end |-> "nothing"]}]
      /\ r.phase = p /\ r.topic = t /\ r.got = g
  OBVIOUS
<1> HIDE DEF r
<1>2. calls' = [calls EXCEPT ![c] = r] BY DEF r
<1>3. calls'[c] = r /\ \A d \in BusCall \ {c} : calls'[d] = calls[d] BY <1>2 DEF BusInv, BusType
<1>4. calls' \in [BusCall -> [phase : Phases, topic : Bus!Topic, got : Answer \cup {[end |-> "nothing"]}]]
  BY <1>1, <1>2 DEF BusInv, BusType
<1>5. \A d \in BusCall : Asked(calls[d]) => Asked(calls'[d]) /\ calls'[d].topic = calls[d].topic
  BY <1>1, <1>3 DEF Asked
<1>6. \A d \in BusCall, a \in Answer : Right(a, d, calls[d]) => Right(a, d, calls'[d])
  BY <1>5 DEF Right
<1>7. g.end # "nothing" => Right(g, c, r) BY DEF r
<1>8. \A d \in BusCall : calls'[d].got.end # "nothing" => Right(calls'[d].got, d, calls'[d])
  BY <1>1, <1>3, <1>7 DEF BusInv, Answered
<1>9. \A d \in BusCall : calls'[d].phase = "ok" => calls'[d].got.end = "result"
  BY <1>1, <1>3 DEF BusInv, Answered
<1> QED BY <1>1, <1>3, <1>4, <1>5, <1>6, <1>8, <1>9

-----------------------------------------------------------------------------
(* The steps of the callers.                                               *)

\* calls[c] with another phase and got.
LEMMA CallRecordIs ==
  ASSUME BusInv, NEW c \in BusCall, NEW p
  PROVE  /\ calls[c] = [phase |-> calls[c].phase, topic |-> calls[c].topic, got |-> calls[c].got]
         /\ calls[c].phase \in Phases /\ calls[c].topic \in Bus!Topic
         /\ calls[c].got \in Answer \cup {[end |-> "nothing"]}
         /\ calls[c].got.end # "nothing" => Right(calls[c].got, c, calls[c])
         /\ calls[c].phase = "ok" => calls[c].got.end = "result"
         /\ [calls EXCEPT ![c].phase = p] =
              [calls EXCEPT ![c] = [phase |-> p, topic |-> calls[c].topic, got |-> calls[c].got]]
<1> DEFINE G == Answer \cup {[end |-> "nothing"]}
           r == calls[c]
<1>1. r \in [phase : Phases, topic : Bus!Topic, got : G] BY DEF BusInv, BusType
<1> HIDE DEF G, r
<1>2. /\ r = [phase |-> r.phase, topic |-> r.topic, got |-> r.got]
      /\ r.phase \in Phases /\ r.topic \in Bus!Topic /\ r.got \in G
      /\ [r EXCEPT !.phase = p] = [phase |-> p, topic |-> r.topic, got |-> r.got]
  BY <1>1
<1>3. [calls EXCEPT ![c].phase = p] = [calls EXCEPT ![c] = [phase |-> p, topic |-> r.topic, got |-> r.got]]
  BY <1>2 DEF r
<1> QED BY <1>2, <1>3 DEF r, G, BusInv, Answered

\* A step that moves the record of one call and no request or answer.
LEMMA OnlyCallMoves ==
  ASSUME BusInv, UNCHANGED <<kind, state, bus, arrived, held, jobs, handling, leaving, queues, ended>>,
         faults' \in {faults, faults + 1},
         calls' \in [BusCall -> [phase : Phases, topic : Bus!Topic, got : Answer \cup {[end |-> "nothing"]}]],
         \A d \in BusCall : Asked(calls[d]) => Asked(calls'[d]),
         \A d \in BusCall, a \in Answer : Right(a, d, calls[d]) => Right(a, d, calls'[d]),
         \A d \in BusCall : calls'[d].got.end # "nothing" => Right(calls'[d].got, d, calls'[d]),
         \A d \in BusCall : calls'[d].phase = "ok" => calls'[d].got.end = "result",
         \A d \in BusCall : calls'[d].phase = "waiting" => calls[d].phase = "waiting"
  PROVE  BusInv'
<1>1. BusType' BY DEF BusInv, BusType
<1>2. Within \subseteq BusCall
  <2>1. Bus!ToSet(bus) \subseteq BusCall /\ Bus!ToSet(jobs) \subseteq BusCall
    BY ElementOfSeq, LenProperties DEF BusInv, BusType, Bus!ToSet
  <2> QED BY <2>1 DEF BusInv, BusType, Within, InHands
<1>3. Once' BY <1>2 DEF BusInv, Once, Within, InHands
<1>4. Answered'
  <2>1. \A m \in leaving : m.to \in BusCall /\ m.answer \in Answer BY DEF BusInv, BusType
  <2>2. \A d \in BusCall : \A i \in DOMAIN queues[d] : queues[d][i] \in Answer
    BY ElementOfSeq, LenProperties DEF BusInv, BusType
  <2> QED BY <2>1, <2>2 DEF BusInv, Answered
<1>5. OnWay'
  <2>1. faults' = 0 => faults = 0 BY DEF BusInv, BusType
  <2> QED BY <2>1 DEF BusInv, OnWay, OnItsWay, Within, InHands
<1> QED BY <1>1, <1>3, <1>4, <1>5 DEF BusInv

LEMMA StartStep ==
  ASSUME Bus!BusAssumption, BusInv, NEW c \in BusCall, NEW topic \in Commands, Bus!Start(c, topic) PROVE BusInv'
<1>1. calls[c].phase = "idle" /\ topic \in Bus!Topic BY DEF Bus!Start, Bus!BusAssumption
<1>2. calls' = [calls EXCEPT ![c] = [phase |-> "acquiring", topic |-> topic, got |-> calls[c].got]]
  <2>1. calls' = [calls EXCEPT ![c].phase = "acquiring", ![c].topic = topic] BY DEF Bus!Start
  <2> DEFINE r == calls[c]
           G == Answer \cup {[end |-> "nothing"]}
  <2>2. r \in [phase : Phases, topic : Bus!Topic, got : G] BY DEF BusInv, BusType
  <2> HIDE DEF r, G
  <2>3. [[r EXCEPT !.phase = "acquiring"] EXCEPT !.topic = topic]
        = [phase |-> "acquiring", topic |-> topic, got |-> r.got]
    <3> DEFINE q == [phase |-> "acquiring", topic |-> r.topic, got |-> r.got]
    <3>1. [r EXCEPT !.phase = "acquiring"] = q BY <2>2
    <3>2. [q EXCEPT !.topic = topic] = [phase |-> "acquiring", topic |-> topic, got |-> r.got] OBVIOUS
    <3> HIDE DEF q
    <3> QED BY <3>1, <3>2
  <2>4. calls' = [calls EXCEPT ![c] = [[r EXCEPT !.phase = "acquiring"] EXCEPT !.topic = topic]]
    BY <2>1 DEF r, BusInv, BusType
  <2> QED BY <2>3, <2>4 DEF r
<1>3. ~Asked(calls[c]) BY <1>1 DEF Asked
<1>4. calls[c].got.end = "nothing" BY <1>3, CallRecordIs DEF Right
<1>5. "acquiring" \in Phases /\ calls[c].got \in Answer \cup {[end |-> "nothing"]}
  BY CallRecordIs DEF Phases
<1>6. /\ calls' \in [BusCall -> [phase : Phases, topic : Bus!Topic, got : Answer \cup {[end |-> "nothing"]}]]
      /\ \A d \in BusCall : Asked(calls[d]) => Asked(calls'[d])
      /\ \A d \in BusCall, a \in Answer : Right(a, d, calls[d]) => Right(a, d, calls'[d])
      /\ \A d \in BusCall : calls'[d].got.end # "nothing" => Right(calls'[d].got, d, calls'[d])
      /\ \A d \in BusCall : calls'[d].phase = "ok" => calls'[d].got.end = "result"
      /\ calls'[c].phase = "acquiring" /\ \A d \in BusCall \ {c} : calls'[d] = calls[d]
  BY <1>1, <1>2, <1>3, <1>4, <1>5, CallMoves, ZenonT(30)
<1>7. \A d \in BusCall : calls'[d].phase = "waiting" => calls[d].phase = "waiting" BY <1>6
<1>8. UNCHANGED <<kind, state, bus, arrived, held, jobs, handling, leaving, queues, ended, faults>>
  BY DEF Bus!Start, Bus!ServerKeeps
<1> QED BY <1>6, <1>7, <1>8, OnlyCallMoves

LEMMA ExpireStep == ASSUME BusInv, NEW c \in BusCall, Bus!Expire(c) PROVE BusInv'
<1>1. UNCHANGED <<kind, state, calls, bus, arrived, held, jobs, handling, leaving, queues, ended, faults>>
  BY DEF Bus!Expire, Bus!ServerKeeps
<1> QED BY <1>1, OnlyCallMoves DEF BusInv, BusType, Answered

LEMMA EndedMoves ==
  ASSUME BusInv, NEW c \in BusCall, NEW p \in {"waiting", "failed"}, Bus!Ended(c, p)
  PROVE  /\ calls' \in [BusCall -> [phase : Phases, topic : Bus!Topic, got : Answer \cup {[end |-> "nothing"]}]]
         /\ \A d \in BusCall : Asked(calls[d]) => Asked(calls'[d])
         /\ \A d \in BusCall, a \in Answer : Right(a, d, calls[d]) => Right(a, d, calls'[d])
         /\ \A d \in BusCall : calls'[d].got.end # "nothing" => Right(calls'[d].got, d, calls'[d])
         /\ \A d \in BusCall : calls'[d].phase = "ok" => calls'[d].got.end = "result"
         /\ calls'[c].phase = p /\ \A d \in BusCall \ {c} : calls'[d] = calls[d]
<1> DEFINE t == calls[c].topic
           g == calls[c].got
<1>1. calls' = [calls EXCEPT ![c] = [phase |-> p, topic |-> t, got |-> g]] BY CallRecordIs DEF Bus!Ended
<1>2. t \in Bus!Topic /\ g \in Answer \cup {[end |-> "nothing"]} /\ p \in Phases /\ p \notin {"idle", "acquiring"}
  BY CallRecordIs DEF Phases
<1>3. g.end # "nothing" => Right(g, c, [phase |-> p, topic |-> t, got |-> g])
  <2>1. g.end # "nothing" => Right(g, c, calls[c]) BY CallRecordIs
  <2>2. Asked([phase |-> p, topic |-> t, got |-> g]) BY DEF Asked
  <2> QED BY <2>1, <2>2 DEF Right
<1>4. p # "ok" OBVIOUS
<1> HIDE DEF t, g
<1>5. t = calls[c].topic BY DEF t
<1> QED BY <1>1, <1>2, <1>3, <1>4, <1>5, CallMoves

LEMMA GiveUpStep == ASSUME BusInv, NEW c \in BusCall, Bus!GiveUp(c) PROVE BusInv'
<1>1. Bus!Ended(c, "failed") /\ UNCHANGED <<kind, state, bus, arrived, held, jobs, handling, leaving, queues, ended, faults>>
  BY DEF Bus!GiveUp, Bus!ServerKeeps
<1>2. calls'[c].phase = "failed" /\ \A d \in BusCall \ {c} : calls'[d] = calls[d] BY <1>1, EndedMoves
<1>3. \A d \in BusCall : calls'[d].phase = "waiting" => calls[d].phase = "waiting" BY <1>2
<1> QED BY <1>1, <1>3, EndedMoves, OnlyCallMoves

LEMMA WithinType == ASSUME BusInv PROVE Within \subseteq BusCall
<1>1. Bus!ToSet(bus) \subseteq BusCall /\ Bus!ToSet(jobs) \subseteq BusCall
  BY ElementOfSeq, LenProperties DEF BusInv, BusType, Bus!ToSet
<1> QED BY <1>1 DEF BusInv, BusType, Within, InHands

\* Bus!Answers stay right while they stay where they are and calls move as above.
LEMMA AnsweredStays ==
  ASSUME BusInv, leaving' \subseteq leaving, queues' = queues,
         \A d \in BusCall, a \in Answer : Right(a, d, calls[d]) => Right(a, d, calls'[d]),
         \A d \in BusCall : calls'[d].got.end # "nothing" => Right(calls'[d].got, d, calls'[d]),
         \A d \in BusCall : calls'[d].phase = "ok" => calls'[d].got.end = "result"
  PROVE  Answered'
<1>1. \A m \in leaving : m.to \in BusCall /\ m.answer \in Answer BY DEF BusInv, BusType
<1>2. \A d \in BusCall : \A i \in DOMAIN queues[d] : queues[d][i] \in Answer
  BY ElementOfSeq, LenProperties DEF BusInv, BusType
<1> QED BY <1>1, <1>2 DEF BusInv, Answered

LEMMA PushStep == ASSUME BusInv, NEW c \in BusCall, Bus!Push(c) PROVE BusInv'
<1>1. CASE Bus!Ended(c, "failed") /\ Bus!Fault /\ UNCHANGED bus
  <2>1. UNCHANGED <<kind, state, bus, arrived, held, jobs, handling, leaving, queues, ended>>
        /\ faults' \in {faults, faults + 1}
    BY <1>1 DEF Bus!Push, Bus!ServerKeeps, Bus!Fault
  <2>2. calls'[c].phase = "failed" /\ \A d \in BusCall \ {c} : calls'[d] = calls[d] BY <1>1, EndedMoves
  <2>3. \A d \in BusCall : calls'[d].phase = "waiting" => calls[d].phase = "waiting" BY <2>2
  <2> QED BY <1>1, <2>1, <2>3, EndedMoves, OnlyCallMoves
<1>2. CASE Bus!Ended(c, "waiting") /\ bus' = Append(bus, c) /\ UNCHANGED faults
  <2>1. UNCHANGED <<kind, state, arrived, held, jobs, handling, leaving, queues, ended, faults>>
    BY <1>2 DEF Bus!Push, Bus!ServerKeeps
  <2>2. ~Asked(calls[c]) BY DEF Bus!Push, Asked
  <2>3. c \notin Within /\ ended[c] = <<>> BY <2>2 DEF BusInv, Once
  <2>4. bus' \in Seq(BusCall) /\ Bus!ToSet(bus') = Bus!ToSet(bus) \cup {c} /\ Distinct(bus')
    BY <1>2, <2>3, PutOn DEF BusInv, BusType, Once, Within
  <2>5. calls'[c].phase = "waiting" /\ \A d \in BusCall \ {c} : calls'[d] = calls[d] BY <1>2, EndedMoves
  <2>6. Within' = Within \cup {c} BY <2>1, <2>4 DEF Within, InHands
  <2>7. BusType' BY <1>2, <2>1, <2>4, EndedMoves DEF BusInv, BusType
  <2>8. Once'
    <3>1. \A d \in Within' : ended'[d] = <<>> /\ Asked(calls'[d])
      BY <2>1, <2>3, <2>5, <2>6, WithinType DEF BusInv, Once, Asked
    <3>2. \A d \in BusCall : ~Asked(calls'[d]) => ended'[d] = <<>>
      BY <2>1, <2>3, <2>5 DEF BusInv, Once
    <3>3. Bus!ToSet(bus') \cap (arrived \cup InHands) = {} BY <2>3, <2>4 DEF BusInv, Once, Within
    <3> QED BY <2>1, <2>4, <3>1, <3>2, <3>3 DEF BusInv, Once, InHands
  <2>9. Answered' BY <1>2, <2>1, EndedMoves, AnsweredStays
  <2>10. OnWay'
    <3> SUFFICES ASSUME faults' = 0 PROVE state' = "running" /\ \A d \in BusCall : calls'[d].phase = "waiting" => OnItsWay(d)'
      BY DEF OnWay
    <3>1. state = "running" /\ \A d \in BusCall : calls[d].phase = "waiting" => OnItsWay(d)
      BY <2>1 DEF BusInv, OnWay
    <3> QED BY <2>1, <2>5, <2>6, <3>1 DEF OnItsWay
  <2> QED BY <2>7, <2>8, <2>9, <2>10 DEF BusInv
<1> QED BY <1>1, <1>2 DEF Bus!Push

LEMMA TakeStep == ASSUME BusInv, NEW c \in BusCall, Bus!Take(c) PROVE BusInv'
<1> DEFINE q == queues[c]
           a == Head(q)
           p == IF a.end = "result" THEN "ok" ELSE "failed"
<1>1. calls[c].phase = "waiting" /\ q # <<>> /\ q \in Seq(Answer) BY DEF Bus!Take, Bus!RetQueue, BusInv, BusType
<1>2. /\ 1 \in DOMAIN q /\ a = q[1] /\ a \in Answer /\ Tail(q) \in Seq(Answer)
      /\ \A i \in DOMAIN Tail(q) : i + 1 \in DOMAIN q /\ Tail(q)[i] = q[i + 1]
  BY <1>1, HeadAndTail
<1>3. Right(a, c, calls[c]) BY <1>2 DEF BusInv, Answered
<1>4. /\ queues' = [queues EXCEPT ![c] = Tail(q)]
      /\ UNCHANGED <<kind, state, bus, arrived, held, jobs, handling, leaving, ended, faults>>
  BY DEF Bus!Take, Bus!RetQueue, Bus!ServerKeeps
<1>5. calls' = [calls EXCEPT ![c] = [phase |-> p, topic |-> calls[c].topic, got |-> a]]
  <2>1. calls' = [calls EXCEPT ![c].phase = p, ![c].got = a] BY DEF Bus!Take, Bus!RetQueue
  <2> DEFINE r == calls[c]
             G == Answer \cup {[end |-> "nothing"]}
  <2>2. r \in [phase : Phases, topic : Bus!Topic, got : G] BY DEF BusInv, BusType
  <2> HIDE DEF r, G, a, p
  <2>3. [[r EXCEPT !.phase = p] EXCEPT !.got = a] = [phase |-> p, topic |-> r.topic, got |-> a]
    <3> DEFINE s == [phase |-> p, topic |-> r.topic, got |-> r.got]
    <3>1. [r EXCEPT !.phase = p] = s BY <2>2
    <3>2. [s EXCEPT !.got = a] = [phase |-> p, topic |-> r.topic, got |-> a] OBVIOUS
    <3> HIDE DEF s
    <3> QED BY <3>1, <3>2
  <2>4. calls' = [calls EXCEPT ![c] = [[r EXCEPT !.phase = p] EXCEPT !.got = a]]
    BY <2>1 DEF r, BusInv, BusType
  <2> QED BY <2>3, <2>4 DEF r
<1>6. p \in {"ok", "failed"} /\ (p = "ok" => a.end = "result") OBVIOUS
<1> HIDE DEF a, p
<1>7. /\ calls' \in [BusCall -> [phase : Phases, topic : Bus!Topic, got : Answer \cup {[end |-> "nothing"]}]]
      /\ \A d \in BusCall : Asked(calls[d]) => Asked(calls'[d])
      /\ \A d \in BusCall, b \in Answer : Right(b, d, calls[d]) => Right(b, d, calls'[d])
      /\ \A d \in BusCall : calls'[d].got.end # "nothing" => Right(calls'[d].got, d, calls'[d])
      /\ \A d \in BusCall : calls'[d].phase = "ok" => calls'[d].got.end = "result"
      /\ calls'[c].phase = p /\ \A d \in BusCall \ {c} : calls'[d] = calls[d]
  <2>1. p \in Phases /\ p \notin {"idle", "acquiring"} BY <1>6 DEF Phases
  <2>2. calls[c].topic \in Bus!Topic BY CallRecordIs
  <2>3. Right(a, c, [phase |-> p, topic |-> calls[c].topic, got |-> a])
    BY <1>3, <2>1 DEF Right, Asked
  <2> QED BY <1>2, <1>5, <1>6, <2>1, <2>2, <2>3, CallMoves
<1>8. BusType' BY <1>2, <1>4, <1>7 DEF BusInv, BusType
<1>9. Once' BY <1>4, <1>7, WithinType DEF BusInv, Once, Within, InHands
<1>10. Answered'
  <2>1. \A m \in leaving' : m.to = m.answer.of /\ Right(m.answer, m.to, calls'[m.to])
    BY <1>4, <1>7 DEF BusInv, BusType, Answered
  <2>2. ASSUME NEW d \in BusCall, NEW i \in DOMAIN queues'[d] PROVE Right(queues'[d][i], d, calls'[d])
    <3>1. \A j \in DOMAIN queues[d] : queues[d][j] \in Answer /\ Right(queues[d][j], d, calls[d])
      BY ElementOfSeq, LenProperties DEF BusInv, BusType, Answered
    <3>2. \E j \in DOMAIN queues[d] : queues'[d][i] = queues[d][j]
      BY <1>2, <1>4, <2>2 DEF BusInv, BusType
    <3> QED BY <1>7, <3>1, <3>2
  <2> QED BY <1>7, <2>1, <2>2 DEF Answered
<1>11. OnWay'
  <2>1. p # "waiting" BY <1>6
  <2> QED BY <1>4, <1>7, <2>1 DEF BusInv, BusType, OnWay, OnItsWay, Within, InHands
<1> QED BY <1>8, <1>9, <1>10, <1>11 DEF BusInv

-----------------------------------------------------------------------------
(* The steps of the rmb-peers and of the routers, by where a request goes. *)

\* A request is moved on, or lost with a fault; nothing else happens to it.
LEMMA Moved ==
  ASSUME BusInv, UNCHANGED <<kind, calls, leaving, queues, ended>>,
         state' \in {"running", "stopped", "crashed"}, faults' \in Nat,
         faults' = 0 => faults = 0 /\ state' = state /\ Within' = Within,
         bus' \in Seq(BusCall), arrived' \subseteq BusCall, held' \subseteq BusCall, jobs' \in Seq(BusCall), handling' \subseteq BusCall,
         Within' \subseteq Within, Distinct(bus'), Distinct(jobs'), \A c, d \in held' : c = d,
         Bus!ToSet(bus') \cap (arrived' \cup InHands') = {}, arrived' \cap InHands' = {},
         held' \cap (Bus!ToSet(jobs') \cup handling') = {}, Bus!ToSet(jobs') \cap handling' = {}
  PROVE  BusInv'
<1>1. BusType' BY DEF BusInv, BusType
<1>2. Once' BY DEF BusInv, Once
<1>3. Answered' BY AnsweredStays DEF BusInv, Answered
<1>4. OnWay' BY DEF BusInv, OnWay, OnItsWay
<1> QED BY <1>1, <1>2, <1>3, <1>4 DEF BusInv

LEMMA TransferStep == ASSUME BusInv, Bus!Transfer PROVE BusInv'
<1> DEFINE c == Head(bus)
<1>1. /\ c \in Bus!ToSet(bus) /\ c \in BusCall /\ Tail(bus) \in Seq(BusCall)
      /\ Bus!ToSet(Tail(bus)) = Bus!ToSet(bus) \ {c} /\ Distinct(Tail(bus))
  BY HeadAndTail, TakenOff DEF BusInv, BusType, Once, Bus!Transfer
<1>2. /\ bus' = Tail(bus)
      /\ UNCHANGED <<kind, state, calls, held, jobs, handling, leaving, queues, ended>>
      /\ \/ arrived' = arrived \cup {c} /\ faults' = faults
         \/ arrived' = arrived /\ faults' = faults + 1
  BY DEF Bus!Transfer, Bus!ServerKeeps, Bus!Fault
<1> HIDE DEF c
<1>3. InHands' = InHands BY <1>2 DEF InHands
<1>4. c \notin arrived \cup InHands BY <1>1 DEF BusInv, Once
<1>5. Within' \subseteq Within /\ (faults' = 0 => faults = 0 /\ Within' = Within)
  BY <1>1, <1>2, <1>3 DEF BusInv, BusType, Within
<1>6. faults' \in Nat BY <1>2 DEF BusInv, BusType
<1>7. Bus!ToSet(bus') \cap (arrived' \cup InHands') = {} /\ arrived' \cap InHands' = {}
  BY <1>1, <1>2, <1>3, <1>4 DEF BusInv, Once
<1> QED BY <1>1, <1>2, <1>5, <1>6, <1>7, Moved DEF BusInv, BusType, Once

LEMMA ReturnStep == ASSUME BusInv, NEW m \in leaving, Bus!Return(m) PROVE BusInv'
<1>1. m.to \in BusCall /\ m.answer \in Answer /\ m.to = m.answer.of /\ Right(m.answer, m.to, calls[m.to])
  BY DEF BusInv, BusType, Answered
<1>2. /\ leaving' = leaving \ {m}
      /\ UNCHANGED <<kind, state, calls, bus, arrived, held, jobs, handling, ended>>
      /\ \/ queues' = [queues EXCEPT ![m.to] = Append(@, m.answer)] /\ faults' = faults
         \/ queues' = queues /\ faults' = faults + 1
  BY DEF Bus!Return, Bus!ServerKeeps, Bus!Fault
<1> DEFINE q == Append(queues[m.to], m.answer)
<1>3. /\ q \in Seq(Answer) /\ q # <<>>
      /\ \A i \in DOMAIN q : (i \in DOMAIN queues[m.to] /\ q[i] = queues[m.to][i]) \/ q[i] = m.answer
  <2>1. queues[m.to] \in Seq(Answer) BY <1>1 DEF BusInv, BusType
  <2> QED BY <1>1, <2>1, PutOn
<1> HIDE DEF q
<1>4. /\ \A d \in BusCall \ {m.to} : queues'[d] = queues[d]
      /\ queues'[m.to] = q \/ queues'[m.to] = queues[m.to]
      /\ faults' = 0 => faults = 0 /\ queues'[m.to] = q
  BY <1>1, <1>2 DEF BusInv, BusType, q
<1>5. BusType'
  <2>1. queues' \in [BusCall -> Seq(Answer)] BY <1>2, <1>3 DEF BusInv, BusType, q
  <2> QED BY <1>2, <2>1 DEF BusInv, BusType
<1>6. Once' BY <1>2 DEF BusInv, Once, Within, InHands
<1>7. Answered'
  <2>1. ASSUME NEW d \in BusCall, NEW i \in DOMAIN queues'[d] PROVE Right(queues'[d][i], d, calls[d])
    <3>1. \A j \in DOMAIN queues[d] : Right(queues[d][j], d, calls[d]) BY DEF BusInv, Answered
    <3>2. CASE queues'[d] = queues[d] BY <2>1, <3>1, <3>2
    <3>3. CASE d = m.to /\ queues'[d] = q BY <1>1, <1>3, <2>1, <3>1, <3>3
    <3> QED BY <1>4, <3>2, <3>3
  <2> QED BY <1>2, <2>1 DEF BusInv, Answered
<1>8. OnWay'
  <2> SUFFICES ASSUME faults' = 0, NEW c \in BusCall, calls[c].phase = "waiting" PROVE OnItsWay(c)'
    BY <1>2, <1>4 DEF BusInv, OnWay
  <2>1. OnItsWay(c) BY <1>4 DEF BusInv, OnWay
  <2>2. CASE c = m.to BY <1>3, <1>4, <2>2 DEF OnItsWay
  <2>3. CASE c # m.to BY <1>1, <1>2, <1>4, <2>1, <2>3 DEF OnItsWay, Within, InHands
  <2> QED BY <2>2, <2>3
<1> QED BY <1>5, <1>6, <1>7, <1>8 DEF BusInv

LEMMA GetOneStep == ASSUME BusInv, NEW c \in BusCall, Bus!GetOne(c) PROVE BusInv'
<1>1. /\ held = {} /\ c \in arrived /\ arrived' = arrived \ {c}
      /\ UNCHANGED <<kind, state, calls, bus, jobs, handling, leaving, queues, ended>>
      /\ \/ held' = {c} /\ faults' = faults
         \/ held' = held /\ faults' = faults + 1
  BY DEF Bus!GetOne, Bus!ClientKeeps, Bus!Fault
<1>2. c \notin InHands /\ c \notin Bus!ToSet(bus) BY <1>1 DEF BusInv, Once
<1>3. InHands' \subseteq InHands \cup {c} BY <1>1 DEF InHands
<1>4. Within' \subseteq Within /\ (faults' = 0 => faults = 0 /\ Within' = Within)
  BY <1>1 DEF BusInv, BusType, Within, InHands
<1>5. faults' \in Nat BY <1>1 DEF BusInv, BusType
<1>6. Bus!ToSet(bus') \cap (arrived' \cup InHands') = {} /\ arrived' \cap InHands' = {}
  BY <1>1, <1>2, <1>3 DEF BusInv, Once
<1>7. held' \cap (Bus!ToSet(jobs') \cup handling') = {}
  BY <1>1, <1>2 DEF InHands
<1> QED BY <1>1, <1>4, <1>5, <1>6, <1>7, Moved DEF BusInv, BusType, Once

LEMMA HandStep == ASSUME BusInv, NEW c \in BusCall, Bus!Hand(c) PROVE BusInv'
<1>1. /\ c \in held /\ held' = {} /\ jobs' = Append(jobs, c)
      /\ UNCHANGED <<kind, state, calls, bus, arrived, handling, leaving, queues, ended, faults>>
  BY DEF Bus!Hand, Bus!ClientKeeps
<1>2. c \notin Bus!ToSet(jobs) \cup handling BY <1>1 DEF BusInv, Once
<1>3. jobs' \in Seq(BusCall) /\ Bus!ToSet(jobs') = Bus!ToSet(jobs) \cup {c} /\ Distinct(jobs')
  BY <1>1, <1>2, PutOn DEF BusInv, BusType, Once
<1>4. held = {c} BY <1>1 DEF BusInv, Once
<1>5. InHands' = InHands /\ Within' = Within BY <1>1, <1>3, <1>4 DEF InHands, Within
<1>6. Bus!ToSet(bus') \cap (arrived' \cup InHands') = {} /\ arrived' \cap InHands' = {}
  BY <1>1, <1>5 DEF BusInv, Once
<1>7. held' \cap (Bus!ToSet(jobs') \cup handling') = {} /\ Bus!ToSet(jobs') \cap handling' = {}
  BY <1>1, <1>2, <1>3, <1>4 DEF BusInv, Once
<1>8. faults' = faults BY <1>1
<1> QED BY <1>1, <1>3, <1>5, <1>6, <1>7, <1>8, Moved DEF BusInv, BusType, Once

LEMMA WorkStep == ASSUME BusInv, Bus!Work PROVE BusInv'
<1> DEFINE c == Head(jobs)
<1>1. /\ c \in Bus!ToSet(jobs) /\ c \in BusCall /\ Tail(jobs) \in Seq(BusCall)
      /\ Bus!ToSet(Tail(jobs)) = Bus!ToSet(jobs) \ {c} /\ Distinct(Tail(jobs))
  BY HeadAndTail, TakenOff DEF BusInv, BusType, Once, Bus!Work
<1>2. /\ jobs' = Tail(jobs) /\ handling' = handling \cup {c}
      /\ UNCHANGED <<kind, state, calls, bus, arrived, held, leaving, queues, ended, faults>>
  BY DEF Bus!Work, Bus!ClientKeeps
<1> HIDE DEF c
<1>3. InHands' = InHands /\ Within' = Within BY <1>1, <1>2 DEF InHands, Within
<1>4. c \notin held \cup handling BY <1>1 DEF BusInv, Once
<1>5. Bus!ToSet(bus') \cap (arrived' \cup InHands') = {} /\ arrived' \cap InHands' = {}
  BY <1>2, <1>3 DEF BusInv, Once
<1>6. held' \cap (Bus!ToSet(jobs') \cup handling') = {} /\ Bus!ToSet(jobs') \cap handling' = {}
  BY <1>1, <1>2, <1>4 DEF BusInv, Once
<1> QED BY <1>1, <1>2, <1>3, <1>5, <1>6, Moved DEF BusInv, BusType, Once

LEMMA ServeStep == ASSUME BusInv, NEW c \in BusCall, Bus!Serve(c) PROVE BusInv'
<1>1. /\ c \in arrived /\ arrived' = arrived \ {c}
      /\ UNCHANGED <<kind, state, calls, bus, held, jobs, leaving, queues, ended>>
      /\ \/ handling' = handling \cup {c} /\ faults' = faults
         \/ handling' = handling /\ faults' = faults + 1
  BY DEF Bus!Serve, Bus!ClientKeeps, Bus!Fault
<1>2. c \notin InHands /\ c \notin Bus!ToSet(bus) BY <1>1 DEF BusInv, Once
<1>3. InHands' \subseteq InHands \cup {c} BY <1>1 DEF InHands
<1>4. Within' \subseteq Within /\ (faults' = 0 => faults = 0 /\ Within' = Within)
  BY <1>1 DEF BusInv, BusType, Within, InHands
<1>5. faults' \in Nat BY <1>1 DEF BusInv, BusType
<1>6. Bus!ToSet(bus') \cap (arrived' \cup InHands') = {} /\ arrived' \cap InHands' = {}
  BY <1>1, <1>2, <1>3 DEF BusInv, Once
<1>7. held' \cap (Bus!ToSet(jobs') \cup handling') = {} /\ Bus!ToSet(jobs') \cap handling' = {}
  BY <1>1, <1>2 DEF BusInv, Once, InHands
<1> QED BY <1>1, <1>4, <1>5, <1>6, <1>7, Moved DEF BusInv, BusType, Once

LEMMA StopStep == ASSUME BusInv, Bus!Stop PROVE BusInv'
<1>1. /\ state' = "stopped" /\ held' = {} /\ jobs' = <<>> /\ faults' = faults + 1
      /\ UNCHANGED <<kind, calls, bus, arrived, handling, leaving, queues, ended>>
  BY DEF Bus!Stop, Bus!ClientKeeps, Bus!Fault
<1>2. jobs' \in Seq(BusCall) /\ Bus!ToSet(jobs') = {} /\ Distinct(jobs') BY <1>1, EmptyQueue
<1>3. InHands' \subseteq InHands /\ Within' \subseteq Within BY <1>1, <1>2 DEF InHands, Within
<1>4. faults' \in Nat /\ faults' # 0 BY <1>1 DEF BusInv, BusType
<1>5. Bus!ToSet(bus') \cap (arrived' \cup InHands') = {} /\ arrived' \cap InHands' = {}
  BY <1>1, <1>3 DEF BusInv, Once
<1>6. held' \cap (Bus!ToSet(jobs') \cup handling') = {} /\ Bus!ToSet(jobs') \cap handling' = {} BY <1>1, <1>2
<1> QED BY <1>1, <1>2, <1>3, <1>4, <1>5, <1>6, Moved DEF BusInv, BusType, Once

LEMMA ReplyStep == ASSUME Bus!BusAssumption, BusInv, NEW c \in BusCall, Bus!Reply(c) PROVE BusInv'
<1>1. c \in handling /\ UNCHANGED <<kind, calls, late, bus, queues, arrived, held, jobs>>
  BY DEF Bus!Reply, Bus!ClientKeeps
<1> DEFINE topic == calls[c].topic
<1>2. c \in Within /\ ended[c] = <<>> /\ Asked(calls[c]) /\ topic \in Bus!Topic
  BY <1>1, CallRecordIs DEF BusInv, Once, Within, InHands
<1>3. PICK end \in Bus!Ends(topic) :
        /\ ended' = [ended EXCEPT ![c] = Append(@, end.end)]
        /\ handling' = IF end.end = "crash" THEN {} ELSE handling \ {c}
        /\ \/ /\ Bus!Answers(end.end) /\ UNCHANGED <<state, faults>>
              /\ leaving' = leaving \cup {[to |-> c,
                   answer |-> [end |-> end.end, of |-> c, by |-> end.by, past |-> Bus!Passed(topic)]]}
           \/ /\ ~Bus!Answers(end.end) /\ end.end # "crash" /\ UNCHANGED <<state, leaving, faults>>
           \/ /\ Bus!Answers(end.end) /\ Bus!Fault /\ UNCHANGED <<state, leaving>>
           \/ /\ end.end = "crash" /\ Bus!Fault /\ state' = "crashed" /\ UNCHANGED leaving
  BY DEF Bus!Reply, Bus!RetQueue
<1>4. /\ end.end \in EndKinds /\ end.by \in Bus!Topic /\ Bus!Passed(topic) \subseteq Bus!Topic
      /\ end.end = "result" => topic \in Bus!Topics /\ Bus!Prefixes(end.by) = Bus!Passed(topic)
      /\ end.end = "notFound" => topic \notin Bus!Topics
  BY <1>2, EndsIs
<1> DEFINE a == [end |-> end.end, of |-> c, by |-> end.by, past |-> Bus!Passed(topic)]
           m == [to |-> c, answer |-> a]
<1>5. a \in Answer /\ Right(a, c, calls[c]) /\ m.to = c /\ m.answer = a
  <2>1. a.end = end.end /\ a.of = c /\ a.by = end.by /\ a.past = Bus!Passed(topic) OBVIOUS
  <2>2. a \in Answer BY <1>4 DEF Answer
  <2> QED BY <1>2, <1>4, <2>1, <2>2 DEF Right
<1>6. /\ leaving' = leaving \/ leaving' = leaving \cup {m}
      /\ state' \in {state, "crashed"} /\ faults' \in {faults, faults + 1}
      /\ faults' = 0 =>
           /\ faults = 0 /\ state' = state /\ end.end # "crash"
           /\ m \in leaving' \/ end.end = "noJson"
  <2>1. faults \in Nat BY DEF BusInv, BusType
  <2>2. ~Bus!Answers(end.end) /\ end.end # "crash" => end.end = "noJson" BY DEF Bus!Answers
  <2> QED BY <1>3, <2>1, <2>2 DEF Bus!Fault, Bus!Answers
<1> HIDE DEF a, m
<1>7. ended'[c] = <<end.end>> /\ (\A d \in BusCall \ {c} : ended'[d] = ended[d])
      /\ ended' \in [BusCall -> Seq(EndKinds)] /\ Len(ended'[c]) = 1
  <2>1. ended[c] \in Seq(EndKinds) BY DEF BusInv, BusType
  <2>2. Append(ended[c], end.end) \in Seq(EndKinds) /\ Len(Append(ended[c], end.end)) = Len(ended[c]) + 1
    BY <1>4, <2>1, AppendProperties
  <2>3. Len(ended[c]) = 0 BY <1>2, EmptyQueue
  <2>4. Append(ended[c], end.end) = <<end.end>> BY <1>2
  <2> QED BY <1>3, <2>2, <2>3, <2>4 DEF BusInv, BusType
<1>8. handling' \subseteq handling \ {c} /\ (end.end # "crash" => handling' = handling \ {c}) BY <1>3
<1>9. c \notin Bus!ToSet(bus) \cup arrived \cup held \cup Bus!ToSet(jobs) BY <1>1 DEF BusInv, Once, InHands
<1>10. Within' \subseteq Within \ {c} /\ InHands' \subseteq InHands
       /\ (end.end # "crash" => Within' = Within \ {c})
  BY <1>1, <1>8, <1>9 DEF Within, InHands
<1>11. BusType'
  <2>1. m \in [to : BusCall, answer : Answer] BY <1>5 DEF m
  <2> QED BY <1>1, <1>6, <1>7, <1>8, <2>1 DEF BusInv, BusType
<1>12. Once'
  <2>1. \A d \in Within' : ended'[d] = <<>> /\ Asked(calls'[d])
    <3> SUFFICES ASSUME NEW d \in Within' PROVE ended'[d] = <<>> /\ Asked(calls'[d]) OBVIOUS
    <3>1. d \in Within /\ d # c /\ d \in BusCall BY <1>10, WithinType
    <3>2. ended[d] = <<>> /\ Asked(calls[d]) BY <3>1 DEF BusInv, Once
    <3>3. ended'[d] = ended[d] BY <1>7, <3>1
    <3>4. calls'[d] = calls[d] BY <1>1
    <3> QED BY <3>2, <3>3, <3>4 DEF Asked
  <2>2. ASSUME NEW d \in BusCall PROVE Len(ended'[d]) <= 1
    <3>1. CASE d = c
      <4>1. Len(ended'[d]) = 1 BY <1>7, <3>1
      <4> QED BY <4>1
    <3>2. CASE d # c
      <4>1. Len(ended[d]) <= 1 BY DEF BusInv, Once
      <4>2. ended'[d] = ended[d] BY <1>7, <3>2
      <4> QED BY <4>1, <4>2
    <3> QED BY <3>1, <3>2
  <2>3. \A d \in BusCall : ~Asked(calls'[d]) => ended'[d] = <<>> BY <1>1, <1>2, <1>7 DEF BusInv, Once
  <2>4. Bus!ToSet(bus') \cap (arrived' \cup InHands') = {} /\ arrived' \cap InHands' = {}
    BY <1>1, <1>10 DEF BusInv, Once
  <2>5. held' \cap (Bus!ToSet(jobs') \cup handling') = {} /\ Bus!ToSet(jobs') \cap handling' = {}
    BY <1>1, <1>8 DEF BusInv, Once
  <2> QED BY <1>1, <2>1, <2>2, <2>3, <2>4, <2>5 DEF BusInv, Once
<1>13. Answered'
  <2>1. \A n \in leaving' : n.to = n.answer.of /\ Right(n.answer, n.to, calls[n.to])
    <3>1. m.to = m.answer.of /\ Right(m.answer, m.to, calls[m.to]) BY <1>5 DEF Right
    <3> QED BY <1>6, <3>1 DEF BusInv, Answered
  <2> QED BY <1>1, <2>1 DEF BusInv, Answered
<1>14. OnWay'
  <2> SUFFICES ASSUME faults' = 0 PROVE state' = "running" /\ \A d \in BusCall : calls'[d].phase = "waiting" => OnItsWay(d)'
    BY DEF OnWay
  <2>1. state' = "running" BY <1>6 DEF BusInv, OnWay
  <2>2. ASSUME NEW d \in BusCall, calls'[d].phase = "waiting" PROVE OnItsWay(d)'
    <3>1. OnItsWay(d) BY <1>1, <1>6, <2>2 DEF BusInv, OnWay
    <3>2. CASE d = c
      <4>1. CASE m \in leaving'
        <5>1. m.answer.of = c BY <1>5 DEF Right
        <5> QED BY <3>2, <4>1, <5>1 DEF OnItsWay
      <4>2. CASE end.end = "noJson" BY <1>7, <3>2, <4>2 DEF OnItsWay
      <4> QED BY <1>6, <4>1, <4>2
    <3>3. CASE d # c
      <4>1. d \in Within => d \in Within' BY <1>6, <1>10, <3>3
      <4>2. leaving \subseteq leaving' BY <1>6
      <4> QED BY <1>1, <1>7, <3>1, <3>3, <4>1, <4>2 DEF OnItsWay
    <3> QED BY <3>2, <3>3
  <2> QED BY <2>1, <2>2
<1> QED BY <1>11, <1>12, <1>13, <1>14 DEF BusInv

LEMMA BusNext == Bus!BusAssumption /\ BusInv /\ [Bus!Next]_(Bus!vars) => BusInv'
<1> SUFFICES ASSUME Bus!BusAssumption, BusInv, [Bus!Next]_(Bus!vars) PROVE BusInv' OBVIOUS
<1>1. CASE \E c \in BusCall, topic \in Commands : Bus!Start(c, topic) BY <1>1, StartStep
<1>2. CASE Bus!CallerStep BY <1>2, PushStep, ExpireStep, GiveUpStep, TakeStep DEF Bus!CallerStep
<1>3. CASE Bus!RouterStep
  BY <1>3, WorkStep, GetOneStep, HandStep, ServeStep, ReplyStep DEF Bus!RouterStep
<1>4. CASE UNCHANGED Bus!vars
  BY <1>4 DEF Bus!vars, BusInv, BusType, Once, Answered, OnWay, OnItsWay, Within, InHands
<1> QED BY <1>1, <1>2, <1>3, <1>4, TransferStep, ReturnStep, StopStep DEF Bus!Next

-----------------------------------------------------------------------------
(* Requests and answers on the bus, in every reachable state: of any calls, *)
(* handlers and routers, and whatever is lost, late or stopped.            *)
THEOREM BusInvariance == Bus!BusAssumption => (Bus!Spec => []BusInv)
<1> SUFFICES ASSUME Bus!BusAssumption PROVE Bus!Spec => []BusInv OBVIOUS
<1>1. Bus!Init => BusInv BY BusInit
<1>2. BusInv /\ [Bus!Next]_(Bus!vars) => BusInv' BY BusNext
<1> QED BY <1>1, <1>2, PTL DEF Bus!Spec

(* A call that succeeds has the answer to itself, from a handler of its    *)
(* topic, that every router above the handler let pass.                    *)
THEOREM AnswersAreOwn == Bus!BusAssumption => (Bus!Spec => []Bus!OwnAnswer)
<1> SUFFICES ASSUME Bus!BusAssumption PROVE Bus!Spec => []Bus!OwnAnswer OBVIOUS
<1>1. BusInv => Bus!OwnAnswer BY DEF BusInv, Answered, Right, Bus!OwnAnswer
<1> QED BY <1>1, BusInvariance, PTL

(* A topic with a handler is found, however deep its router and whatever   *)
(* dotted names the routers above have.                                    *)
THEOREM KnownTopicsFound == Bus!BusAssumption => (Bus!Spec => []Bus!KnownFound)
<1> SUFFICES ASSUME Bus!BusAssumption PROVE Bus!Spec => []Bus!KnownFound OBVIOUS
<1>1. BusInv => Bus!KnownFound BY DEF BusInv, Answered, Right, Bus!KnownFound
<1> QED BY <1>1, BusInvariance, PTL

(* No request is handled twice, and without a fault none is lost while its *)
(* caller waits.                                                           *)
THEOREM RequestsOnce == Bus!BusAssumption => (Bus!Spec => []Bus!AnsweredOnce)
<1> SUFFICES ASSUME Bus!BusAssumption PROVE Bus!Spec => []Bus!AnsweredOnce OBVIOUS
<1>1. BusInv => Bus!AnsweredOnce
  BY DEF BusInv, Once, OnWay, OnItsWay, Within, InHands, Bus!AnsweredOnce, Bus!RetQueue
<1> QED BY <1>1, BusInvariance, PTL

(* The three: a call of the redis client finds its way there and back.     *)
THEOREM CallsRouted == Bus!BusAssumption => (Bus!Spec => []Bus!Routed)
<1> SUFFICES ASSUME Bus!BusAssumption PROVE Bus!Spec => []Bus!Routed OBVIOUS
<1>1. Bus!OwnAnswer /\ Bus!KnownFound /\ Bus!AnsweredOnce => Bus!Routed BY DEF Bus!Routed
<1> QED BY <1>1, AnswersAreOwn, KnownTopicsFound, RequestsOnce, PTL

-----------------------------------------------------------------------------
Flattens(f, seqs, n) == f = [i \in 1..n |-> IF i = 1 THEN seqs[i] ELSE f[i-1] \o seqs[i]]

LEMMA FlattensExists ==
  ASSUME NEW seqs, NEW n \in Nat
  PROVE  \E f : Flattens(f, seqs, n)
<1> DEFINE Bad == {k \in Nat : ~\E f : Flattens(f, seqs, k)}
<1> SUFFICES ASSUME Bad # {} PROVE FALSE OBVIOUS
<1>1. PICK k \in Bad : \A m \in Bad : k <= m BY Least
<1>2. k # 0
  <2>1. Flattens([i \in 1..0 |-> 0], seqs, 0) BY DEF Flattens
  <2> QED BY <2>1
<1>3. PICK g : Flattens(g, seqs, k - 1)
  <2>1. k - 1 \in Nat /\ ~(k <= k - 1) BY <1>2
  <2> QED BY <1>1, <2>1
<1> DEFINE f == [i \in 1..k |-> IF i < k THEN g[i] ELSE IF i = 1 THEN seqs[i] ELSE g[i-1] \o seqs[i]]
<1>4. Flattens(f, seqs, k)
  <2>1. \A i \in 1..(k-1) : g[i] = IF i = 1 THEN seqs[i] ELSE g[i-1] \o seqs[i] BY <1>3 DEF Flattens
  <2>2. \A i \in 1..k : f[i] = IF i = 1 THEN seqs[i] ELSE f[i-1] \o seqs[i]
    <3> TAKE i \in 1..k
    <3>1. CASE i < k
      <4>1. f[i] = g[i] /\ i \in 1..(k-1) BY <3>1, <1>2
      <4>2. i # 1 => f[i-1] = g[i-1] BY <3>1, <1>2
      <4> QED BY <4>1, <4>2, <2>1
    <3>2. CASE i = k
      <4>2. i # 1 => f[i-1] = g[i-1] BY <3>2, <1>2
      <4> QED BY <3>2, <4>2
    <3> QED BY <3>1, <3>2, <1>2
  <2> QED BY <2>2 DEF Flattens
<1> QED BY <1>1, <1>4

LEMMA FlattenType ==
  ASSUME NEW S, NEW seqs \in Seq(Seq(S))
  PROVE  Rob!FlattenSeq(seqs) \in Seq(S)
<1> DEFINE n == Len(seqs)
           f == CHOOSE f : Flattens(f, seqs, n)
<1>1. CASE n = 0
  <2>1. seqs = <<>> BY <1>1
  <2> QED BY <1>1, <2>1 DEF Rob!FlattenSeq
<1>2. CASE n # 0
  <2>0. n \in Nat OBVIOUS
  <2>1. Flattens(f, seqs, n) BY <2>0, FlattensExists
  <2>2. Rob!FlattenSeq(seqs) = f[n] BY <1>2 DEF Rob!FlattenSeq, Flattens
  <2> HIDE DEF f
  <2> DEFINE Bad == {k \in 1..n : f[k] \notin Seq(S)}
  <2>3. Bad = {}
    <3> SUFFICES ASSUME Bad # {} PROVE FALSE OBVIOUS
    <3>0. Bad \subseteq Nat BY <2>0
    <3>1. PICK k \in Bad : \A m \in Bad : k <= m BY <3>0, Least
    <3>2. f[k] = IF k = 1 THEN seqs[k] ELSE f[k-1] \o seqs[k] BY <2>1, <3>1 DEF Flattens
    <3>3. seqs[k] \in Seq(S) BY <3>1
    <3>4. k # 1 => f[k-1] \in Seq(S)
      <4>1. k # 1 => k - 1 \in 1..n /\ ~(k <= k - 1) BY <3>1, <2>0
      <4> QED BY <4>1, <3>1
    <3>5. f[k] \in Seq(S)
      <4>1. k # 1 => f[k-1] \o seqs[k] \in Seq(S) BY <3>3, <3>4
      <4> QED BY <3>2, <3>3, <4>1
    <3> QED BY <3>1, <3>5
  <2> QED BY <2>2, <2>3, <1>2, <2>0
<1> QED BY <1>1, <1>2
-----------------------------------------------------------------------------
(***************************************************************************)
(* tfrobot.                                                                *)
(***************************************************************************)

Active == stage \in {"try", "filter", "update", "networks", "machines", "giveUp"}
MachineName == {conf.vms[i].name : i \in DOMAIN conf.vms} \X Nat
Vm == [name : MachineName, node : RobotNode, cid : BOOLEAN, net : RobotNode \cup {0}]

RobotType ==
  /\ conf \in Configs /\ Rob!ValidateConfig(conf)
  /\ stage \in {"next", "try", "filter", "update", "networks", "machines", "giveUp", "load", "done", "killed"}
  /\ grp \in Nat \ {0} /\ (Active => grp <= Len(conf.groups))
  /\ Active => vms \in Seq(Vm)

(* The contracts the machines of the group at hand have on record.         *)
OnRecord ==
  {Rob!Contract(Rob!Group.name, i, "machine", vms[i].node) : i \in {i \in DOMAIN vms : vms[i].cid}}
    \cup {Rob!Contract(Rob!Group.name, i, "network", vms[i].net) : i \in {i \in DOMAIN vms : vms[i].net # 0}}

(* While a group is deployed, the machines are its machines, and one with  *)
(* a contract has its network where it is.                                 *)
Machinery ==
  Active =>
    /\ vms # <<>> \/ stage \in {"update", "networks", "machines"} => Rob!Names(vms) = Rob!Machines(Rob!Group)
    /\ \A i \in DOMAIN vms : vms[i].cid => vms[i].net = vms[i].node

(* What is to be deployed is on a node that was not excluded.              *)
Placing ==
  /\ stage \in {"update", "networks", "machines"} => ids \in Seq(RobotNode \ excluded) /\ ids # <<>>
  /\ stage \in {"networks", "machines"} => \A i \in DOMAIN vms : ~vms[i].cid => vms[i].node \notin excluded

PassedWhole ==
  \A p \in passed :
    /\ \E k \in 1..Len(conf.groups) :
         k < grp /\ conf.groups[k].name = p.group /\ Rob!Names(p.vms) = Rob!Machines(conf.groups[k])
    /\ stage # "killed" => Rob!Kept(p) \subseteq live

(* Of the contracts that could not be cancelled is known that they could   *)
(* not; every other is of a group that passed, or on record in the group   *)
(* at hand.                                                                *)
Booked ==
  /\ Active => OnRecord \subseteq live
  /\ IF stage = "killed" THEN live \subseteq leaked
     ELSE \A c \in live \ leaked : (\E p \in passed : c \in Rob!Kept(p)) \/ (Active /\ c \in OnRecord)

RobotInv == RobotType /\ Machinery /\ Placing /\ PassedWhole /\ Booked

LEMMA MachinesType ==
  ASSUME Rob!RobotAssumption, conf \in Configs, NEW g
  PROVE  Rob!Machines(g) \in Seq(MachineName)
<1> DEFINE part_(i) == IF conf.vms[i].group = g.name
                       THEN [k \in 1..conf.vms[i].count |-> <<conf.vms[i].name, k - 1>>] ELSE <<>>
           parts == [i \in DOMAIN conf.vms |-> part_(i)]
<1>1. conf.vms \in Seq(Rob!Range(conf.vms)) /\ \A i \in DOMAIN conf.vms : conf.vms[i].count \in Nat
  BY DEF Rob!RobotAssumption
<1>2. \A i \in DOMAIN conf.vms : part_(i) \in Seq(MachineName)
  <2> TAKE i \in DOMAIN conf.vms
  <2>1. CASE conf.vms[i].group = g.name
    <3>1. \A k \in 1..conf.vms[i].count : <<conf.vms[i].name, k - 1>> \in MachineName
      BY <1>1 DEF MachineName
    <3> DEFINE one(k) == <<conf.vms[i].name, k - 1>>
               n == conf.vms[i].count
    <3>2. \A k \in 1..n : one(k) \in MachineName BY <3>1
    <3>3. n \in Nat /\ part_(i) = [k \in 1..n |-> one(k)] BY <2>1, <1>1
    <3> HIDE DEF one, n, part_
    <3>4. part_(i) \in [1..n -> MachineName] BY <3>2, <3>3
    <3> QED BY <3>3, <3>4
  <2>2. CASE conf.vms[i].group # g.name BY <2>2
  <2> QED BY <2>1, <2>2
<1>3. DOMAIN conf.vms = 1..Len(conf.vms) /\ Len(conf.vms) \in Nat BY <1>1
<1>4. parts \in Seq(Seq(MachineName))
  <2>1. parts \in [1..Len(conf.vms) -> Seq(MachineName)] BY <1>2, <1>3
  <2> QED BY <2>1, <1>3
<1>5. Rob!FlattenSeq(parts) \in Seq(MachineName) BY <1>4, FlattenType
<1> QED BY <1>5 DEF Rob!Machines

LEMMA InTurnIs ==
  ASSUME NEW S, NEW nodes_ \in Seq(S), nodes_ # <<>>, NEW i \in Nat \ {0}
  PROVE  Rob!InTurn(nodes_, i) \in S
<1>1. Len(nodes_) \in Nat \ {0} BY EmptySeq
<1>2. (i - 1) % Len(nodes_) \in 0..(Len(nodes_) - 1) BY <1>1
<1> QED BY <1>1, <1>2 DEF Rob!InTurn

LEMMA GroupIs ==
  ASSUME Rob!RobotAssumption, RobotInv, NEW k \in 1..Len(conf.groups)
  PROVE  /\ conf.groups[k] \in Rob!Range(conf.groups)
         /\ \A j \in 1..Len(conf.groups) : conf.groups[j].name = conf.groups[k].name => j = k
<1>1. DOMAIN conf.groups = 1..Len(conf.groups) BY DEF Rob!RobotAssumption, RobotInv, RobotType
<1> QED BY <1>1 DEF RobotInv, RobotType, Rob!ValidateConfig, Rob!Range

(* The contracts of a group that passed are of no group after it.          *)
LEMMA KeptElsewhere ==
  ASSUME Rob!RobotAssumption, RobotInv, grp <= Len(conf.groups),
         NEW p \in passed, NEW c \in Rob!Kept(p)
  PROVE  c.group # Rob!Group.name
<1>1. PICK k \in 1..Len(conf.groups) : k < grp /\ conf.groups[k].name = p.group
  BY DEF RobotInv, PassedWhole
<1>2. c.group = p.group BY DEF Rob!Kept, Rob!Contract
<1>3. grp \in 1..Len(conf.groups) BY DEF RobotInv, RobotType, Rob!RobotAssumption
<1>4. conf.groups[k].name # conf.groups[grp].name BY <1>1, <1>3, GroupIs
<1> QED BY <1>1, <1>2, <1>4 DEF Rob!Group

LEMMA SameFinite ==
  /\ \A S : Rob!IsFiniteSet(S) <=> IsFiniteSet(S)
  /\ \A S : Rob!Cardinality(S) = Cardinality(S)
  BY DEF Rob!IsFiniteSet, IsFiniteSet, Rob!Cardinality, Cardinality

LEMMA FoundType ==
  ASSUME Rob!RobotAssumption, NEW s \in Rob!NodesFound, count > 0
  PROVE  s \in Seq(RobotNode \ excluded) /\ s # <<>>
<1>0. s \in Rob!SetToAllKPermutations(RobotNode \ excluded) BY Zenon DEF Rob!NodesFound
<1>1. PICK S \in SUBSET (RobotNode \ excluded) : s \in [1..Cardinality(S) -> S]
  <2>1. PICK S \in SUBSET (RobotNode \ excluded) : s \in Rob!SetToSeqs(S)
    BY <1>0, Zenon DEF Rob!SetToAllKPermutations
  <2>2. s \in [1..Cardinality(S) -> S] BY <2>1, SameFinite, Zenon DEF Rob!SetToSeqs
  <2> QED BY <2>1, <2>2
<1>2. Cardinality(S) \in Nat
  <2>1. IsFiniteSet(S) BY <1>1, FS_Subset, SameFinite DEF Rob!RobotAssumption
  <2> QED BY <2>1, FS_CardinalityType
<1>3. s \in Seq(RobotNode \ excluded) BY <1>1, <1>2
<1>4. Len(s) > 0 BY DEF Rob!NodesFound
<1> QED BY <1>3, <1>4

LEMMA RobotInit == ASSUME Rob!RobotAssumption, Rob!Init PROVE RobotInv
<1> USE DEF Rob!Init
<1>1. RobotType BY DEF RobotType, Active
<1>2. Machinery /\ Placing /\ PassedWhole /\ Booked
  BY DEF Machinery, Placing, PassedWhole, Booked, Active
<1> QED BY <1>1, <1>2 DEF RobotInv

robotView == <<conf, stage, grp, excluded, ids, vms, passed, live, leaked>>

LEMMA RobotStays == ASSUME RobotInv, UNCHANGED robotView PROVE RobotInv'
<1> USE DEF robotView
<1>1. Active' = Active /\ OnRecord' = OnRecord BY DEF Active, OnRecord, Rob!Group
<1>2. RobotType' BY <1>1 DEF RobotInv, RobotType, Vm, MachineName
<1>3. Machinery' BY <1>1 DEF RobotInv, Machinery, Rob!Machines, Rob!Group
<1>4. Placing' BY DEF RobotInv, Placing
<1>5. PassedWhole' BY DEF RobotInv, PassedWhole, Rob!Machines
<1>6. Booked' BY <1>1 DEF RobotInv, Booked
<1> QED BY <1>2, <1>3, <1>4, <1>5, <1>6 DEF RobotInv

(* What stays as it is when no group is passed and no contract is touched. *)
LEMMA PassedStays ==
  ASSUME RobotInv, stage # "killed", UNCHANGED <<conf, passed, live>>, grp' = grp \/ grp' = grp + 1
  PROVE  PassedWhole'
<1>1. \A k : k < grp => k < grp' \/ ~(k \in Nat) BY DEF RobotInv, RobotType
<1>2. \A g : Rob!Machines(g)' = Rob!Machines(g) BY DEF Rob!Machines
<1> QED BY <1>1, <1>2 DEF RobotInv, PassedWhole

LEMMA NextGroupStep == ASSUME Rob!RobotAssumption, RobotInv, Rob!NextGroup PROVE RobotInv'
<1> USE DEF Rob!NextGroup
<1>1. vms' = <<>> /\ stage' = "try" /\ ~Active BY DEF Active
<1>2. RobotType' BY <1>1 DEF RobotInv, RobotType, Active, Vm, MachineName, Rob!ended, Rob!grid
<1>3. Machinery' /\ Placing' BY <1>1 DEF Machinery, Placing
<1>4. PassedWhole' BY PassedStays DEF Rob!ended, Rob!grid
<1>5. Booked'
  <2>1. OnRecord' = {} BY <1>1 DEF OnRecord
  <2> QED BY <2>1, <1>1 DEF RobotInv, Booked, Rob!ended, Rob!grid
<1> QED BY <1>2, <1>3, <1>4, <1>5 DEF RobotInv

(* The next step of a trial that changes nothing of what is deployed.      *)
LEMMA StageMoves ==
  ASSUME RobotInv, Active, stage' \in {"try", "filter", "giveUp"}, stage \notin {"networks", "machines"},
         UNCHANGED <<conf, grp, vms, passed, live, leaked>>
  PROVE  RobotInv'
<1>1. Active' /\ OnRecord' = OnRecord BY DEF Active, OnRecord, Rob!Group
<1>2. RobotType' BY <1>1 DEF RobotInv, RobotType, Vm, MachineName
<1>3. Machinery' BY <1>1 DEF RobotInv, Machinery, Rob!Machines, Rob!Group
<1>4. Placing' BY DEF Placing
<1>5. PassedWhole' BY PassedStays DEF Active
<1>6. Booked' BY <1>1 DEF RobotInv, Booked, Active
<1> QED BY <1>2, <1>3, <1>4, <1>5, <1>6 DEF RobotInv

LEMMA TryStep == ASSUME RobotInv, Rob!Try PROVE RobotInv'
<1>1. Active BY DEF Active, Rob!Try
<1> QED BY <1>1, StageMoves DEF Rob!Try, Rob!local, Rob!ended, Rob!grid

LEMMA FilterFailsStep == ASSUME RobotInv, Rob!FilterFails PROVE RobotInv'
<1>1. Active BY DEF Active, Rob!FilterFails
<1> QED BY <1>1, StageMoves DEF Rob!FilterFails, Rob!TrialFails, Rob!ended, Rob!grid

LEMMA FilterNodesStep == ASSUME Rob!RobotAssumption, RobotInv, Rob!FilterNodes PROVE RobotInv'
<1> USE DEF Rob!FilterNodes, Rob!ended, Rob!grid
<1>0. Active /\ Active' BY DEF Active
<1>1. ids' \in Seq(RobotNode \ excluded) /\ ids' # <<>> BY FoundType
<1>2. conf \in Configs BY DEF RobotInv, RobotType
<1>3. CASE vms = <<>>
  <2> DEFINE names == Rob!Machines(Rob!Group)
  <2>0. names \in Seq(MachineName) BY <1>2, MachinesType
  <2>1. vms' = [i \in DOMAIN names |-> [name |-> names[i], node |-> Rob!InTurn(ids', i), cid |-> FALSE, net |-> 0]]
        /\ stage' = "networks"
    BY <1>3 DEF Rob!BuildDeployments
  <2> HIDE DEF names
  <2>2. \A i \in DOMAIN names : Rob!InTurn(ids', i) \in RobotNode \ excluded
    <3>1. \A i \in DOMAIN names : i \in Nat \ {0} BY <2>0
    <3> QED BY <3>1, <1>1, InTurnIs
  <2>3. vms' \in Seq(Vm)
    <3>1. \A i \in DOMAIN names : names[i] \in MachineName BY <2>0
    <3>2. \A i \in DOMAIN names :
            [name |-> names[i], node |-> Rob!InTurn(ids', i), cid |-> FALSE, net |-> 0] \in Vm
      BY <3>1, <2>2 DEF Vm
    <3>3. DOMAIN names = 1..Len(names) /\ Len(names) \in Nat BY <2>0
    <3>4. vms' \in [1..Len(names) -> Vm] BY <2>1, <3>2, <3>3
    <3> QED BY <3>3, <3>4
  <2>4. RobotType' BY <2>1, <2>3, <1>0 DEF RobotInv, RobotType, Vm, MachineName
  <2>5. Machinery'
    <3>1. Rob!Names(vms') = names BY <2>0, <2>1 DEF Rob!Names
    <3>2. names' = names /\ Rob!Names(vms)' = Rob!Names(vms') BY DEF names, Rob!Machines, Rob!Group, Rob!Names
    <3>3. \A i \in DOMAIN vms' : ~vms'[i].cid BY <2>1
    <3> QED BY <3>1, <3>2, <3>3 DEF Machinery, names
  <2>6. Placing' BY <1>1, <2>1, <2>2 DEF Placing
  <2>7. PassedWhole' BY PassedStays, <1>0 DEF Active
  <2>8. Booked'
    <3>1. OnRecord' = {} BY <2>1 DEF OnRecord
    <3>2. OnRecord = {} BY <1>3 DEF OnRecord
    <3> QED BY <3>1, <3>2, <1>0 DEF RobotInv, Booked, Active
  <2> QED BY <2>4, <2>5, <2>6, <2>7, <2>8 DEF RobotInv
<1>4. CASE vms # <<>>
  <2>1. OnRecord' = OnRecord /\ stage' = "update" /\ vms' = vms BY <1>4 DEF OnRecord, Rob!Group
  <2>2. RobotType' BY <1>0, <2>1 DEF RobotInv, RobotType, Vm, MachineName
  <2>3. Machinery' BY <1>0, <2>1 DEF RobotInv, Machinery, Rob!Machines, Rob!Group
  <2>4. Placing' BY <2>1, <1>1 DEF Placing
  <2>5. PassedWhole' BY PassedStays, <1>0 DEF Active
  <2>6. Booked' BY <1>0, <2>1 DEF RobotInv, Booked, Active
  <2> QED BY <2>2, <2>3, <2>4, <2>5, <2>6 DEF RobotInv
<1> QED BY <1>3, <1>4

(* Contracts of a group that passed are kept when only others are ended.   *)
LEMMA PassedKept ==
  ASSUME Rob!RobotAssumption, RobotInv, Active, UNCHANGED <<conf, passed, grp>>,
         \A c \in live : c.group # Rob!Group.name => c \in live'
  PROVE  PassedWhole'
<1>0. \A g : Rob!Machines(g)' = Rob!Machines(g) BY DEF Rob!Machines
<1>1. stage # "killed" /\ grp <= Len(conf.groups) BY DEF Active, RobotInv, RobotType
<1>2. \A p \in passed : \A c \in Rob!Kept(p) : c \in live'
  <2> TAKE p \in passed
  <2> TAKE c \in Rob!Kept(p)
  <2>1. c \in live BY <1>1 DEF RobotInv, PassedWhole
  <2> QED BY <2>1, <1>1, KeptElsewhere
<1> QED BY <1>0, <1>2 DEF RobotInv, PassedWhole

(* The machines of the group at hand change, each by itself.               *)
LEMMA MachinesChange ==
  ASSUME RobotInv, Active, Active', UNCHANGED <<conf, grp>>, vms # <<>> \/ stage \in {"update", "networks", "machines"},
         DOMAIN vms' = DOMAIN vms,
         vms' = [i \in DOMAIN vms' |-> vms'[i]],
         \A i \in DOMAIN vms : /\ vms'[i] \in Vm /\ vms'[i].name = vms[i].name
                               /\ vms'[i].cid => vms'[i].net = vms'[i].node,
         stage' \in {"next", "try", "filter", "update", "networks", "machines", "giveUp", "load", "done", "killed"}
  PROVE  RobotType' /\ Machinery'
<1>1. RobotType'
  <2>1. vms \in Seq(Vm) BY DEF RobotInv, RobotType
  <2>2. DOMAIN vms = 1..Len(vms) /\ Len(vms) \in Nat BY <2>1
  <2>3. vms' \in [1..Len(vms) -> Vm] BY <2>2
  <2>4. vms' \in Seq(Vm) BY <2>2, <2>3
  <2>5. Vm' = Vm BY DEF Vm, MachineName
  <2> QED BY <2>4, <2>5 DEF RobotInv, RobotType
<1>2. Machinery'
  <2>1. Rob!Names(vms) = Rob!Machines(Rob!Group) BY DEF RobotInv, Machinery
  <2>2. Rob!Names(vms)' = Rob!Names(vms) BY DEF Rob!Names
  <2>3. Rob!Machines(Rob!Group)' = Rob!Machines(Rob!Group) BY DEF Rob!Machines, Rob!Group
  <2> QED BY <2>1, <2>2, <2>3 DEF Machinery
<1> QED BY <1>1, <1>2

LEMMA VmIs ==
  ASSUME RobotInv, Active, NEW i \in DOMAIN vms
  PROVE  /\ vms[i] \in Vm /\ i \in Nat \ {0}
         /\ vms[i].cid => vms[i].net = vms[i].node
<1>1. vms \in Seq(Vm) BY DEF RobotInv, RobotType
<1> QED BY <1>1 DEF RobotInv, Machinery

LEMMA RecordIs ==
  /\ \A i \in DOMAIN vms : vms[i].cid => Rob!Contract(Rob!Group.name, i, "machine", vms[i].node) \in OnRecord
  /\ \A i \in DOMAIN vms : vms[i].net # 0 => Rob!Contract(Rob!Group.name, i, "network", vms[i].net) \in OnRecord
  /\ \A c \in OnRecord : \E i \in DOMAIN vms :
       \/ vms[i].cid /\ c = Rob!Contract(Rob!Group.name, i, "machine", vms[i].node)
       \/ vms[i].net # 0 /\ c = Rob!Contract(Rob!Group.name, i, "network", vms[i].net)
  BY DEF OnRecord

LEMMA UpdateFailedStep == ASSUME Rob!RobotAssumption, RobotInv, Rob!UpdateFailed PROVE RobotInv'
<1>0. Active /\ Active' /\ stage = "update" /\ stage' = "networks" BY DEF Active, Rob!UpdateFailed
<1>1. PICK cancelled \in BOOLEAN :
        /\ live' = IF cancelled THEN live \ {Rob!NetworkOf(i) : i \in Rob!Stale} ELSE live
        /\ vms' = [i \in DOMAIN vms |->
             LET net == IF cancelled /\ i \in Rob!Stale THEN 0 ELSE vms[i].net
             IN  [vms[i] EXCEPT !.net = net, !.node = IF vms[i].cid /\ net # 0 THEN @ ELSE Rob!InTurn(ids, i)]]
  BY DEF Rob!UpdateFailed
<1> DEFINE net(i) == IF cancelled /\ i \in Rob!Stale THEN 0 ELSE vms[i].net
<1>2. \A i \in DOMAIN vms :
        /\ vms'[i] \in Vm /\ vms'[i].name = vms[i].name /\ vms'[i].cid = vms[i].cid /\ vms'[i].net = net(i)
        /\ vms[i].cid => vms'[i] = vms[i]
        /\ ~vms[i].cid => vms'[i].node \notin excluded
  <2> TAKE i \in DOMAIN vms
  <2>1. vms[i] \in Vm /\ i \in Nat \ {0} /\ (vms[i].cid => vms[i].net = vms[i].node) BY <1>0, VmIs
  <2>2. Rob!InTurn(ids, i) \in RobotNode \ excluded
    <3>1. ids \in Seq(RobotNode \ excluded) /\ ids # <<>> BY <1>0 DEF RobotInv, Placing
    <3> QED BY <3>1, <2>1, InTurnIs
  <2>3. vms'[i] = [vms[i] EXCEPT !.net = net(i), !.node = IF vms[i].cid /\ net(i) # 0 THEN @ ELSE Rob!InTurn(ids, i)]
    BY <1>1
  <2>4. vms[i].cid => net(i) = vms[i].net /\ net(i) # 0
    BY <2>1 DEF Rob!Stale, Vm, Rob!RobotAssumption
  <2>5. net(i) \in RobotNode \cup {0} BY <2>1 DEF Vm
  <2> HIDE DEF net
  <2> QED BY <2>1, <2>2, <2>3, <2>4, <2>5 DEF Vm
<1>3. vms' = [i \in DOMAIN vms' |-> vms'[i]] /\ DOMAIN vms' = DOMAIN vms BY <1>1
<1>4. UNCHANGED <<conf, grp, excluded, ids, passed, leaked>> BY DEF Rob!UpdateFailed, Rob!ended
<1>9. \A c \in live : \/ c \in live'
                      \/ cancelled /\ c.group = Rob!Group.name /\ c.kind = "network" /\ c.vm \in Rob!Stale
  <2>1. live' = IF cancelled THEN live \ {Rob!NetworkOf(i) : i \in Rob!Stale} ELSE live BY <1>1
  <2>2. \A i : /\ Rob!NetworkOf(i).group = Rob!Group.name /\ Rob!NetworkOf(i).kind = "network"
               /\ Rob!NetworkOf(i).vm = i
    BY DEF Rob!NetworkOf, Rob!Contract
  <2> QED BY <2>1, <2>2
<1>5. RobotType' /\ Machinery'
  <2>1. \A i \in DOMAIN vms : vms'[i].cid => vms'[i].net = vms'[i].node BY <1>0, <1>2, VmIs
  <2> QED BY <2>1, <1>0, <1>2, <1>3, <1>4, MachinesChange
<1>6. Placing' BY <1>0, <1>2, <1>3, <1>4 DEF RobotInv, Placing
<1>7. PassedWhole'
  <2>1. \A c \in live : c.group # Rob!Group.name => c \in live'
    BY <1>9
  <2> QED BY <2>1, <1>0, <1>4, PassedKept
<1>8. Booked'
  <2>0. Rob!Group' = Rob!Group BY <1>4 DEF Rob!Group
  <2>1. ASSUME NEW i \in DOMAIN vms, vms'[i].cid
        PROVE  Rob!Contract(Rob!Group.name, i, "machine", vms'[i].node) \in live'
    <3>1. vms'[i] = vms[i] BY <1>2, <2>1
    <3>2. Rob!Contract(Rob!Group.name, i, "machine", vms[i].node) \in live
      BY <1>0, <3>1, <2>1, RecordIs DEF RobotInv, Booked
    <3> QED BY <1>9, <3>1, <3>2 DEF Rob!Contract
  <2>2. ASSUME NEW i \in DOMAIN vms, vms'[i].net # 0
        PROVE  Rob!Contract(Rob!Group.name, i, "network", vms'[i].net) \in live'
    <3>1. vms'[i].net = vms[i].net /\ ~(cancelled /\ i \in Rob!Stale) BY <1>2, <2>2
    <3>2. Rob!Contract(Rob!Group.name, i, "network", vms[i].net) \in live
      BY <1>0, <3>1, <2>2, RecordIs DEF RobotInv, Booked
    <3> QED BY <1>9, <3>1, <3>2 DEF Rob!Contract
  <2>3. OnRecord' \subseteq live' BY <2>0, <2>1, <2>2, <1>3 DEF OnRecord
  <2>4. ASSUME NEW c \in live' \ leaked', c \in OnRecord PROVE c \in OnRecord'
    <3>1. PICK i \in DOMAIN vms :
            \/ vms[i].cid /\ c = Rob!Contract(Rob!Group.name, i, "machine", vms[i].node)
            \/ vms[i].net # 0 /\ c = Rob!Contract(Rob!Group.name, i, "network", vms[i].net)
      BY <2>4, RecordIs
    <3>2. CASE vms[i].cid /\ c = Rob!Contract(Rob!Group.name, i, "machine", vms[i].node)
      BY <3>2, <2>0, <1>2, <1>3 DEF OnRecord
    <3>3. CASE vms[i].net # 0 /\ c = Rob!Contract(Rob!Group.name, i, "network", vms[i].net)
      <4>1. ~(cancelled /\ i \in Rob!Stale) BY <1>1, <3>3, <2>4 DEF Rob!NetworkOf
      <4>2. vms'[i].net = vms[i].net BY <4>1, <1>2
      <4> QED BY <3>3, <4>2, <2>0, <1>3 DEF OnRecord
    <3> QED BY <3>1, <3>2, <3>3
  <2>5. live' \ leaked' \subseteq live \ leaked BY <1>1, <1>4
  <2> QED BY <2>3, <2>4, <2>5, <1>0, <1>4 DEF RobotInv, Booked
<1> QED BY <1>5, <1>6, <1>7, <1>8 DEF RobotInv

LEMMA DeployNetworksStep == ASSUME Rob!RobotAssumption, RobotInv, Rob!DeployNetworks PROVE RobotInv'
<1> DEFINE asked == {i \in DOMAIN vms : vms[i].net = 0}
           of(i) == Rob!Contract(Rob!Group.name, i, "network", vms[i].node)
<1>0. Active /\ Active' /\ stage = "networks" /\ stage' = "machines" BY DEF Active, Rob!DeployNetworks
<1>1. PICK S \in SUBSET asked, L \in SUBSET asked :
        /\ vms' = [i \in DOMAIN vms |-> IF i \in S THEN [vms[i] EXCEPT !.net = vms[i].node] ELSE vms[i]]
        /\ live' = live \cup {of(i) : i \in S \cup L}
        /\ leaked' = leaked \cup {of(i) : i \in L}
  BY DEF Rob!DeployNetworks
<1>2. \A i \in DOMAIN vms :
        /\ vms'[i] \in Vm /\ vms'[i].name = vms[i].name /\ vms'[i].cid = vms[i].cid
        /\ vms'[i].node = vms[i].node
        /\ IF i \in S THEN vms'[i].net = vms[i].node /\ ~vms[i].cid ELSE vms'[i].net = vms[i].net
  <2> TAKE i \in DOMAIN vms
  <2>1. vms[i] \in Vm /\ (vms[i].cid => vms[i].net = vms[i].node) BY <1>0, VmIs
  <2>2. vms'[i] = IF i \in S THEN [vms[i] EXCEPT !.net = vms[i].node] ELSE vms[i] BY <1>1
  <2>3. i \in S => ~vms[i].cid BY <2>1, <1>1 DEF Vm, Rob!RobotAssumption
  <2> QED BY <2>1, <2>2, <2>3 DEF Vm
<1>3. vms' = [i \in DOMAIN vms' |-> vms'[i]] /\ DOMAIN vms' = DOMAIN vms BY <1>1
<1>4. UNCHANGED <<conf, grp, excluded, ids, passed>> BY DEF Rob!DeployNetworks, Rob!ended
<1>9. live \subseteq live' /\ (\A i \in S : of(i) \in live') /\ \A c \in live' \ leaked' : c \in live \ leaked \/ \E i \in S : c = of(i)
  BY <1>1
<1> HIDE DEF of
<1>5. RobotType' /\ Machinery'
  <2>1. \A i \in DOMAIN vms : vms'[i].cid => vms'[i].net = vms'[i].node BY <1>0, <1>2, VmIs
  <2> QED BY <2>1, <1>0, <1>2, <1>3, <1>4, MachinesChange
<1>6. Placing' BY <1>0, <1>2, <1>3, <1>4 DEF RobotInv, Placing
<1>7. PassedWhole' BY <1>9, <1>0, <1>4, PassedKept
<1>8. Booked'
  <2>0. Rob!Group' = Rob!Group BY <1>4 DEF Rob!Group
  <2>1. ASSUME NEW i \in DOMAIN vms, vms'[i].cid
        PROVE  Rob!Contract(Rob!Group.name, i, "machine", vms'[i].node) \in live'
    <3>1. Rob!Contract(Rob!Group.name, i, "machine", vms[i].node) \in live
      BY <1>0, <1>2, <2>1, RecordIs DEF RobotInv, Booked
    <3> QED BY <1>9, <1>2, <3>1
  <2>2. ASSUME NEW i \in DOMAIN vms, vms'[i].net # 0
        PROVE  Rob!Contract(Rob!Group.name, i, "network", vms'[i].net) \in live'
    <3>1. CASE i \in S BY <3>1, <1>2, <1>9 DEF of
    <3>2. CASE i \notin S
      <4>1. vms'[i].net = vms[i].net BY <3>2, <1>2
      <4>2. Rob!Contract(Rob!Group.name, i, "network", vms[i].net) \in live
        BY <1>0, <4>1, <2>2, RecordIs DEF RobotInv, Booked
      <4> QED BY <4>1, <4>2, <1>9
    <3> QED BY <3>1, <3>2
  <2>3. OnRecord' \subseteq live' BY <2>0, <2>1, <2>2, <1>3 DEF OnRecord
  <2>4. ASSUME NEW c \in OnRecord PROVE c \in OnRecord'
    <3>1. PICK i \in DOMAIN vms :
            \/ vms[i].cid /\ c = Rob!Contract(Rob!Group.name, i, "machine", vms[i].node)
            \/ vms[i].net # 0 /\ c = Rob!Contract(Rob!Group.name, i, "network", vms[i].net)
      BY <2>4, RecordIs
    <3>2. i \in S => vms[i].net = 0 BY <1>1
    <3> QED BY <3>1, <3>2, <2>0, <1>2, <1>3 DEF OnRecord
  <2>5. ASSUME NEW i \in S PROVE of(i) \in OnRecord'
    <3>1. i \in DOMAIN vms /\ vms'[i].net = vms[i].node BY <1>1, <1>2
    <3>2. vms[i].node # 0 BY <1>0, <3>1, VmIs DEF Vm, Rob!RobotAssumption
    <3> QED BY <3>1, <3>2, <2>0, <1>3 DEF OnRecord, of
  <2>6. \A c \in live' \ leaked' : (\E p \in passed : c \in Rob!Kept(p)) \/ c \in OnRecord'
    BY <1>0, <1>9, <2>4, <2>5 DEF RobotInv, Booked
  <2> QED BY <2>3, <2>6, <1>0, <1>4 DEF Booked
<1> QED BY <1>5, <1>6, <1>7, <1>8 DEF RobotInv

LEMMA DeployMachinesStep == ASSUME Rob!RobotAssumption, RobotInv, Rob!DeployMachines PROVE RobotInv'
<1> DEFINE asked == {i \in DOMAIN vms : ~vms[i].cid}
           able == {i \in asked : vms[i].net = vms[i].node}
           of(i) == Rob!Contract(Rob!Group.name, i, "machine", vms[i].node)
           whole == [group |-> Rob!Group.name, vms |-> vms']
<1>0. Active /\ stage = "machines" BY DEF Active, Rob!DeployMachines
<1>1. PICK S \in SUBSET able, L \in SUBSET able :
        /\ vms' = [i \in DOMAIN vms |-> IF i \in S THEN [vms[i] EXCEPT !.cid = TRUE] ELSE vms[i]]
        /\ live' = live \cup {of(i) : i \in S \cup L}
        /\ leaked' = leaked \cup {of(i) : i \in L}
        /\ IF Rob!Passes(asked, S)
           THEN stage' = "next" /\ grp' = grp + 1 /\ passed' = passed \cup {whole} /\ UNCHANGED excluded
           ELSE Rob!TrialFails(vms') /\ UNCHANGED passed
  BY DEF Rob!DeployMachines
<1>2. \A i \in DOMAIN vms :
        /\ vms'[i] \in Vm /\ vms'[i].name = vms[i].name /\ vms'[i].cid = (vms[i].cid \/ i \in S)
        /\ vms'[i].node = vms[i].node /\ vms'[i].net = vms[i].net
        /\ vms'[i].cid => vms[i].net = vms[i].node
  <2> TAKE i \in DOMAIN vms
  <2>1. vms[i] \in Vm /\ (vms[i].cid => vms[i].net = vms[i].node) BY <1>0, VmIs
  <2>2. vms'[i] = IF i \in S THEN [vms[i] EXCEPT !.cid = TRUE] ELSE vms[i] BY <1>1
  <2>3. i \in S => vms[i].net = vms[i].node BY <1>1
  <2> QED BY <2>1, <2>2, <2>3 DEF Vm
<1>3. vms' = [i \in DOMAIN vms' |-> vms'[i]] /\ DOMAIN vms' = DOMAIN vms BY <1>1
<1>4. UNCHANGED <<conf, ids>> BY DEF Rob!DeployMachines
<1>9. live \subseteq live' /\ (\A i \in S : of(i) \in live') /\ \A c \in live' \ leaked' : c \in live \ leaked \/ \E i \in S : c = of(i)
  BY <1>1
<1>10. ASSUME NEW i \in DOMAIN vms, vms'[i].cid PROVE of(i) \in live'
  <2>1. CASE i \in S BY <2>1, <1>9
  <2>2. CASE i \notin S
    <3>1. vms[i].cid BY <2>2, <1>2, <1>10
    <3> QED BY <1>0, <1>9, <3>1, RecordIs DEF RobotInv, Booked
  <2> QED BY <2>1, <2>2
<1>11. ASSUME NEW i \in DOMAIN vms, vms'[i].net # 0
       PROVE  Rob!Contract(Rob!Group.name, i, "network", vms'[i].net) \in live'
  BY <1>0, <1>2, <1>9, <1>11, RecordIs DEF RobotInv, Booked
<1>12. ASSUME NEW c \in OnRecord
       PROVE  \E i \in DOMAIN vms :
                \/ vms'[i].cid /\ c = of(i)
                \/ vms'[i].net # 0 /\ c = Rob!Contract(Rob!Group.name, i, "network", vms'[i].net)
  BY <1>2, <1>12, RecordIs
<1>13. ASSUME NEW i \in S PROVE i \in DOMAIN vms /\ vms'[i].cid BY <1>1, <1>2
<1>5. CASE Rob!Passes(asked, S)
  <2>0. stage' = "next" /\ grp' = grp + 1 /\ passed' = passed \cup {whole} /\ ~Active'
    BY <1>1, <1>5 DEF Active
  <2>1. \A i \in DOMAIN vms : vms'[i].cid /\ vms'[i].net = vms'[i].node /\ vms'[i].net # 0
    BY <1>2, <1>5 DEF Rob!Passes
  <2>2. RobotType' BY <1>4, <2>0 DEF RobotInv, RobotType
  <2>3. Machinery' /\ Placing' BY <2>0 DEF Machinery, Placing
  <2>4. Rob!Kept(whole) \subseteq live'
    BY <1>2, <1>3, <1>10, <1>11, <2>1 DEF Rob!Kept
  <2>5. Rob!Names(whole.vms) = Rob!Machines(Rob!Group)
    <3>1. Rob!Names(vms) = Rob!Machines(Rob!Group) BY <1>0 DEF RobotInv, Machinery
    <3> QED BY <3>1, <1>2, <1>3 DEF Rob!Names
  <2>6. PassedWhole'
    <3>0. \A g : Rob!Machines(g)' = Rob!Machines(g) BY <1>4 DEF Rob!Machines
    <3>1. grp \in 1..Len(conf.groups) /\ grp < grp + 1 /\ grp \in Nat
      BY <1>0 DEF RobotInv, RobotType, Rob!RobotAssumption
    <3>2. ASSUME NEW p \in passed
          PROVE  /\ \E k \in 1..Len(conf.groups) :
                      k < grp + 1 /\ conf.groups[k].name = p.group /\ Rob!Names(p.vms) = Rob!Machines(conf.groups[k])
                 /\ Rob!Kept(p) \subseteq live'
      <4>1. PICK k \in 1..Len(conf.groups) :
              k < grp /\ conf.groups[k].name = p.group /\ Rob!Names(p.vms) = Rob!Machines(conf.groups[k])
        BY DEF RobotInv, PassedWhole
      <4>2. k < grp + 1 BY <4>1, <3>1
      <4>3. Rob!Kept(p) \subseteq live' BY <1>0, <1>9 DEF RobotInv, PassedWhole
      <4> QED BY <4>1, <4>2, <4>3
    <3>3. \E k \in 1..Len(conf.groups) :
            k < grp + 1 /\ conf.groups[k].name = whole.group /\ Rob!Names(whole.vms) = Rob!Machines(conf.groups[k])
      BY <3>1, <2>5 DEF Rob!Group
    <3> HIDE DEF whole
    <3> QED BY <3>0, <3>2, <3>3, <2>0, <2>4, <1>4 DEF PassedWhole
  <2>7. Booked'
    <3>1. ASSUME NEW i \in DOMAIN vms PROVE of(i) \in Rob!Kept(whole) BY <1>2, <1>3 DEF Rob!Kept
    <3>2. ASSUME NEW i \in DOMAIN vms
          PROVE  Rob!Contract(Rob!Group.name, i, "network", vms'[i].net) \in Rob!Kept(whole)
      BY <2>1, <1>3 DEF Rob!Kept
    <3>3. \A c \in OnRecord : c \in Rob!Kept(whole) BY <1>12, <3>1, <3>2
    <3> HIDE DEF whole, of
    <3>4. \A c \in live' \ leaked' : \E p \in passed' : c \in Rob!Kept(p)
      BY <1>0, <1>9, <1>13, <3>1, <3>3, <2>0 DEF RobotInv, Booked
    <3> QED BY <3>4, <2>0 DEF Booked
  <2> QED BY <2>2, <2>3, <2>6, <2>7 DEF RobotInv
<1>6. CASE ~Rob!Passes(asked, S)
  <2>0. /\ stage' \in {"giveUp", "try"} /\ Active' /\ passed' = passed /\ grp' = grp
        /\ Rob!Group' = Rob!Group
    BY <1>1, <1>4, <1>6 DEF Active, Rob!TrialFails, Rob!Group
  <2>1. RobotType' /\ Machinery'
    <3>1. \A i \in DOMAIN vms : vms'[i].cid => vms'[i].net = vms'[i].node BY <1>2
    <3> QED BY <3>1, <1>0, <1>2, <1>3, <1>4, <2>0, MachinesChange
  <2>2. Placing' BY <2>0 DEF Placing
  <2>3. PassedWhole' BY <1>0, <1>4, <1>9, <2>0, PassedKept
  <2>4. Booked'
    <3>1. OnRecord' \subseteq live' BY <1>2, <1>3, <1>10, <1>11, <2>0 DEF OnRecord
    <3>2. \A i \in DOMAIN vms :
            /\ vms'[i].cid => of(i) \in OnRecord'
            /\ vms'[i].net # 0 => Rob!Contract(Rob!Group.name, i, "network", vms'[i].net) \in OnRecord'
      BY <1>2, <1>3, <2>0 DEF OnRecord
    <3>3. \A c \in OnRecord : c \in OnRecord' BY <1>12, <3>2
    <3>4. \A i \in S : of(i) \in OnRecord' BY <1>13, <3>2
    <3> HIDE DEF of
    <3>5. \A c \in live' \ leaked' : (\E p \in passed : c \in Rob!Kept(p)) \/ c \in OnRecord'
      BY <1>0, <1>9, <3>3, <3>4 DEF RobotInv, Booked
    <3> QED BY <3>1, <3>5, <2>0 DEF Booked
  <2> QED BY <2>1, <2>2, <2>3, <2>4 DEF RobotInv
<1> QED BY <1>5, <1>6

LEMMA GroupGivenUp == ASSUME Rob!RobotAssumption, RobotInv, Rob!GiveUp PROVE RobotInv'
<1>0. Active /\ stage # "killed" /\ stage' = "next" /\ ~Active' /\ grp' = grp + 1 BY DEF Active, Rob!GiveUp
<1>1. UNCHANGED <<conf, excluded, ids, vms, passed>> BY DEF Rob!GiveUp
<1>2. PICK L \in SUBSET Rob!ContractsOf({Rob!Group.name}) :
        live' = (live \ Rob!ContractsOf({Rob!Group.name})) \cup L /\ leaked' = leaked \cup L
  BY DEF Rob!GiveUp, Rob!CancelByProjectName
<1>3. /\ \A c \in live : c.group # Rob!Group.name => c \in live'
      /\ \A c \in live' \ leaked' : c \in live \ leaked /\ c.group # Rob!Group.name
  BY <1>2 DEF Rob!ContractsOf
<1>4. RobotType' BY <1>0, <1>1 DEF RobotInv, RobotType
<1>5. Machinery' /\ Placing' BY <1>0 DEF Machinery, Placing
<1>6. PassedWhole'
  <2>0. \A g : Rob!Machines(g)' = Rob!Machines(g) BY <1>1 DEF Rob!Machines
  <2>1. grp <= Len(conf.groups) /\ grp \in Nat BY <1>0 DEF RobotInv, RobotType
  <2>2. ASSUME NEW p \in passed PROVE Rob!Kept(p) \subseteq live'
    <3>1. Rob!Kept(p) \subseteq live BY <1>0 DEF RobotInv, PassedWhole
    <3> QED BY <3>1, <2>1, <1>3, KeptElsewhere
  <2>3. ASSUME NEW k \in Nat, k < grp PROVE k < grp + 1 BY <2>1, <2>3
  <2> QED BY <1>0, <1>1, <2>0, <2>2, <2>3 DEF RobotInv, PassedWhole
<1>7. Booked'
  <2>1. \A c \in OnRecord : c.group = Rob!Group.name BY DEF OnRecord, Rob!Contract
  <2>2. \A c \in live' \ leaked' : \E p \in passed : c \in Rob!Kept(p)
    BY <1>0, <1>3, <2>1 DEF RobotInv, Booked
  <2> QED BY <1>0, <1>1, <2>2 DEF Booked
<1> QED BY <1>4, <1>5, <1>6, <1>7 DEF RobotInv

LEMMA FinishStep == ASSUME Rob!RobotAssumption, RobotInv, Rob!Finish PROVE RobotInv'
<1>0. ~Active /\ ~Active' /\ UNCHANGED <<conf, grp, excluded, ids, vms, passed>>
  BY DEF Active, Rob!Finish, Rob!local, Rob!ended
<1>1. RobotType' /\ Machinery' /\ Placing'
  BY <1>0 DEF RobotInv, RobotType, Machinery, Placing, Rob!Finish
<1>2. CASE ~interrupted
  <2>1. stage = "next" /\ stage' = "load" /\ UNCHANGED <<live, leaked>> BY <1>2 DEF Rob!Finish, Rob!grid
  <2>2. PassedWhole' BY <1>0, <2>1, PassedStays
  <2>3. Booked' BY <1>0, <2>1 DEF RobotInv, Booked
  <2> QED BY <1>1, <2>2, <2>3 DEF RobotInv
<1>3. CASE interrupted
  <2> DEFINE all == {g.name : g \in Rob!Range(conf.groups)}
  <2>1. PICK L \in SUBSET Rob!ContractsOf(all) :
          live' = (live \ Rob!ContractsOf(all)) \cup L /\ leaked' = leaked \cup L
    BY <1>3 DEF Rob!Finish, Rob!CancelByProjectName
  <2>2. stage = "next" /\ stage' = "killed" BY <1>3 DEF Rob!Finish
  <2>3. PassedWhole'
    <3>1. \A g : Rob!Machines(g)' = Rob!Machines(g) BY <1>0 DEF Rob!Machines
    <3> QED BY <1>0, <2>2, <3>1 DEF RobotInv, PassedWhole
  <2>4. ASSUME NEW c \in live \ leaked PROVE c \in Rob!ContractsOf(all)
    <3>1. PICK p \in passed : c \in Rob!Kept(p) BY <1>0, <2>2 DEF RobotInv, Booked
    <3>2. PICK k \in 1..Len(conf.groups) : conf.groups[k].name = p.group BY DEF RobotInv, PassedWhole
    <3>3. c.group = p.group BY <3>1 DEF Rob!Kept, Rob!Contract
    <3>4. conf.groups[k] \in Rob!Range(conf.groups) BY GroupIs
    <3> QED BY <3>2, <3>3, <3>4 DEF Rob!ContractsOf
  <2> HIDE DEF all
  <2>5. live' \subseteq leaked' BY <2>1, <2>4
  <2>6. Booked' BY <1>0, <2>2, <2>5 DEF Booked
  <2> QED BY <1>1, <2>3, <2>6 DEF RobotInv
<1> QED BY <1>2, <1>3

LEMMA LoadStep == ASSUME RobotInv, Rob!Load PROVE RobotInv'
<1>0. /\ ~Active /\ ~Active' /\ stage = "load" /\ stage' = "done"
      /\ UNCHANGED <<conf, grp, excluded, ids, vms, passed, live, leaked>>
  BY DEF Active, Rob!Load, Rob!local, Rob!grid
<1>1. RobotType' /\ Machinery' /\ Placing' BY <1>0 DEF RobotInv, RobotType, Machinery, Placing
<1>2. PassedWhole' BY <1>0, PassedStays
<1>3. Booked' BY <1>0 DEF RobotInv, Booked
<1> QED BY <1>1, <1>2, <1>3 DEF RobotInv

LEMMA RobotNext == ASSUME Rob!RobotAssumption, RobotInv, [Rob!Next]_(Rob!vars) PROVE RobotInv'
<1>1. CASE Rob!Interrupt \/ UNCHANGED Rob!vars
  <2>1. UNCHANGED robotView
    BY <1>1 DEF robotView, Rob!Interrupt, Rob!vars, Rob!local, Rob!ended, Rob!grid
  <2> QED BY <2>1, RobotStays
<1> QED BY <1>1, NextGroupStep, TryStep, FilterNodesStep, FilterFailsStep, UpdateFailedStep, DeployNetworksStep,
           DeployMachinesStep, GroupGivenUp, FinishStep, LoadStep DEF Rob!Next, Rob!Step

LEMMA RobotEnds == ASSUME Rob!RobotAssumption, RobotInv PROVE Rob!NothingLeftBehind
<1> SUFFICES ASSUME stage \in {"done", "killed"} PROVE Rob!NothingLeftBehind BY DEF Rob!NothingLeftBehind
<1>1. CASE stage = "killed"
  BY <1>1 DEF RobotInv, Booked, Rob!NothingLeftBehind, Rob!Expected
<1>2. CASE stage = "done"
  <2>1. ~Active BY <1>2 DEF Active
  <2>2. Rob!Expected = UNION {Rob!Kept(p) : p \in passed} BY <1>2 DEF Rob!Expected
  <2>3. Rob!Expected \subseteq live BY <1>2, <2>2 DEF RobotInv, PassedWhole
  <2>4. live \ leaked \subseteq Rob!Expected BY <1>2, <2>1, <2>2 DEF RobotInv, Booked
  <2>5. \A p \in passed : \E g \in Rob!Range(conf.groups) : g.name = p.group /\ Rob!Names(p.vms) = Rob!Machines(g)
    BY GroupIs DEF RobotInv, PassedWhole
  <2> QED BY <2>3, <2>4, <2>5 DEF Rob!NothingLeftBehind
<1> QED BY <1>1, <1>2

LEMMA RobotSkips == ASSUME Rob!RobotAssumption, RobotInv, [Rob!Next]_(Rob!vars) PROVE Rob!SkipStep
<1> SUFFICES ASSUME NEW c \in live' \ live PROVE c.node \notin excluded BY DEF Rob!SkipStep
<1>1. CASE Rob!DeployNetworks
  <2>1. PICK i \in DOMAIN vms : vms[i].net = 0 /\ c = Rob!Contract(Rob!Group.name, i, "network", vms[i].node)
    BY <1>1 DEF Rob!DeployNetworks
  <2>2. stage = "networks" /\ Active BY <1>1 DEF Rob!DeployNetworks, Active
  <2>3. ~vms[i].cid BY <2>1, <2>2, VmIs DEF Vm, Rob!RobotAssumption
  <2>4. vms[i].node \notin excluded BY <2>2, <2>3 DEF RobotInv, Placing
  <2> QED BY <2>1, <2>4 DEF Rob!Contract
<1>2. CASE Rob!DeployMachines
  <2>1. PICK i \in DOMAIN vms : ~vms[i].cid /\ c = Rob!Contract(Rob!Group.name, i, "machine", vms[i].node)
    BY <1>2 DEF Rob!DeployMachines
  <2>2. stage = "machines" BY <1>2 DEF Rob!DeployMachines
  <2>3. vms[i].node \notin excluded BY <2>1, <2>2 DEF RobotInv, Placing
  <2> QED BY <2>1, <2>3 DEF Rob!Contract
<1>3. ASSUME ~Rob!DeployNetworks, ~Rob!DeployMachines PROVE live' \subseteq live
  BY <1>3 DEF Rob!Next, Rob!Step, Rob!Interrupt, Rob!NextGroup, Rob!Try, Rob!FilterNodes, Rob!FilterFails,
       Rob!UpdateFailed, Rob!GiveUp, Rob!Finish, Rob!Load, Rob!CancelByProjectName, Rob!ContractsOf, Rob!vars, Rob!grid
<1> QED BY <1>1, <1>2, <1>3
-----------------------------------------------------------------------------
(***************************************************************************)
(* Runs: a behaviour of MCSpec is one of its part, and the invariant of    *)
(* that part is one of the run.                                            *)
(***************************************************************************)

LEMMA AllAssumed ==
  /\ Bus!BusAssumption /\ Api!ApiAssumption /\ Rob!RobotAssumption /\ Batch!BoundAssumption
BY Assumptions

(* What the deployer of the instance needs of its constants.               *)
LEMMA MixedFits == Mixed \subseteq Versions!Content
BY DEF Mixed, Workload, Versions!Content

LEMMA VersionsInit == ASSUME Versions!Init PROVE Versions!IInv /\ Versions!Stepwise
<1>1. 2 \in Nat /\ TRUE \in BOOLEAN OBVIOUS
<1>2. Versions!IInv BY <1>1, MixedFits, Assumptions, Versions!InitIInv
<1>3. Versions!Stepwise BY DEF Versions!Init, Versions!Stepwise
<1> QED BY <1>2, <1>3

LEMMA VersionsNext ==
  ASSUME Versions!IInv, Versions!Stepwise, [Versions!Next]_(Versions!vars)
  PROVE  (Versions!IInv /\ Versions!Stepwise)' /\ Versions!OneVersion
<1>1. 2 \in Nat /\ TRUE \in BOOLEAN OBVIOUS
<1>2. Versions!IInv' BY <1>1, MixedFits, Assumptions, Versions!NextStep
<1>3. Versions!Stepwise' /\ Versions!OneVersion BY <1>1, MixedFits, Assumptions, Versions!VersionInductive
<1> QED BY <1>2, <1>3

LEMMA PartStep ==
  ASSUME [MCNext]_mcVars
  PROVE  /\ part' = part /\ [Next]_vars
         /\ part = "bus" => [Bus!Next]_(Bus!vars)
         /\ part = "api" => [Api!Next]_(Api!vars)
         /\ part = "versions" => [Versions!Next]_(Versions!vars)
         /\ part = "batch" => [Batch!Next]_(Batch!vars)
         /\ part = "robot" => [Rob!Next]_(Rob!vars)
<1>1. CASE UNCHANGED mcVars
  <2>1. part' = part /\ UNCHANGED vars BY <1>1 DEF mcVars
  <2>2. UNCHANGED Bus!vars BY <1>1 DEF mcVars, busOnly, shared, Bus!vars
  <2>3. UNCHANGED Api!vars BY <1>1 DEF mcVars, apiOnly, shared, Api!vars
  <2>4. UNCHANGED Batch!vars
    BY <1>1 DEF mcVars, batchOnly, shared, deployers, Batch!vars, Batch!chain, Batch!caller, Batch!call
  <2>5. UNCHANGED Rob!vars BY <1>1 DEF mcVars, robotOnly, shared, Rob!vars
  <2>6. UNCHANGED Versions!vars
    BY <1>1 DEF mcVars, deployOnly, shared, deployers, Versions!vars, Versions!chain, Versions!nodes,
                Versions!args, Versions!history
  <2> QED BY <2>1, <2>2, <2>3, <2>4, <2>5, <2>6
<1>2. CASE InRpc(Next) BY <1>2 DEF InRpc
<1>3. CASE InBus(Bus!Next) BY <1>3 DEF InBus
<1>4. CASE InApi(Api!Next) BY <1>4 DEF InApi
<1>5. CASE InFilter(Filter!Next) BY <1>5 DEF InFilter
<1>6. CASE InVersions(Versions!Next) BY <1>6 DEF InVersions
<1>7. CASE InBatch(Batch!Next) BY <1>7 DEF InBatch
<1>8. CASE InRobot(Rob!Next) BY <1>8 DEF InRobot
<1> QED BY <1>1, <1>2, <1>3, <1>4, <1>5, <1>6, <1>7, <1>8 DEF MCNext

RunInv ==
  /\ IInv
  /\ part = "bus" => BusInv
  /\ part = "api" => ApiInv
  /\ part = "versions" => Versions!IInv /\ Versions!Stepwise
  /\ part = "batch" => Batch!IInv
  /\ part = "robot" => RobotInv

LEMMA RunInit == ASSUME MCInit PROVE RunInv
<1>1. IInv BY InitIInv DEF MCInit
<1>2. part = "bus" => BusInv
  <2>1. part = "bus" => Bus!Init BY DEF MCInit
  <2> QED BY <2>1, BusInit, AllAssumed
<1>3. part = "api" => ApiInv
  <2>1. part = "api" => Api!Init BY DEF MCInit
  <2> QED BY <2>1, ApiInit, AllAssumed
<1>4. part = "batch" => Batch!IInv
  <2>1. part = "batch" => Batch!Init BY DEF MCInit
  <2> QED BY <2>1, Batch!InitIInv, AllAssumed
<1>5. part = "robot" => RobotInv
  <2>1. part = "robot" => Rob!Init BY DEF MCInit
  <2> QED BY <2>1, RobotInit, AllAssumed
<1>6. part = "versions" => Versions!IInv /\ Versions!Stepwise
  <2>1. part = "versions" => Versions!Init BY DEF MCInit
  <2> QED BY <2>1, VersionsInit
<1> QED BY <1>1, <1>2, <1>3, <1>4, <1>5, <1>6 DEF RunInv

LEMMA RunNext == ASSUME RunInv, [MCNext]_mcVars PROVE RunInv'
<1>1. part' = part BY PartStep
<1>2. IInv' BY PartStep, NextStep DEF RunInv
<1>3. part = "bus" => BusInv' BY PartStep, BusNext, AllAssumed DEF RunInv
<1>4. part = "api" => ApiInv' BY PartStep, ApiNext DEF RunInv
<1>5. part = "batch" => Batch!IInv' BY PartStep, Batch!NextStep, AllAssumed DEF RunInv
<1>6. part = "robot" => RobotInv' BY PartStep, RobotNext, AllAssumed DEF RunInv
<1>7. part = "versions" => (Versions!IInv /\ Versions!Stepwise)' BY PartStep, VersionsNext DEF RunInv
<1> QED BY <1>1, <1>2, <1>3, <1>4, <1>5, <1>6, <1>7 DEF RunInv

(* In every reachable state of the run, for every value of its constants.  *)
THEOREM RunInvariance == MCSpec => []RunInv
BY RunInit, RunNext, PTL DEF MCSpec

(* An answer over the two buses is that of the handler the call was for,   *)
(* given once, and a topic with a handler is found.                        *)
THEOREM RunRouted == MCSpec => []Routed
<1>1. BusInv => Bus!Routed
  BY DEF BusInv, Answered, Right, Once, OnWay, OnItsWay, Within, InHands, Bus!RetQueue,
         Bus!Routed, Bus!OwnAnswer, Bus!KnownFound, Bus!AnsweredOnce
<1>2. RunInv => Routed BY <1>1 DEF RunInv, Routed
<1> QED BY <1>2, RunInvariance, PTL

(* A call of the grid proxy ends with what the database held while it was  *)
(* made, and fails for a reason.                                           *)
THEOREM RunHonest == MCSpec => []Honest
<1>1. RunInv => Honest BY DEF RunInv, Honest, ApiInv, Api!Honest
<1> QED BY <1>1, RunInvariance, PTL

(* What the caller of BatchDeploy has on record is what runs on the nodes. *)
THEOREM RunRecords == MCSpec => []RecordsRight
<1>1. Batch!IInv => Batch!IdIsOwn /\ Batch!TrackedIsKnown BY Batch!OwnRecord, AllAssumed
<1>2. RunInv => RecordsRight BY <1>1 DEF RunInv, RecordsRight
<1> QED BY <1>2, RunInvariance, PTL

(* tfrobot: a group that passed is deployed whole, and what is left of one *)
(* that failed was reported.                                               *)
THEOREM RunLeavesNothing == MCSpec => []NothingLeftBehind
<1>1. RunInv => NothingLeftBehind BY RobotEnds, AllAssumed DEF RunInv, NothingLeftBehind
<1> QED BY <1>1, RunInvariance, PTL

(* A node sees the versions of its deployment go up one by one.            *)
THEOREM RunVersions == MCSpec => VersionStep
<1>1. RunInv /\ [MCNext]_mcVars => [part = "versions" => Versions!OneVersion]_mcVars
  BY PartStep, VersionsNext DEF RunInv
<1> QED BY <1>1, RunInvariance, PTL DEF MCSpec, VersionStep

(* A batch that ends without an error is complete, its contracts keep the  *)
(* ledger, and tfrobot deploys on no node that failed it in this group.    *)
THEOREM RunRetries == MCSpec => RetriesRight
<1> DEFINE AsSaid == CASE part = "batch" -> Batch!OkStep /\ (Batch!Ledger!Next \/ UNCHANGED Batch!Ledger!ledger)
                     [] part = "robot" -> Rob!SkipStep [] OTHER -> TRUE
<1>1. ASSUME RunInv, RunInv', [MCNext]_mcVars PROVE AsSaid
  <2>1. CASE part = "batch"
    <3>1. Batch!IInv /\ Batch!IInv' /\ [Batch!Next]_(Batch!vars) BY <1>1, <2>1, PartStep DEF RunInv
    <3>2. Batch!OkStep BY <3>1, Batch!OkIsUpdate, Batch!OkIsAll, AllAssumed DEF Batch!OkStep
    <3>3. Batch!Ledger!Next \/ UNCHANGED Batch!Ledger!ledger BY <3>1, Batch!LedgerStep, AllAssumed
    <3> QED BY <2>1, <3>2, <3>3
  <2>2. CASE part = "robot"
    <3>1. RobotInv /\ [Rob!Next]_(Rob!vars) BY <1>1, <2>2, PartStep DEF RunInv
    <3>2. Rob!SkipStep BY <3>1, RobotSkips, AllAssumed
    <3> QED BY <2>2, <3>2
  <2>3. CASE part \notin {"batch", "robot"} BY <2>3
  <2> QED BY <2>1, <2>2, <2>3
<1>2. RunInv /\ RunInv' /\ [MCNext]_mcVars => [AsSaid]_mcVars BY <1>1
<1> QED BY <1>2, RunInvariance, PTL DEF MCSpec, RetriesRight
=============================================================================
