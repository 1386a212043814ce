----------------------------- MODULE Envelopes -----------------------------
(***************************************************************************)
(* What two peers know of each other.  NewPeer writes the relays of a peer *)
(* and whether it encrypts to its twin on the chain, makeEnvelope reads    *)
(* the twin it sends to, handleIncoming and VerifySignature the twin they  *)
(* hear from, all by way of a cache (rmb-sdk-go/peer/twindb.go): one in    *)
(* memory that forgets nothing, or one of files, which outlives the        *)
(* process and whose entries are used for a while.  Meanwhile peers are    *)
(* started again with other options.  A call is a request and its          *)
(* response; RelayConnection and RpcClient look at how they are carried.   *)
(*                                                                         *)
(* The key a peer encrypts with is made of its mnemonics: a twin has it or *)
(* has none.  A peer has one relay here, the joined list of the code.      *)
(***************************************************************************)
EXTENDS Integers, FiniteSets, TLC

CONSTANTS
    Twin,          \* twin ids
    Relay,         \* relays
    Ttl,           \* how long an entry of the cache of files is used
    MaxStarts, MaxCalls, MaxFaults

VARIABLES
    cached,        \* the cache of the peers: "memory" or "files"
    chain,         \* twin -> what the chain says of it, [key, relay]
    peers,         \* twin -> its peer, [up, key, relay]
    cache,         \* twin -> twin -> [has, twin, age]
    quiet,         \* time since the chain changed last, up to Ttl + 1
    wire,          \* envelopes on their way
    call,          \* the call that is made
    starts, faults

vars == <<cached, chain, peers, cache, quiet, wire, call, starts, faults>>

EnvelopesAssumption ==
    /\ "none" \notin Relay
    /\ Ttl \in Nat /\ MaxStarts \in Nat /\ MaxCalls \in Nat /\ MaxFaults \in Nat

-----------------------------------------------------------------------------
(* The caches.                                                             *)

\* An entry that may be used.
Valid(t, u) == cache[t][u].has /\ (cached = "files" => cache[t][u].age <= Ttl)

\* Get, and the cache after it: a twin that is not there is read and kept.
Get(t, u) == IF Valid(t, u) THEN cache[t][u].twin ELSE chain[u]
Filled(held, t, u) ==
    IF Valid(t, u) THEN held ELSE [held EXCEPT ![t][u] = [has |-> TRUE, twin |-> chain[u], age |-> 0]]

NoEntry == [has |-> FALSE, twin |-> [key |-> FALSE, relay |-> "none"], age |-> 0]

\* What a new process finds: an empty memory, or the files of the last one.
Opened(t) == IF cached = "memory" THEN [cache EXCEPT ![t] = [u \in Twin |-> NoEntry]] ELSE cache

-----------------------------------------------------------------------------
(* Envelopes.                                                              *)

\* The parts of an envelope that are signed: all but the signature.
Challenge(env) ==
    <<env.uid, env.source, env.destination, env.message, env.federation, env.payload, env.relays>>
Sign(signer, input) == [by |-> signer, of |-> input]
Signed(env) == [env EXCEPT !.signature = Sign(env.source, Challenge(env))]
VerifySignature(env) == env.signature = Sign(env.source, Challenge(env))

\* An envelope is encrypted when both twins have a key, as far as its sender knows.
MakeEnvelope(s, d, message, uid) ==
    Signed([uid |-> uid, source |-> s, destination |-> d, message |-> message, relays |-> peers[s].relay,
            federation |-> Get(s, d).relay, payload |-> IF Get(s, d).key /\ peers[s].key THEN "cipher" ELSE "plain",
            signature |-> "none"])

\* The relays bring an envelope to the peer that is connected to the one it names.
Reaches(env) ==
    /\ peers[env.destination].up
    /\ peers[env.destination].relay = IF env.federation = "none" THEN env.relays ELSE env.federation

\* What handleIncoming makes of the payload.  A cipher of a twin that has no key
\* is left as it is: the error that is wrapped then is nil, and so is the result.
HandleIncoming(t, env) ==
    IF ~VerifySignature(env) THEN "error"
    ELSE IF env.payload = "plain" THEN "plain"
    ELSE IF ~peers[t].key THEN "error"
    ELSE IF ~Get(t, env.source).key THEN "cipher"
    ELSE "plain"

-----------------------------------------------------------------------------
(* The peers.                                                              *)

Down == [up |-> FALSE, key |-> FALSE, relay |-> "none"]
NoCall == [uid |-> 0, from |-> 0, phase |-> "idle", sure |-> FALSE]

Init ==
    /\ cached \in {"memory", "files"}
    /\ chain = [t \in Twin |-> [key |-> FALSE, relay |-> "none"]]
    /\ peers = [t \in Twin |-> Down] /\ cache = [t \in Twin |-> [u \in Twin |-> NoEntry]]
    /\ quiet = 0 /\ wire = {} /\ call = NoCall /\ starts = 0 /\ faults = 0

Fault == faults < MaxFaults /\ faults' = faults + 1
Announced(t) == peers[t].up => chain[t] = [key |-> peers[t].key, relay |-> peers[t].relay]

\* A fault: the relays are not compared.
FaultDiffers(twin, key, relay) == twin.key # key \/ twin.relay = "none"

Differs(twin, key, relay) == twin # [key |-> key, relay |-> relay]

\* NewPeer: the twin is read by way of the cache, and written when it differs
\* from the options; a peer of the same twin that ran before is gone.
NewPeer(t, key, relay) ==
    /\ starts < MaxStarts /\ starts' = starts + 1
    /\ LET opened == Opened(t)
           own == IF cached = "files" THEN Get(t, t) ELSE chain[t]
           up == [up |-> TRUE, key |-> key, relay |-> relay]
       IN  /\ cache' = IF cached = "files" THEN Filled(opened, t, t)
                       ELSE [opened EXCEPT ![t][t] = [has |-> TRUE, twin |-> chain[t], age |-> 0]]
           /\ \/ /\ Differs(own, key, relay)
                 /\ \/ /\ chain' = [chain EXCEPT ![t] = [key |-> key, relay |-> relay]] /\ quiet' = 0
                       /\ peers' = [peers EXCEPT ![t] = up] /\ UNCHANGED faults
                    \/ Fault /\ peers' = [peers EXCEPT ![t] = Down] /\ UNCHANGED <<chain, quiet>>
              \/ /\ ~Differs(own, key, relay)
                 /\ peers' = [peers EXCEPT ![t] = up] /\ UNCHANGED <<chain, quiet, faults>>
    /\ call' = IF call.phase # "waiting" THEN call
               ELSE IF call.from = t THEN [call EXCEPT !.phase = "gone"] ELSE [call EXCEPT !.sure = FALSE]
    /\ UNCHANGED <<cached, wire>>

\* Every entry that would be used is what the chain says.
Fresh == \A t, u \in Twin : Valid(t, u) => cache[t][u].twin = chain[u]

\* SendRequest.  The twin it sends to may not be there to be read.
SendRequest(s, d) ==
    /\ call.phase # "waiting" /\ call.uid < MaxCalls /\ s # d /\ peers[s].up /\ peers[d].up
    /\ LET made == [uid |-> call.uid + 1, from |-> s, phase |-> "waiting",
                    sure |-> (\A t \in Twin : Announced(t)) /\ (Fresh \/ (cached = "files" /\ quiet > Ttl))]
       IN  \/ /\ call' = made /\ wire' = wire \cup {MakeEnvelope(s, d, "request", made.uid)}
              /\ cache' = Filled(cache, s, d) /\ UNCHANGED faults
           \/ /\ ~Valid(s, d) /\ Fault /\ call' = [made EXCEPT !.phase = "failed", !.sure = FALSE]
              /\ UNCHANGED <<wire, cache>>
    /\ UNCHANGED <<cached, chain, peers, quiet, starts>>

\* The response to a call that is waited for ends it; the caller expects it to
\* be plain, and goes down when it is not.
Answered(env, got) ==
    IF call.phase = "waiting" /\ call.uid = env.uid /\ call.from = env.destination
    THEN [call EXCEPT !.phase = CASE got = "plain" -> "ok" [] got = "error" -> "failed" [] OTHER -> "panic"]
    ELSE call

\* process, with the router of the one side and the RpcClient of the other as
\* handlers.  A request that cannot be read is logged.
Process(env) ==
    LET t == env.destination
        got == HandleIncoming(t, env)
    IN  /\ Reaches(env)
        /\ \/ /\ cache' = Filled(cache, t, env.source)
              /\ IF env.message = "request"
                 THEN /\ wire' = IF got = "plain"
                                 THEN (wire \ {env}) \cup {MakeEnvelope(t, env.source, "response", env.uid)}
                                 ELSE wire \ {env}
                      /\ UNCHANGED call
                 ELSE wire' = wire \ {env} /\ call' = Answered(env, got)
              /\ UNCHANGED faults
           \/ /\ ~Valid(t, env.source) /\ Fault /\ UNCHANGED cache
              /\ wire' = wire \ {env}
              /\ call' = IF env.message = "request" THEN [call EXCEPT !.sure = FALSE]
                         ELSE [Answered(env, "error") EXCEPT !.sure = FALSE]
        /\ UNCHANGED <<cached, chain, peers, quiet, starts>>

\* An envelope that reaches nobody is dropped, and so may any other be.
Lose(env) ==
    /\ wire' = wire \ {env}
    /\ IF Reaches(env) THEN Fault /\ call' = [call EXCEPT !.sure = FALSE]
       ELSE UNCHANGED <<faults, call>>
    /\ UNCHANGED <<cached, chain, peers, cache, quiet, starts>>

GiveUp ==
    /\ call.phase = "waiting" /\ call' = [call EXCEPT !.phase = "late"]
    /\ UNCHANGED <<cached, chain, peers, cache, quiet, wire, starts, faults>>

Tick ==
    /\ quiet' = IF quiet > Ttl THEN quiet ELSE quiet + 1
    /\ cache' = [t \in Twin |-> [u \in Twin |->
         IF cache[t][u].has /\ cache[t][u].age <= Ttl THEN [cache[t][u] EXCEPT !.age = @ + 1] ELSE cache[t][u]]]
    /\ UNCHANGED <<cached, chain, peers, wire, call, starts, faults>>

Next ==
    \/ \E t \in Twin, key \in BOOLEAN, relay \in Relay : NewPeer(t, key, relay)
    \/ \E s, d \in Twin : SendRequest(s, d)
    \/ \E env \in wire : Process(env) \/ Lose(env)
    \/ GiveUp
    \/ Tick

Spec == Init /\ [][Next]_vars

-----------------------------------------------------------------------------
(* Properties.                                                             *)

\* A call made when the peers have said what they are and nobody goes by an old
\* record gets its answer, unless a peer is started again or something fails:
\* the two sides then agree on relay and encryption, also when they learnt of
\* each other at different times, and a record of the cache of files is old for
\* no longer than it says.
Reached ==
    call.sure =>
        /\ call.phase \notin {"failed", "panic"}
        /\ \A env \in wire : env.uid = call.uid /\ call.phase = "waiting" => Reaches(env)

\* A peer whose cache is new has its relay and its key on the chain.
AnnouncedByMemory == cached = "memory" => \A t \in Twin : Announced(t)

\* Both: two peers agree on how they talk to each other.
PeersAgree == Reached /\ AnnouncedByMemory

\* The same with the cache of files.  It does not hold: the record a peer finds
\* of itself may be the one that it read before it changed it.
AnnouncedAlways == \A t \in Twin : Announced(t)

\* "Handler is a call back that is called with verified and decrypted incoming
\* messages".  It does not hold: a peer that learnt of the other before that one
\* had a key hands over its cipher, without an error.
HandedPlain == call.phase # "panic"
=============================================================================
