------------------------------ MODULE RpcClient ------------------------------
(***************************************************************************)
(* Concurrent calls of the RMB client (rmb-sdk-go/peer/rpc.go): every call *)
(* registers a channel of capacity one under its id, sends its request and *)
(* waits for the answer or for its context; the peer's one process loop    *)
(* (peer.go) hands each incoming envelope to router, which finds the       *)
(* channel of the envelope's id.  Ids are uuids: a call is its own id.     *)
(* The relay may lose an answer, deliver it late, or deliver it again.     *)
(***************************************************************************)
EXTENDS Naturals, FiniteSets

CONSTANTS
  Calls,       \* the calls made, one goroutine each
  MaxCopies,   \* bound: copies of an answer the relay delivers
  None

ASSUME CopiesAssumption == MaxCopies \in Nat

(* What handleIncoming makes of an envelope, and CallWithSession of that.  *)
Envelope == {"response", "error", "invalid"}
ASSUME NoneAssumption == None \notin Envelope

VARIABLES
  pc,          \* where a call is
  responses,   \* RpcClient.responses: the ids registered in the map
  buffer,      \* what a call's channel holds
  closed,      \* channels that are closed
  expired,     \* calls whose context is done
  answers,     \* envelopes on their way to the client, per id
  result,      \* what a call returned
  panicked     \* a send on a closed channel: the program is gone

vars == <<pc, responses, buffer, closed, expired, answers, result, panicked>>

Step == {"start", "send", "sent", "wait", "close", "delete", "returned"}
Result == {"none", "ok", "failed", "canceled"}

TypeOK ==
  /\ pc \in [Calls -> Step]
  /\ responses \subseteq Calls
  /\ buffer \in [Calls -> Envelope \cup {None}]
  /\ closed \subseteq Calls
  /\ expired \subseteq Calls
  /\ answers \in [Calls -> [Envelope -> 0..MaxCopies]]
  /\ result \in [Calls -> Result]
  /\ panicked \in BOOLEAN

Init ==
  /\ pc = [c \in Calls |-> "start"]
  /\ responses = {} /\ closed = {} /\ expired = {}
  /\ buffer = [c \in Calls |-> None]
  /\ answers = [c \in Calls |-> [e \in Envelope |-> 0]]
  /\ result = [c \in Calls |-> "none"]
  /\ panicked = FALSE

Goto(c, from, to) == ~panicked /\ pc[c] = from /\ pc' = [pc EXCEPT ![c] = to]
Return(c, r) == result' = [result EXCEPT ![c] = r]
-----------------------------------------------------------------------------
(* CallWithSession. *)

Register(c) ==
  /\ Goto(c, "start", "send")
  /\ responses' = responses \cup {c}
  /\ UNCHANGED <<buffer, closed, expired, answers, result, panicked>>

(* A relay takes the request, and its answers, if any, come back, each up  *)
(* to MaxCopies times; SendRequest may still be waiting for the writer.    *)
Transmit(c) ==
  /\ Goto(c, "send", "sent")
  /\ \E e \in Envelope, k \in 0..MaxCopies : answers' = [answers EXCEPT ![c][e] = k]
  /\ UNCHANGED <<responses, buffer, closed, expired, result, panicked>>

SendRequest(c) ==
  /\ Goto(c, "sent", "wait")
  /\ UNCHANGED <<responses, buffer, closed, expired, answers, result, panicked>>

(* It could not be sent, or its context ended before the writer replied.   *)
SendRequestFails(c) ==
  /\ Goto(c, "send", "close") \/ Goto(c, "sent", "close")
  /\ Return(c, "failed")
  /\ UNCHANGED <<responses, buffer, closed, expired, answers, panicked>>

ContextDone(c) ==
  /\ c \notin expired /\ pc[c] # "returned" /\ ~panicked
  /\ expired' = expired \cup {c}
  /\ UNCHANGED <<pc, responses, buffer, closed, answers, result, panicked>>

(* Fault: the id stays in the map. *)
FaultKeepId(c) ==
  /\ Goto(c, "delete", "returned")
  /\ UNCHANGED <<responses, buffer, closed, expired, answers, result, panicked>>

GiveUp(c) ==
  /\ c \in expired
  /\ Goto(c, "wait", "close")
  /\ Return(c, "canceled")
  /\ UNCHANGED <<responses, buffer, closed, expired, answers, panicked>>

Receive(c) ==
  /\ buffer[c] # None
  /\ Goto(c, "wait", "close")
  /\ buffer' = [buffer EXCEPT ![c] = None]
  /\ Return(c, IF buffer[c] = "response" THEN "ok" ELSE "failed")
  /\ UNCHANGED <<responses, closed, expired, answers, panicked>>

(* The deferred function: the channel is closed, then, under the lock, the *)
(* id is deleted.                                                          *)
CloseChannel(c) ==
  /\ Goto(c, "close", "delete")
  /\ closed' = closed \cup {c}
  /\ UNCHANGED <<responses, buffer, expired, answers, result, panicked>>

Unregister(c) ==
  /\ Goto(c, "delete", "returned")
  /\ responses' = responses \ {c}
  /\ UNCHANGED <<buffer, closed, expired, answers, result, panicked>>
-----------------------------------------------------------------------------
(* The process loop: handleIncoming, then router under the read lock.      *)

Taken(c, e) == answers' = [answers EXCEPT ![c][e] = @ - 1]

Pending(c, e) == ~panicked /\ answers[c][e] > 0

(* Nobody is registered under the id any more (or yet). *)
RouteUnknown(c, e) ==
  /\ Pending(c, e) /\ c \notin responses
  /\ Taken(c, e)
  /\ UNCHANGED <<pc, responses, buffer, closed, expired, result, panicked>>

(* A send on a channel with room, or with none (the default branch). *)
Route(c, e) ==
  /\ Pending(c, e) /\ c \in responses \ closed
  /\ Taken(c, e)
  /\ buffer' = [buffer EXCEPT ![c] = IF @ = None THEN e ELSE @]
  /\ UNCHANGED <<pc, responses, closed, expired, result, panicked>>

(* A send on a closed channel panics, in a select with a default too.      *)
RoutePanics(c, e) ==
  /\ Pending(c, e) /\ c \in responses \cap closed
  /\ panicked' = TRUE
  /\ UNCHANGED <<pc, responses, buffer, closed, expired, answers, result>>

Lose(c, e) ==
  /\ Pending(c, e)
  /\ Taken(c, e)
  /\ UNCHANGED <<pc, responses, buffer, closed, expired, result, panicked>>
-----------------------------------------------------------------------------
CallStep(c) ==
  \/ Register(c) \/ Transmit(c) \/ SendRequest(c) \/ SendRequestFails(c)
  \/ GiveUp(c) \/ Receive(c)
  \/ CloseChannel(c) \/ Unregister(c)

Process == \E c \in Calls, e \in Envelope :
  RouteUnknown(c, e) \/ Route(c, e) \/ RoutePanics(c, e)

Done == (panicked \/ \A c \in Calls : pc[c] = "returned") /\ UNCHANGED vars

Next ==
  \/ \E c \in Calls : CallStep(c) \/ ContextDone(c)
  \/ Process
  \/ \E c \in Calls, e \in Envelope : Lose(c, e)
  \/ Done

Spec == Init /\ [][Next]_vars
FairSpec == Spec /\ \A c \in Calls : WF_vars(CallStep(c)) /\ WF_vars(ContextDone(c))
-----------------------------------------------------------------------------
(* Properties. *)

(* No id leaks and none is missing: the map holds exactly the calls that   *)
(* have registered and not yet returned, in every interleaving of calls,   *)
(* contexts and answers.                                                   *)
Registered == responses = {c \in Calls : pc[c] \notin {"start", "returned"}}

(* The only moment an answer finds a closed channel in the map is between  *)
(* the two halves of the deferred function, close and delete.              *)
ClosedWindow == responses \cap closed = {c \in Calls : pc[c] = "delete"}

(* A call whose context has a deadline returns, whatever becomes of its    *)
(* answers (unless the program has panicked).                              *)
CallReturns == \A c \in Calls : pc[c] = "wait" ~> pc[c] = "returned" \/ panicked

(* router's comment on an answer that comes too late: "client is not       *)
(* waiting anymore! just return then".  A late or second answer must not   *)
(* end the program.                                                        *)
LateAnswerIgnored == ~panicked
=============================================================================
