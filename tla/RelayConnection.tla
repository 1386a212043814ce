--------------------------- MODULE RelayConnection ---------------------------
(***************************************************************************)
(* The connections of an RMB peer to its relays (rmb-sdk-go/peer,          *)
(* connection.go and peer.go).  Each relay has a goroutine (Start) that    *)
(* dials, serves the websocket in loop and dials again; loop has a reader  *)
(* goroutine that hands it the frames it reads; loop hands them to the     *)
(* peer's one process goroutine, and writes what concurrent senders offer  *)
(* it.  All of this goes over unbuffered channels: a step that passes a    *)
(* value is a step of both sides.  Closing a channel that somebody sends   *)
(* on ends the program (panicked), except in reply, which recovers.        *)
(*                                                                         *)
(* The relay and the network are outside the repository: a connection may  *)
(* break at any time, a write on a broken one may or may not fail.  The    *)
(* relays' weights, which send changes and nothing reads, are left out: a  *)
(* sender may choose any relay.                                            *)
(***************************************************************************)
EXTENDS Naturals, FiniteSets, Sequences

CONSTANTS
  Relay,       \* the urls of WithRelay
  Sender,      \* calls of Peer.send
  MayCancel,   \* the peer's context may end
  BadFrames,   \* a frame may not decode
  MaxFrames,   \* bound: frames a relay sends
  MaxBreaks,   \* bound: times a connection breaks
  Output,      \* the channel all connections forward to
  None

ASSUME RelayAssumption == IsFiniteSet(Relay)
ASSUME SwitchAssumption == {MayCancel, BadFrames} \subseteq BOOLEAN
ASSUME BoundsAssumption == {MaxFrames, MaxBreaks} \subseteq Nat
ASSUME NoneAssumption == None \notin Relay \cup Sender /\ Output \notin Relay

(* NewPeer makes a slice of as many empty items as there are relays and    *)
(* appends the connections to it, so send has twice as many attempts.      *)
Attempts == 2 * Cardinality(Relay)

VARIABLES
  canceled,    \* the peer's context is done
  panicked,
  closed,      \* writers (by relay) and Output, once closed
  (* Start and loop *)
  pc,
  item, data,  \* what loop has in hand: an attempt <<sender, try>>; a frame
  last,        \* loop has returned context.Canceled
  open,        \* relays whose outputCh is open
  local,       \* relays whose connection's context is done
  broken,      \* relays whose connection is broken
  breaks,
  (* reader *)
  reader, frame, arrived,
  (* process *)
  process,
  handled,     \* the frames it handled, per relay
  (* Peer.send *)
  at, via, tries, done, copies

conns == <<pc, item, data, last, open, local, broken, breaks>>
reading == <<reader, frame, arrived>>
processing == <<process, handled>>
sending == <<at, via, tries, done, copies>>
vars == <<canceled, panicked, closed, conns, reading, processing, sending>>

Step == {"dial", "select", "forward", "write", "replyOk", "replyErr", "close", "cancel",
         "disconnect", "sleep", "closeWriter", "closeOutput", "ended"}

TypeOK ==
  /\ canceled \in BOOLEAN /\ panicked \in BOOLEAN
  /\ closed \subseteq Relay \cup {Output}
  /\ pc \in [Relay -> Step]
  /\ item \in [Relay -> (Sender \X (1..Attempts)) \cup {None}]
  /\ data \in [Relay -> (1..MaxFrames) \cup {None}]
  /\ last \subseteq Relay /\ open \subseteq Relay /\ local \subseteq Relay
  /\ broken \subseteq Relay /\ breaks \in 0..MaxBreaks
  /\ reader \in [Relay -> {"none", "read", "hand", "done"}]
  /\ frame \in [Relay -> (1..MaxFrames) \cup {None}]
  /\ arrived \in [Relay -> 0..MaxFrames]
  /\ process \in {"select", "returned"}
  /\ handled \in [Relay -> Seq(1..MaxFrames)]
  /\ at \in [Sender -> {"idle", "choose", "offer", "await", "ok", "failed"}]
  /\ via \in [Sender -> Relay \cup {None}]
  /\ tries \in [Sender -> 0..Attempts]
  /\ done \subseteq Sender
  /\ copies \in [Sender -> Nat]

Init ==
  /\ canceled = FALSE /\ panicked = FALSE /\ closed = {}
  /\ pc = [r \in Relay |-> "dial"]
  /\ item = [r \in Relay |-> None] /\ data = [r \in Relay |-> None]
  /\ last = {} /\ open = {} /\ local = {} /\ broken = {} /\ breaks = 0
  /\ reader = [r \in Relay |-> "none"]
  /\ frame = [r \in Relay |-> None]
  /\ arrived = [r \in Relay |-> 0]
  /\ process = "select"
  /\ handled = [r \in Relay |-> <<>>]
  /\ at = [s \in Sender |-> "idle"]
  /\ via = [s \in Sender |-> None]
  /\ tries = [s \in Sender |-> 0]
  /\ done = {}
  /\ copies = [s \in Sender |-> 0]

Goto(r, from, to) == ~panicked /\ pc[r] = from /\ pc' = [pc EXCEPT ![r] = to]
Panic(b) == panicked' = b
-----------------------------------------------------------------------------
(* Start and listenAndServe.  Two seconds pass before a dial: the reader   *)
(* of the connection before has returned by then.                          *)

Dial(r) ==
  /\ Goto(r, "dial", "select")
  /\ reader[r] \in {"none", "done"}
  /\ open' = open \cup {r} /\ local' = local \ {r} /\ broken' = broken \ {r}
  /\ reader' = [reader EXCEPT ![r] = "read"]
  /\ UNCHANGED <<canceled, panicked, closed, item, data, last, breaks, frame, arrived,
                 processing, sending>>

DialFails(r) ==
  /\ Goto(r, "dial", "sleep")
  /\ UNCHANGED <<canceled, panicked, closed, item, data, last, open, local, broken, breaks,
                 reading, processing, sending>>

Wakes(r) ==
  /\ Goto(r, "sleep", "dial")
  /\ UNCHANGED <<canceled, panicked, closed, item, data, last, open, local, broken, breaks,
                 reading, processing, sending>>

(* The deferred calls of Start: the writer, then output, is closed.  A     *)
(* sender blocked on the one, or a loop on the other, panics, and so does  *)
(* the second of two connections to close output.                          *)
CloseWriter(r) ==
  /\ Goto(r, "closeWriter", "closeOutput")
  /\ closed' = closed \cup {r}
  /\ Panic(\E s \in Sender \ done : at[s] = "offer" /\ via[s] = r)
  /\ UNCHANGED <<canceled, item, data, last, open, local, broken, breaks, reading, processing,
                 sending>>

CloseOutput(r) ==
  /\ Goto(r, "closeOutput", "ended")
  /\ closed' = closed \cup {Output}
  /\ Panic(Output \in closed \/ \E q \in Relay : pc[q] = "forward")
  /\ UNCHANGED <<canceled, item, data, last, open, local, broken, breaks, reading, processing,
                 sending>>
-----------------------------------------------------------------------------
(* loop. *)

Return(r, cancellation) ==
  /\ last' = IF cancellation THEN last \cup {r} ELSE last
  /\ item' = [item EXCEPT ![r] = None]
  /\ UNCHANGED <<canceled, panicked, closed, data, open, local, broken, breaks, reading,
                 processing>>

SeesCancel(r) == canceled /\ Goto(r, "select", "close") /\ Return(r, TRUE) /\ UNCHANGED sending
SeesLocal(r) == r \in local /\ Goto(r, "select", "close") /\ Return(r, FALSE) /\ UNCHANGED sending

(* The ping cannot be written, or no pong has come for forty seconds. *)
PingFails(r) == r \in broken /\ Goto(r, "select", "close") /\ Return(r, FALSE) /\ UNCHANGED sending

(* Fault: the reader hands the frame over again. *)
FaultTakesFrame(r) ==
  /\ Goto(r, "select", "forward")
  /\ reader[r] = "hand" /\ r \in open
  /\ data' = [data EXCEPT ![r] = frame[r]]
  /\ UNCHANGED <<canceled, panicked, closed, item, last, open, local, broken, breaks, reading,
                 processing, sending>>

TakesFrame(r) ==
  /\ Goto(r, "select", "forward")
  /\ reader[r] = "hand" /\ r \in open
  /\ data' = [data EXCEPT ![r] = frame[r]]
  /\ reader' = [reader EXCEPT ![r] = "read"] /\ frame' = [frame EXCEPT ![r] = None]
  /\ UNCHANGED <<canceled, panicked, closed, item, last, open, local, broken, breaks, arrived,
                 processing, sending>>

(* output <- data, which selects on nothing else; process takes it, and    *)
(* handles it or, when it does not decode, returns.                        *)
Forward(r) ==
  /\ Goto(r, "forward", "select")
  /\ Output \notin closed /\ process = "select"
  /\ data' = [data EXCEPT ![r] = None]
  /\ \/ handled' = [handled EXCEPT ![r] = Append(@, data[r])] /\ UNCHANGED process
     \/ BadFrames /\ process' = "returned" /\ UNCHANGED handled
  /\ UNCHANGED <<canceled, panicked, closed, item, last, open, local, broken, breaks, reading,
                 sending>>

ForwardPanics(r) ==
  /\ Goto(r, "forward", "ended")
  /\ Output \in closed /\ Panic(TRUE)
  /\ UNCHANGED <<canceled, closed, item, data, last, open, local, broken, breaks, reading,
                 processing, sending>>

Accept(r, s) ==
  /\ Goto(r, "select", "write")
  /\ at[s] = "offer" /\ via[s] = r
  /\ item' = [item EXCEPT ![r] = <<s, tries[s]>>]
  /\ at' = [at EXCEPT ![s] = "await"]
  /\ UNCHANGED <<canceled, panicked, closed, data, last, open, local, broken, breaks, reading,
                 processing, via, tries, done, copies>>

WriteMessage(r) ==
  \/ /\ Goto(r, "write", "replyOk")
     /\ copies' = [copies EXCEPT ![item[r][1]] = @ + 1]
     /\ UNCHANGED <<canceled, panicked, closed, item, data, last, open, local, broken, breaks,
                    reading, processing, at, via, tries, done>>
  \/ /\ r \in broken /\ Goto(r, "write", "replyErr")
     /\ UNCHANGED <<canceled, panicked, closed, item, data, last, open, local, broken, breaks,
                    reading, processing, sending>>

(* An attempt whose sender still waits on its own channel. *)
Awaited(r) == at[item[r][1]] = "await" /\ tries[item[r][1]] = item[r][2]

ReplyOk(r) ==
  /\ Goto(r, "replyOk", "select") /\ Awaited(r)
  /\ at' = [at EXCEPT ![item[r][1]] = "ok"]
  /\ item' = [item EXCEPT ![r] = None]
  /\ UNCHANGED <<canceled, panicked, closed, data, last, open, local, broken, breaks, reading,
                 processing, via, tries, done, copies>>

ReplyErr(r) ==
  /\ Goto(r, "replyErr", "close") /\ Awaited(r)
  /\ at' = [at EXCEPT ![item[r][1]] = "choose"]
  /\ Return(r, FALSE)
  /\ UNCHANGED <<via, tries, done, copies>>

(* The sender has gone and closed its channel: the panic is recovered, the *)
(* reply reads as nil, and loop goes on, after a failed write too.         *)
ReplyGone(r) ==
  /\ Goto(r, "replyOk", "select") \/ Goto(r, "replyErr", "select")
  /\ ~Awaited(r)
  /\ item' = [item EXCEPT ![r] = None]
  /\ UNCHANGED <<canceled, panicked, closed, data, last, open, local, broken, breaks, reading,
                 processing, sending>>

(* reply selects on the context too: loop returns, with WriteMessage's     *)
(* result, which is not context.Canceled.                                  *)
ReplyCanceled(r) ==
  /\ canceled
  /\ Goto(r, "replyOk", "close") \/ Goto(r, "replyErr", "close")
  /\ Return(r, FALSE)
  /\ UNCHANGED sending

(* The deferred calls of loop: outputCh is closed, on a reader that may be *)
(* blocked on it, the connection's context ended, and the socket closed.   *)
CloseOutputCh(r) ==
  /\ Goto(r, "close", "cancel")
  /\ open' = open \ {r}
  /\ Panic(reader[r] = "hand" /\ r \notin local)
  /\ UNCHANGED <<canceled, closed, item, data, last, local, broken, breaks, reading, processing,
                 sending>>

CancelLocal(r) ==
  /\ Goto(r, "cancel", "disconnect")
  /\ local' = local \cup {r}
  /\ UNCHANGED <<canceled, panicked, closed, item, data, last, open, broken, breaks, reading,
                 processing, sending>>

(* Fault: Start stops after an error. *)
FaultDisconnect(r) ==
  /\ Goto(r, "disconnect", "ended")
  /\ broken' = broken \cup {r}
  /\ UNCHANGED <<canceled, panicked, closed, item, data, last, open, local, breaks, reading,
                 processing, sending>>

Disconnect(r) ==
  /\ Goto(r, "disconnect", IF r \in last THEN "closeWriter" ELSE "sleep")
  /\ broken' = broken \cup {r}
  /\ UNCHANGED <<canceled, panicked, closed, item, data, last, open, local, breaks, reading,
                 processing, sending>>
-----------------------------------------------------------------------------
(* reader. *)

ReadMessage(r) ==
  /\ ~panicked /\ reader[r] = "read" /\ r \notin broken /\ arrived[r] < MaxFrames
  /\ arrived' = [arrived EXCEPT ![r] = @ + 1]
  /\ reader' = [reader EXCEPT ![r] = "hand"] /\ frame' = [frame EXCEPT ![r] = arrived'[r]]
  /\ UNCHANGED <<canceled, panicked, closed, conns, processing, sending>>

ReadFails(r) ==
  /\ ~panicked /\ reader[r] = "read" /\ r \in broken
  /\ reader' = [reader EXCEPT ![r] = "done"]
  /\ local' = local \cup {r}
  /\ UNCHANGED <<canceled, panicked, closed, pc, item, data, last, open, broken, breaks, frame,
                 arrived, processing, sending>>

ReaderStops(r) ==
  /\ ~panicked /\ reader[r] = "hand" /\ r \in local
  /\ reader' = [reader EXCEPT ![r] = "done"] /\ frame' = [frame EXCEPT ![r] = None]
  /\ UNCHANGED <<canceled, panicked, closed, conns, arrived, processing, sending>>

ReaderPanics(r) ==
  /\ ~panicked /\ reader[r] = "hand" /\ r \notin open
  /\ Panic(TRUE)
  /\ UNCHANGED <<canceled, closed, conns, reading, processing, sending>>
-----------------------------------------------------------------------------
(* Peer.send and InnerConnection.send.  It is called while the peer's      *)
(* context is not done, with a context that does not outlive it, as        *)
(* NewPeer's comment asks.                                                 *)

Send(s) ==
  /\ ~panicked /\ ~canceled /\ at[s] = "idle"
  /\ at' = [at EXCEPT ![s] = "choose"]
  /\ UNCHANGED <<canceled, panicked, closed, conns, reading, processing, via, tries, done,
                 copies>>

Choose(s, r) ==
  /\ ~panicked /\ at[s] = "choose" /\ tries[s] < Attempts
  /\ at' = [at EXCEPT ![s] = "offer"] /\ via' = [via EXCEPT ![s] = r]
  /\ tries' = [tries EXCEPT ![s] = @ + 1]
  /\ UNCHANGED <<canceled, panicked, closed, conns, reading, processing, done, copies>>

GivesUp(s) ==
  /\ ~panicked /\ at[s] = "choose" /\ tries[s] = Attempts
  /\ at' = [at EXCEPT ![s] = "failed"]
  /\ UNCHANGED <<canceled, panicked, closed, conns, reading, processing, via, tries, done,
                 copies>>

(* Fault: the two seconds run on after the writer has taken the request. *)
FaultTimesOut(s) ==
  /\ ~panicked /\ at[s] \in {"offer", "await"} /\ via[s] \notin closed
  /\ at' = [at EXCEPT ![s] = "choose"]
  /\ UNCHANGED <<canceled, panicked, closed, conns, reading, processing, via, tries, done,
                 copies>>

TimesOut(s) ==
  /\ ~panicked /\ at[s] = "offer" /\ via[s] \notin closed
  /\ at' = [at EXCEPT ![s] = "choose"]
  /\ UNCHANGED <<canceled, panicked, closed, conns, reading, processing, via, tries, done,
                 copies>>

ContextDone(s) ==
  /\ ~panicked /\ s \in done /\ at[s] \in {"offer", "await"}
  /\ at' = [at EXCEPT ![s] = "choose"]
  /\ UNCHANGED <<canceled, panicked, closed, conns, reading, processing, via, tries, done,
                 copies>>

OfferPanics(s) ==
  /\ ~panicked /\ at[s] = "offer" /\ via[s] \in closed
  /\ Panic(TRUE)
  /\ UNCHANGED <<canceled, closed, conns, reading, processing, sending>>
-----------------------------------------------------------------------------
(* Contexts end; connections break. *)

ProcessReturns ==
  /\ ~panicked /\ canceled /\ process = "select"
  /\ process' = "returned"
  /\ UNCHANGED <<canceled, panicked, closed, conns, reading, handled, sending>>

Cancel ==
  /\ ~panicked /\ MayCancel /\ ~canceled
  /\ canceled' = TRUE
  /\ done' = Sender
  /\ UNCHANGED <<panicked, closed, conns, reading, processing, at, via, tries, copies>>

DeadlinePasses(s) ==
  /\ ~panicked /\ s \notin done /\ at[s] \notin {"idle", "ok", "failed"}
  /\ done' = done \cup {s}
  /\ UNCHANGED <<canceled, panicked, closed, conns, reading, processing, at, via, tries,
                 copies>>

Breaks(r) ==
  /\ ~panicked /\ r \in open \ broken /\ breaks < MaxBreaks
  /\ broken' = broken \cup {r} /\ breaks' = breaks + 1
  /\ UNCHANGED <<canceled, panicked, closed, pc, item, data, last, open, local, reading,
                 processing, sending>>
-----------------------------------------------------------------------------
LoopStep(r) ==
  \/ DialFails(r) \/ Wakes(r) \/ CloseWriter(r) \/ CloseOutput(r)
  \/ SeesCancel(r) \/ SeesLocal(r) \/ PingFails(r) \/ TakesFrame(r)
  \/ Forward(r) \/ ForwardPanics(r) \/ WriteMessage(r)
  \/ ReplyOk(r) \/ ReplyErr(r) \/ ReplyGone(r) \/ ReplyCanceled(r)
  \/ CloseOutputCh(r) \/ CancelLocal(r) \/ Disconnect(r)
ReaderStep(r) == ReadMessage(r) \/ ReadFails(r) \/ ReaderStops(r) \/ ReaderPanics(r)
SendStep(s) ==
  (\E r \in Relay : Choose(s, r)) \/ GivesUp(s) \/ TimesOut(s) \/ ContextDone(s) \/ OfferPanics(s)

Next ==
  \/ \E r \in Relay : Dial(r) \/ LoopStep(r) \/ ReaderStep(r) \/ Breaks(r)
  \/ \E r \in Relay, s \in Sender : Accept(r, s)
  \/ \E s \in Sender : Send(s) \/ SendStep(s) \/ DeadlinePasses(s)
  \/ ProcessReturns \/ Cancel

Spec == Init /\ [][Next]_vars

(* Goroutines run; a relay that is dialled again and again is reached in   *)
(* the end.  A frame need never arrive, a deadline never pass.             *)
FairSpec ==
  /\ Spec
  /\ \A r \in Relay : SF_vars(Dial(r)) /\ WF_vars(LoopStep(r))
                      /\ WF_vars(ReadFails(r) \/ ReaderStops(r))
  /\ \A s \in Sender : WF_vars(SendStep(s))
-----------------------------------------------------------------------------
(* A request is written at most once while its context lives, and the      *)
(* answer of send tells the truth about it, over all attempts, relays and  *)
(* reconnections: ok when it was written, an error when it was not.  (Once *)
(* the context is done send goes on to its next attempt, and may write a   *)
(* request again, or return an error for one that was written.)            *)
SendTruthful ==
  \A s \in Sender :
    /\ at[s] = "ok" => copies[s] >= 1
    /\ s \notin done => copies[s] <= 1
    /\ at[s] = "failed" /\ s \notin done => copies[s] = 0

(* The frames of a relay are handled in the order they were read, none     *)
(* twice, across any number of connections; a reconnection may lose some.  *)
HandledInOrder ==
  \A r \in Relay : \A i, j \in DOMAIN handled[r] :
    i < j => handled[r][i] < handled[r][j]

(* A broken connection is made again: no hand-over between loop, reader,   *)
(* process and senders is a deadlock, unless the context of the peer has   *)
(* ended, the program has panicked, or process has returned after a frame  *)
(* it could not decode.                                                    *)
Heals ==
  \A r \in Relay :
    r \in broken ~> (r \notin broken /\ pc[r] = "select") \/ canceled \/ panicked
                    \/ process = "returned"

(* send returns, with no deadline on its context, whatever connections do. *)
SendReturns ==
  \A s \in Sender : at[s] = "choose" ~> at[s] \in {"ok", "failed"} \/ panicked

(* Neither a connection nor a sender waits for ever. *)
NoneStuck == Heals /\ SendReturns

(* NewPeer's comment: the peer "tries to reconnect if the connection       *)
(* broke", and "you can close the connection by canceling the passed       *)
(* context": neither ends the program.                                     *)
Survives == ~panicked
=============================================================================
