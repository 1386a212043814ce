------------------------ MODULE RelayConnectionProofs ------------------------
(* Theorems about RelayConnection, for any relays and senders.             *)
EXTENDS RelayConnection, FiniteSetTheorems, SequenceTheorems, TLAPS

LEMMA AttemptsType == Attempts \in Nat
  BY RelayAssumption, FS_CardinalityType DEF Attempts

(* TypeOK, in the groups of variables that actions leave alone together.   *)
Ends ==
  /\ canceled \in BOOLEAN /\ panicked \in BOOLEAN /\ closed \subseteq Relay \cup {Output}
Conns ==
  /\ pc \in [Relay -> Step]
  /\ item \in [Relay -> (Sender \X (1..Attempts)) \cup {None}]
  /\ data \in [Relay -> (1..MaxFrames) \cup {None}]
  /\ last \subseteq Relay /\ open \subseteq Relay /\ local \subseteq Relay
  /\ broken \subseteq Relay /\ breaks \in 0..MaxBreaks
Reading ==
  /\ reader \in [Relay -> {"none", "read", "hand", "done"}]
  /\ frame \in [Relay -> (1..MaxFrames) \cup {None}]
  /\ arrived \in [Relay -> 0..MaxFrames]
Processing == process \in {"select", "returned"} /\ handled \in [Relay -> Seq(1..MaxFrames)]
Sending ==
  /\ at \in [Sender -> {"idle", "choose", "offer", "await", "ok", "failed"}]
  /\ via \in [Sender -> Relay \cup {None}]
  /\ tries \in [Sender -> 0..Attempts]
  /\ done \subseteq Sender
  /\ copies \in [Sender -> Nat]

LEMMA TypeSplit == TypeOK <=> Ends /\ Conns /\ Reading /\ Processing /\ Sending
  BY DEF TypeOK, Ends, Conns, Reading, Processing, Sending

(* Where the frames of a relay are: handled, then in loop's hand, then in  *)
(* the reader's, each read after the ones before.                          *)
FramesOf(r) ==
  /\ reader[r] = "hand" => frame[r] = arrived[r] /\ arrived[r] >= 1
  /\ pc[r] = "forward" =>
       /\ data[r] \in 1..arrived[r]
       /\ reader[r] = "hand" => data[r] < arrived[r]
  /\ \A i \in DOMAIN handled[r] :
       /\ handled[r][i] <= arrived[r]
       /\ pc[r] = "forward" => handled[r][i] < data[r]
       /\ reader[r] = "hand" => handled[r][i] < arrived[r]
Frames == \A r \in Relay : FramesOf(r)

(* What loop has in hand, and what the sender knows.  An attempt whose     *)
(* sender's context lives is awaited by it; a write it has not been told   *)
(* of is the one that loop is about to report.                             *)
Busy(r) == pc[r] \in {"write", "replyOk", "replyErr"}
InHand ==
  \A r \in Relay :
    /\ Busy(r) => item[r] \in Sender \X (1..Attempts)
    /\ pc[r] = "replyOk" => copies[item[r][1]] >= 1
    /\ Busy(r) /\ item[r][1] \notin done =>
         Awaited(r) /\ via[item[r][1]] = r
Told ==
  \A s \in Sender \ done :
    IF at[s] = "await"
      THEN via[s] \in Relay /\ Busy(via[s]) /\ item[via[s]][1] = s
           /\ copies[s] = IF pc[via[s]] = "replyOk" THEN 1 ELSE 0
      ELSE copies[s] = IF at[s] = "ok" THEN 1 ELSE 0
Answered == \A s \in Sender : at[s] = "ok" => copies[s] >= 1
AllDone == canceled => done = Sender
Offered == \A s \in Sender : at[s] = "offer" => tries[s] >= 1


Ordered == Frames /\ HandledInOrder
Truthful == InHand /\ Told /\ Answered /\ AllDone /\ Offered
IInv == TypeOK /\ Ordered /\ Truthful

LEMMA InitIInv == Init => IInv
<1> SUFFICES ASSUME Init PROVE IInv OBVIOUS
<1>1. TypeOK
  <2>1. Ends BY DEF Init, Ends
  <2>2. Conns BY BoundsAssumption DEF Init, Conns, Step
  <2>3. Reading BY BoundsAssumption DEF Init, Reading
  <2>4. Processing
    <3>1. <<>> \in Seq(1..MaxFrames) OBVIOUS
    <3> QED BY <3>1 DEF Init, Processing
  <2>5. Sending BY AttemptsType DEF Init, Sending
  <2> QED BY <2>1, <2>2, <2>3, <2>4, <2>5, TypeSplit
<1>2. Ordered BY DEF Init, Ordered, Frames, FramesOf, HandledInOrder
<1>3. Truthful BY DEF Init, Truthful, InHand, Told, Answered, AllDone, Offered, Busy
<1> QED BY <1>1, <1>2, <1>3 DEF IInv

(***************************************************************************)
(* What most steps leave alone.                                            *)
(***************************************************************************)

(* A loop that takes no frame in hand, its reader doing nothing. *)
LEMMA OrderedKept ==
  ASSUME TypeOK, Ordered, NEW r \in Relay, NEW to \in Step \ {"forward"},
         pc' = [pc EXCEPT ![r] = to], UNCHANGED <<data, reading, handled>>
  PROVE  Ordered'
<1>1. \A q \in Relay : pc'[q] = "forward" => pc[q] = "forward" BY DEF TypeOK
<1>2. UNCHANGED <<data, reader, frame, arrived, handled>> BY DEF reading
<1>3. Frames' BY <1>1, <1>2 DEF Ordered, Frames, FramesOf
<1>4. HandledInOrder' BY <1>2 DEF Ordered, HandledInOrder
<1> QED BY <1>3, <1>4 DEF Ordered

(* No loop, no sender: what becomes of the frames does not matter.         *)
LEMMA TruthfulKept ==
  ASSUME TypeOK, Truthful, NEW r \in Relay, NEW to \in Step, ~Busy(r),
         to \notin {"write", "replyOk", "replyErr"},
         pc' = [pc EXCEPT ![r] = to],
         item' = item \/ item' = [item EXCEPT ![r] = None],
         UNCHANGED <<canceled, sending>>
  PROVE  Truthful'
<1>1. \A q \in Relay : /\ Busy(q)' <=> Busy(q)
                       /\ Busy(q) => pc'[q] = pc[q] /\ item'[q] = item[q]
  BY DEF TypeOK, Busy
<1>2. \A q \in Relay : pc[q] = "replyOk" \/ pc'[q] = "replyOk" => Busy(q) BY <1>1 DEF Busy
<1>3. UNCHANGED <<canceled, at, via, tries, done, copies>> BY DEF sending
<1>4. InHand' BY <1>1, <1>2, <1>3 DEF Truthful, InHand, Awaited
<1>5. Told'
  <2> SUFFICES ASSUME NEW s \in Sender \ done, at[s] = "await"
               PROVE  /\ via[s] \in Relay /\ Busy(via[s])' /\ item'[via[s]][1] = s
                      /\ copies[s] = IF pc'[via[s]] = "replyOk" THEN 1 ELSE 0
    BY <1>3 DEF Truthful, Told
  <2>1. /\ via[s] \in Relay /\ Busy(via[s]) /\ item[via[s]][1] = s
        /\ copies[s] = IF pc[via[s]] = "replyOk" THEN 1 ELSE 0
    BY DEF Truthful, Told
  <2> QED BY <2>1, <1>1, <1>3
<1>6. Answered' /\ AllDone' /\ Offered' BY <1>3 DEF Truthful, Answered, AllDone, Offered
<1> QED BY <1>4, <1>5, <1>6 DEF Truthful

LEMMA TruthfulUnchanged ==
  ASSUME Truthful, UNCHANGED <<canceled, pc, item, sending>> PROVE Truthful'
  BY DEF Truthful, InHand, Told, Answered, AllDone, Offered, Busy, Awaited, sending

LEMMA OrderedUnchanged ==
  ASSUME Ordered, UNCHANGED <<pc, data, reading, handled>> PROVE Ordered'
  BY DEF Ordered, Frames, FramesOf, HandledInOrder, reading

(***************************************************************************)
(* One lemma per group of operations.                                      *)
(***************************************************************************)

Elsewhere == {"dial", "select", "close", "cancel", "disconnect", "sleep", "closeWriter",
              "closeOutput", "ended"}

(* A step of loop that hands nothing over.                                 *)
LEMMA MoveStep ==
  ASSUME IInv, NEW r \in Relay, NEW from \in Elsewhere, NEW to \in Elsewhere, Goto(r, from, to),
         item' = item \/ item' = [item EXCEPT ![r] = None],
         last' \subseteq Relay, open' \subseteq Relay, local' \subseteq Relay,
         broken' \subseteq Relay, closed' \subseteq Relay \cup {Output}, panicked' \in BOOLEAN,
         UNCHANGED <<canceled, data, breaks, reading, processing, sending>>
  PROVE  IInv'
<1>1. ~Busy(r) BY DEF Elsewhere, Goto, Busy
<1>2. to \in Step /\ to \notin {"forward", "write", "replyOk", "replyErr"} BY DEF Elsewhere, Step
<1>3. pc' = [pc EXCEPT ![r] = to] BY DEF Goto
<1>4. TypeOK'
  <2>1. Ends' /\ Reading' /\ Processing' /\ Sending'
    BY TypeSplit DEF IInv, Ends, Reading, Processing, Sending, reading, processing, sending
  <2>2. Conns' BY <1>2, <1>3, TypeSplit DEF IInv, Conns
  <2> QED BY <2>1, <2>2 DEF TypeOK, Ends, Conns, Reading, Processing, Sending
<1>5. Ordered' BY <1>2, <1>3, OrderedKept DEF IInv, processing
<1>6. Truthful' BY <1>1, <1>2, <1>3, TruthfulKept DEF IInv
<1> QED BY <1>4, <1>5, <1>6 DEF IInv

LEMMA LoopMoves ==
  ASSUME IInv, NEW r \in Relay,
         \/ DialFails(r) \/ Wakes(r) \/ CloseWriter(r) \/ CloseOutput(r)
         \/ SeesCancel(r) \/ SeesLocal(r) \/ PingFails(r)
         \/ CloseOutputCh(r) \/ CancelLocal(r) \/ Disconnect(r)
  PROVE  IInv'
<1> USE MoveStep DEF IInv, TypeOK, Elsewhere
<1>1. CASE DialFails(r) BY <1>1 DEF DialFails
<1>2. CASE Wakes(r) BY <1>2 DEF Wakes
<1>3. CASE CloseWriter(r) BY <1>3 DEF CloseWriter, Panic
<1>4. CASE CloseOutput(r) BY <1>4 DEF CloseOutput, Panic
<1>5. CASE SeesCancel(r) \/ SeesLocal(r) \/ PingFails(r)
  BY <1>5 DEF SeesCancel, SeesLocal, PingFails, Return
<1>6. CASE CloseOutputCh(r) BY <1>6 DEF CloseOutputCh, Panic
<1>7. CASE CancelLocal(r) BY <1>7 DEF CancelLocal
<1>8. CASE Disconnect(r) BY <1>8 DEF Disconnect
<1> QED BY <1>1, <1>2, <1>3, <1>4, <1>5, <1>6, <1>7, <1>8

(***************************************************************************)
(* The frames.                                                             *)
(***************************************************************************)

LEMMA DialStep == ASSUME IInv, NEW r \in Relay, Dial(r) PROVE IInv'
<1>1. TypeOK' BY DEF IInv, TypeOK, Dial, Goto, Step, processing, sending
<1>2. Ordered'
  BY DEF IInv, TypeOK, Ordered, Frames, FramesOf, HandledInOrder, Dial, Goto, processing
<1>3. Truthful'
  BY TruthfulKept DEF IInv, Dial, Goto, Busy, Step
<1> QED BY <1>1, <1>2, <1>3 DEF IInv

LEMMA TakesFrameStep == ASSUME IInv, NEW r \in Relay, TakesFrame(r) PROVE IInv'
<1>1. TypeOK' BY DEF IInv, TypeOK, TakesFrame, Goto, Step, processing, sending
<1>2. Ordered'
  <2>1. frame[r] = arrived[r] /\ frame[r] \in 1..arrived[r]
    BY BoundsAssumption DEF IInv, TypeOK, Ordered, Frames, FramesOf, TakesFrame
  <2> QED BY <2>1 DEF IInv, TypeOK, Ordered, Frames, FramesOf, HandledInOrder, TakesFrame, Goto,
                      processing
<1>3. Truthful' BY TruthfulKept DEF IInv, TakesFrame, Goto, Busy, Step
<1> QED BY <1>1, <1>2, <1>3 DEF IInv

LEMMA ForwardStep == ASSUME IInv, NEW r \in Relay, Forward(r) PROVE IInv'
<1>1. data[r] \in 1..arrived[r] /\ data[r] \in 1..MaxFrames
  BY BoundsAssumption DEF IInv, TypeOK, Ordered, Frames, FramesOf, Forward, Goto
<1>2. TypeOK'
  <2>1. Append(handled[r], data[r]) \in Seq(1..MaxFrames)
    <3>1. handled[r] \in Seq(1..MaxFrames) BY DEF IInv, TypeOK
    <3> QED BY <1>1, <3>1
  <2>2. handled' \in [Relay -> Seq(1..MaxFrames)]
    BY <2>1 DEF IInv, TypeOK, Forward
  <2> QED BY <2>2 DEF IInv, TypeOK, Forward, Goto, Step, sending, reading
<1>3. Ordered'
  <2>1. CASE UNCHANGED handled
    BY <2>1 DEF IInv, TypeOK, Ordered, Frames, FramesOf, HandledInOrder, Forward, Goto, reading
  <2>2. CASE handled' = [handled EXCEPT ![r] = Append(@, data[r])]
    <3>1. handled'[r] = Append(handled[r], data[r]) /\ handled[r] \in Seq(1..MaxFrames)
      BY <2>2 DEF IInv, TypeOK
    <3>2. \A i \in DOMAIN handled[r] : handled[r][i] < data[r]
      BY DEF IInv, Ordered, Frames, FramesOf, Forward, Goto
    <3>3. \A q \in Relay \ {r} : handled'[q] = handled[q] BY <2>2 DEF IInv, TypeOK
    <3>4. pc' = [pc EXCEPT ![r] = "select"] /\ UNCHANGED <<reader, frame, arrived>>
      BY DEF Forward, Goto, reading
    <3>5. \A i \in DOMAIN handled'[r] :
            IF i = Len(handled[r]) + 1 THEN handled'[r][i] = data[r]
            ELSE i \in DOMAIN handled[r] /\ handled'[r][i] = handled[r][i]
      BY <3>1, <1>1
    <3>6. FramesOf(r)'
      <4>1. reader[r] = "hand" => data[r] < arrived[r]
        BY DEF IInv, Ordered, Frames, FramesOf, Forward, Goto
      <4>2. pc'[r] = "select" BY <3>4 DEF IInv, TypeOK
      <4>3. ASSUME NEW i \in DOMAIN handled'[r]
            PROVE  /\ handled'[r][i] <= arrived[r]
                   /\ reader[r] = "hand" => handled'[r][i] < arrived[r]
        <5>1. CASE i = Len(handled[r]) + 1
          BY <5>1, <4>1, <3>5, <1>1 DEF IInv, TypeOK
        <5>2. CASE i # Len(handled[r]) + 1
          BY <5>2, <3>5 DEF IInv, Ordered, Frames, FramesOf
        <5> QED BY <5>1, <5>2
      <4> QED BY <4>2, <4>3, <3>4 DEF IInv, Ordered, Frames, FramesOf
    <3>7. \A i, j \in DOMAIN handled'[r] : i < j => handled'[r][i] < handled'[r][j]
      BY <3>1, <3>2, <3>5 DEF IInv, Ordered, HandledInOrder
    <3>8. \A q \in Relay \ {r} : FramesOf(q)'
      BY <3>3, <3>4 DEF IInv, TypeOK, Ordered, Frames, FramesOf, Forward
    <3> QED BY <3>3, <3>6, <3>7, <3>8 DEF IInv, Ordered, Frames, HandledInOrder
  <2> QED BY <2>1, <2>2 DEF Forward
<1>4. Truthful' BY TruthfulKept DEF IInv, Forward, Goto, Busy, Step
<1> QED BY <1>2, <1>3, <1>4 DEF IInv

LEMMA ForwardPanicsStep == ASSUME IInv, NEW r \in Relay, ForwardPanics(r) PROVE IInv'
<1>1. TypeOK' BY DEF IInv, TypeOK, ForwardPanics, Panic, Goto, Step, reading, processing, sending
<1>2. Ordered' BY OrderedKept DEF IInv, ForwardPanics, Goto, Step, processing
<1>3. Truthful' BY TruthfulKept DEF IInv, ForwardPanics, Goto, Busy, Step
<1> QED BY <1>1, <1>2, <1>3 DEF IInv

LEMMA ElementsType ==
  ASSUME NEW s \in Seq(1..MaxFrames) PROVE \A i \in DOMAIN s : s[i] \in Nat
<1>1. DOMAIN s = 1..Len(s) BY LenProperties
<1>2. \A i \in 1..Len(s) : s[i] \in 1..MaxFrames BY ElementOfSeq
<1> QED BY <1>1, <1>2

LEMMA ReadStep == ASSUME IInv, NEW r \in Relay, ReaderStep(r) PROVE IInv'
<1>1. CASE ReadMessage(r)
  <2>1. arrived[r] \in Nat /\ arrived'[r] = arrived[r] + 1 /\ arrived'[r] \in 1..MaxFrames
    BY <1>1, BoundsAssumption DEF IInv, TypeOK, ReadMessage
  <2>2. TypeOK' BY <1>1, <2>1 DEF IInv, TypeOK, ReadMessage, conns, processing, sending
  <2>3. Ordered'
    <3>1. \A i \in DOMAIN handled[r] : handled[r][i] \in Nat
      <4>1. handled[r] \in Seq(1..MaxFrames) BY DEF IInv, TypeOK
      <4> QED BY <4>1, ElementsType
    <3>2. UNCHANGED <<pc, data, handled>> BY <1>1 DEF ReadMessage, conns, processing
    <3>3. /\ frame'[r] = arrived'[r] /\ reader'[r] = "hand" /\ reader[r] = "read"
          /\ \A q \in Relay \ {r} : frame'[q] = frame[q] /\ arrived'[q] = arrived[q]
                                   /\ reader'[q] = reader[q]
      BY <1>1 DEF ReadMessage, IInv, TypeOK
    <3>4. FramesOf(r)'
      <4>1. FramesOf(r) BY DEF IInv, Ordered, Frames
      <4> QED BY <2>1, <3>1, <3>2, <3>3, <4>1 DEF FramesOf
    <3>5. \A q \in Relay \ {r} : FramesOf(q)'
      BY <3>2, <3>3 DEF IInv, Ordered, Frames, FramesOf
    <3> QED BY <3>2, <3>4, <3>5 DEF IInv, Ordered, Frames, HandledInOrder
  <2>4. Truthful' BY <1>1, TruthfulUnchanged DEF IInv, ReadMessage, conns
  <2> QED BY <2>2, <2>3, <2>4 DEF IInv
<1>2. CASE ReadFails(r) \/ ReaderStops(r)
  <2>1. TypeOK'
    BY <1>2 DEF IInv, TypeOK, ReadFails, ReaderStops, conns, processing, sending
  <2>2. Ordered'
    BY <1>2 DEF IInv, TypeOK, Ordered, Frames, FramesOf, HandledInOrder, ReadFails, ReaderStops,
                conns, processing
  <2>3. Truthful' BY <1>2, TruthfulUnchanged DEF IInv, ReadFails, ReaderStops, conns
  <2> QED BY <2>1, <2>2, <2>3 DEF IInv
<1>3. CASE ReaderPanics(r)
  <2>1. TypeOK'
    BY <1>3 DEF IInv, TypeOK, ReaderPanics, Panic, conns, reading, processing, sending
  <2> QED BY <1>3, <2>1, OrderedUnchanged, TruthfulUnchanged
          DEF IInv, ReaderPanics, conns, processing
<1> QED BY <1>1, <1>2, <1>3 DEF ReaderStep

(***************************************************************************)
(* The attempts.                                                           *)
(***************************************************************************)

(* A sender whose context lives and that does not wait for an answer is    *)
(* in no loop's hand.                                                      *)
LEMMA NotInHand ==
  ASSUME Truthful, NEW s \in Sender \ done, at[s] # "await", NEW q \in Relay, Busy(q)
  PROVE  item[q][1] # s
  BY DEF Truthful, InHand, Awaited

(* What loop has in hand is an attempt of a sender.                        *)
LEMMA ItemType ==
  ASSUME TypeOK, Truthful, NEW q \in Relay, Busy(q)
  PROVE  item[q][1] \in Sender /\ item[q][2] \in 1..Attempts /\ item[q] \in Sender \X (1..Attempts)
<1>1. item[q] \in Sender \X (1..Attempts) BY DEF TypeOK, Truthful, InHand
<1> QED BY <1>1

LEMMA AcceptStep == ASSUME IInv, NEW r \in Relay, NEW s \in Sender, Accept(r, s) PROVE IInv'
<1>1. <<s, tries[s]>> \in Sender \X (1..Attempts)
  BY AttemptsType DEF IInv, TypeOK, Truthful, Offered, Accept
<1>2. TypeOK' BY <1>1 DEF IInv, TypeOK, Accept, Goto, Step, reading, processing
<1>3. Ordered' BY OrderedKept DEF IInv, Accept, Goto, Step, processing
<1>4. /\ \A q \in Relay \ {r} : pc'[q] = pc[q] /\ item'[q] = item[q]
      /\ pc'[r] = "write" /\ item'[r] = <<s, tries[s]>> /\ pc[r] = "select"
      /\ \A t \in Sender \ {s} : at'[t] = at[t]
      /\ at'[s] = "await" /\ at[s] = "offer" /\ via[s] = r
      /\ UNCHANGED <<canceled, via, tries, done, copies>>
  BY DEF IInv, TypeOK, Accept, Goto
<1>5. \A q \in Relay : IF q = r THEN Busy(q)' /\ ~Busy(q) ELSE Busy(q)' <=> Busy(q)
  BY <1>4 DEF Busy
<1>6. InHand'
  <2>1. ASSUME NEW q \in Relay \ {r}, Busy(q), item[q][1] \notin done
        PROVE  Awaited(q)' /\ via[item[q][1]] = q
    BY <2>1, <1>4, NotInHand, ItemType DEF IInv, Truthful, InHand, Awaited
  <2>2. Awaited(r)' /\ via[item'[r][1]] = r BY <1>4 DEF Awaited
  <2> QED BY <1>1, <1>4, <1>5, <2>1, <2>2 DEF IInv, Truthful, InHand
<1>7. Told'
  <2>1. ASSUME NEW t \in Sender \ done, t # s, at[t] = "await" PROVE via[t] # r
    BY <2>1, <1>4, <1>5 DEF IInv, Truthful, Told
  <2>2. s \notin done => copies[s] = 0 BY <1>4 DEF IInv, Truthful, Told
  <2>3. item'[r][1] = s BY <1>4
  <2> QED BY <1>4, <1>5, <2>1, <2>2, <2>3 DEF IInv, Truthful, Told
<1>8. (Answered /\ AllDone /\ Offered)'
  BY <1>4 DEF IInv, Truthful, Answered, AllDone, Offered
<1> QED BY <1>2, <1>3, <1>6, <1>7, <1>8 DEF IInv, Truthful

LEMMA WriteStep == ASSUME IInv, NEW r \in Relay, WriteMessage(r) PROVE IInv'
<1> DEFINE s == item[r][1]
<1>1. s \in Sender /\ copies[s] \in Nat /\ Busy(r) /\ pc[r] = "write"
  BY ItemType DEF IInv, TypeOK, WriteMessage, Goto, Busy
<1>2. CASE Goto(r, "write", "replyOk") /\ copies' = [copies EXCEPT ![s] = @ + 1]
           /\ UNCHANGED <<canceled, panicked, closed, item, data, last, open, local, broken,
                          breaks, reading, processing, at, via, tries, done>>
  <2>1. TypeOK' BY <1>1, <1>2 DEF IInv, TypeOK, Goto, Step, reading, processing
  <2>2. Ordered' BY <1>2, OrderedKept DEF IInv, Goto, Step, processing
  <2>3. /\ \A q \in Relay \ {r} : pc'[q] = pc[q]
        /\ pc'[r] = "replyOk" /\ copies'[s] = copies[s] + 1
        /\ \A t \in Sender \ {s} : copies'[t] = copies[t]
        /\ \A t \in Sender : copies[t] \in Nat
    BY <1>1, <1>2 DEF IInv, TypeOK, Goto
  <2>4. \A q \in Relay : Busy(q)' <=> Busy(q) BY <1>1, <2>3 DEF Busy
  <2> HIDE DEF s
  <2>5. InHand'
    <3>1. \A q \in Relay : Busy(q) => item[q][1] \in Sender BY ItemType DEF IInv
    <3>2. \A q \in Relay : pc'[q] = "replyOk" => Busy(q) BY <2>4 DEF Busy
    <3>3. ASSUME NEW q \in Relay, pc'[q] = "replyOk" PROVE copies'[item[q][1]] >= 1
      <4>1. CASE q = r BY <4>1, <1>1, <2>3 DEF s
      <4>2. CASE q # r
        <5>1. copies[item[q][1]] >= 1 /\ item[q][1] \in Sender
          BY <4>2, <3>1, <3>2, <3>3, <2>3 DEF IInv, Truthful, InHand
        <5> QED BY <5>1, <1>1, <2>3
      <4> QED BY <4>1, <4>2
    <3> QED BY <1>2, <2>4, <3>3 DEF IInv, Truthful, InHand, Awaited
  <2>6. Told'
    <3>1. s \notin done => at[s] = "await" /\ via[s] = r /\ copies[s] = 0
      BY <1>1 DEF IInv, Truthful, InHand, Told, Awaited, s
    <3>2. \A t \in Sender \ done : at[t] = "await" /\ t # s => via[t] # r
      BY DEF IInv, Truthful, Told, s
    <3> QED BY <1>1, <1>2, <2>3, <2>4, <3>1, <3>2 DEF IInv, Truthful, Told, s
  <2>7. (Answered /\ AllDone /\ Offered)'
    BY <1>1, <1>2, <2>3 DEF IInv, Truthful, Answered, AllDone, Offered
  <2> QED BY <2>1, <2>2, <2>5, <2>6, <2>7 DEF IInv, Truthful
<1>3. CASE Goto(r, "write", "replyErr")
           /\ UNCHANGED <<canceled, panicked, closed, item, data, last, open, local, broken,
                          breaks, reading, processing, sending>>
  <2>1. TypeOK' BY <1>3 DEF IInv, TypeOK, Goto, Step, reading, processing, sending
  <2>2. Ordered' BY <1>3, OrderedKept DEF IInv, Goto, Step, processing
  <2>3. \A q \in Relay : (Busy(q)' <=> Busy(q)) /\ (pc'[q] = "replyOk" <=> pc[q] = "replyOk")
    BY <1>3 DEF IInv, TypeOK, Goto, Busy
  <2>4. InHand' /\ Told' BY <1>3, <2>3 DEF IInv, Truthful, InHand, Told, Awaited, sending
  <2>5. (Answered /\ AllDone /\ Offered)'
    BY <1>3 DEF IInv, Truthful, Answered, AllDone, Offered, sending
  <2> QED BY <2>1, <2>2, <2>4, <2>5 DEF IInv, Truthful
<1> QED BY <1>2, <1>3 DEF WriteMessage

(* A loop whose write the sender hears of, or no longer asks about.        *)
LEMMA ReplyStep ==
  ASSUME IInv, NEW r \in Relay,
         ReplyOk(r) \/ ReplyErr(r) \/ ReplyGone(r) \/ ReplyCanceled(r)
  PROVE  IInv'
<1> DEFINE s == item[r][1]
<1>1. Busy(r) /\ s \in Sender /\ pc[r] # "forward"
  BY ItemType DEF IInv, ReplyOk, ReplyErr, ReplyGone, ReplyCanceled, Goto, Busy
<1>2. PICK to \in {"select", "close"} : pc' = [pc EXCEPT ![r] = to]
  BY DEF ReplyOk, ReplyErr, ReplyGone, ReplyCanceled, Goto
<1>3. /\ item' = [item EXCEPT ![r] = None]
      /\ UNCHANGED <<canceled, panicked, closed, data, open, local, broken, breaks, reading,
                     processing, via, tries, done, copies>>
      /\ last' \subseteq Relay
  BY DEF IInv, TypeOK, ReplyOk, ReplyErr, ReplyGone, ReplyCanceled, Return, sending
<1>4. CASE \/ Awaited(r) /\ pc[r] = "replyOk" /\ at' = [at EXCEPT ![s] = "ok"]
           \/ Awaited(r) /\ pc[r] = "replyErr" /\ at' = [at EXCEPT ![s] = "choose"]
           \/ ~Awaited(r) /\ at' = at
           \/ canceled /\ at' = at
  <2>1. TypeOK' BY <1>1, <1>2, <1>3, <1>4 DEF IInv, TypeOK, Step, reading, processing
  <2>2. Ordered' BY <1>2, <1>3, OrderedKept DEF IInv, Step, processing
  <2>3. /\ \A q \in Relay : IF q = r THEN ~Busy(q)'
                            ELSE (Busy(q)' <=> Busy(q)) /\ pc'[q] = pc[q] /\ item'[q] = item[q]
        /\ \A t \in Sender \ {s} : at'[t] = at[t]
        /\ Awaited(r) /\ ~canceled => at'[s] = IF pc[r] = "replyOk" THEN "ok" ELSE "choose"
        /\ ~Awaited(r) => UNCHANGED at \/ canceled
    BY <1>1, <1>2, <1>3, <1>4 DEF IInv, TypeOK, Busy
  <2>4. s \notin done => Awaited(r) /\ at[s] = "await" /\ via[s] = r /\ ~canceled
    BY <1>1 DEF IInv, Truthful, InHand, AllDone, Awaited
  <2>5. \A t \in Sender \ done : t # s /\ at[t] = "await" => via[t] # r
    BY DEF IInv, Truthful, Told
  <2>6. s \notin done => at'[s] \in {"ok", "choose"}
                        /\ copies[s] = IF at'[s] = "ok" THEN 1 ELSE 0
    BY <1>1, <2>3, <2>4 DEF IInv, Truthful, Told
  <2>7. at'[s] = "ok" => copies[s] >= 1
    BY <1>1, <1>4, <2>3 DEF IInv, TypeOK, Truthful, InHand, Answered
  <2> HIDE DEF s
  <2>8. InHand'
    <3>1. ASSUME NEW q \in Relay \ {r}, Busy(q), item[q][1] \notin done
          PROVE  Awaited(q)' /\ via[item[q][1]] = q
      <4>1. Awaited(q) /\ via[item[q][1]] = q BY <3>1 DEF IInv, Truthful, InHand
      <4>2. item[q][1] # s /\ item[q][1] \in Sender BY <3>1, <4>1, <2>4, ItemType DEF IInv
      <4> QED BY <4>1, <4>2, <2>3, <1>3 DEF Awaited
    <3>2. \A q \in Relay : pc'[q] = "replyOk" => q # r /\ Busy(q)
      BY <2>3 DEF Busy
    <3> QED BY <1>3, <2>3, <3>1, <3>2 DEF IInv, Truthful, InHand
  <2>9. Told'
    <3> SUFFICES ASSUME NEW t \in Sender \ done
                 PROVE  IF at'[t] = "await"
                          THEN via[t] \in Relay /\ Busy(via[t])' /\ item'[via[t]][1] = t
                               /\ copies[t] = IF pc'[via[t]] = "replyOk" THEN 1 ELSE 0
                          ELSE copies[t] = IF at'[t] = "ok" THEN 1 ELSE 0
      BY <1>3 DEF Told
    <3>1. CASE t = s BY <3>1, <2>6
    <3>2. CASE t # s BY <3>2, <1>3, <2>3, <2>5 DEF IInv, Truthful, Told
    <3> QED BY <3>1, <3>2
  <2>10. (Answered /\ AllDone /\ Offered)'
    <3>1. \A t \in Sender : at'[t] = "offer" => at[t] = "offer" BY <1>4 DEF IInv, TypeOK
    <3>2. Answered' BY <1>3, <2>3, <2>7 DEF IInv, Truthful, Answered
    <3> QED BY <1>3, <3>1, <3>2 DEF IInv, Truthful, AllDone, Offered
  <2> QED BY <2>1, <2>2, <2>8, <2>9, <2>10 DEF IInv, Truthful
<1> QED BY <1>4 DEF ReplyOk, ReplyErr, ReplyGone, ReplyCanceled, Goto, sending

(* Where a sender goes when it is not in a loop's hand, its context being  *)
(* done or not.                                                            *)
LEMMA SenderStep ==
  ASSUME IInv, NEW s \in Sender,
         at[s] # "await" \/ s \in done,
         NEW to \in {"choose", "offer", "failed"}, at' = [at EXCEPT ![s] = to],
         at[s] # "ok",
         NEW v \in Relay \cup {None}, via' = [via EXCEPT ![s] = v],
         NEW k \in 0..Attempts, tries' = [tries EXCEPT ![s] = k], to = "offer" => k >= 1,
         UNCHANGED <<canceled, panicked, closed, conns, reading, processing, done, copies>>
  PROVE  IInv'
<1>1. TypeOK' BY DEF IInv, TypeOK, conns, reading, processing
<1>2. Ordered' BY OrderedUnchanged DEF IInv, conns, processing
<1>3. /\ \A q \in Relay : Busy(q)' <=> Busy(q)
      /\ \A t \in Sender \ {s} : at'[t] = at[t] /\ via'[t] = via[t] /\ tries'[t] = tries[t]
      /\ at'[s] = to /\ tries'[s] = k
      /\ UNCHANGED <<canceled, pc, item, done, copies>>
  BY DEF IInv, TypeOK, conns, Busy
<1>4. \A q \in Relay : Busy(q) /\ item[q][1] \notin done => item[q][1] \in Sender \ {s}
  BY NotInHand, ItemType DEF IInv
<1>5. InHand' BY <1>3, <1>4 DEF IInv, Truthful, InHand, Awaited
<1>6. Told' BY <1>3 DEF IInv, Truthful, Told
<1>7. (Answered /\ AllDone /\ Offered)'
  BY <1>3 DEF IInv, Truthful, Answered, AllDone, Offered
<1> QED BY <1>1, <1>2, <1>5, <1>6, <1>7 DEF IInv, Truthful

LEMMA SendingStep ==
  ASSUME IInv, NEW s \in Sender, Send(s) \/ SendStep(s) PROVE IInv'
<1>1. /\ at \in [Sender -> {"idle", "choose", "offer", "await", "ok", "failed"}]
      /\ via \in [Sender -> Relay \cup {None}] /\ tries \in [Sender -> 0..Attempts]
  BY DEF IInv, TypeOK
<1>2. /\ via = [via EXCEPT ![s] = via[s]] /\ via[s] \in Relay \cup {None}
      /\ tries = [tries EXCEPT ![s] = tries[s]] /\ tries[s] \in 0..Attempts
  BY <1>1
<1>3. CASE Send(s) \/ GivesUp(s) \/ TimesOut(s) \/ ContextDone(s)
  BY <1>2, <1>3, SenderStep DEF Send, GivesUp, TimesOut, ContextDone
<1>4. ASSUME NEW r \in Relay, Choose(s, r) PROVE IInv'
  <2>1. tries[s] + 1 \in 0..Attempts /\ tries[s] + 1 >= 1
    BY <1>2, <1>4, AttemptsType DEF Choose
  <2>2. tries' = [tries EXCEPT ![s] = tries[s] + 1] BY <1>4 DEF Choose
  <2> QED BY <1>4, <2>1, <2>2, SenderStep DEF Choose
<1>5. CASE OfferPanics(s)
  <2>1. TypeOK'
    BY <1>5 DEF IInv, TypeOK, OfferPanics, Panic, conns, reading, processing, sending
  <2> QED BY <1>5, <2>1, OrderedUnchanged, TruthfulUnchanged
          DEF IInv, OfferPanics, conns, processing
<1> QED BY <1>3, <1>4, <1>5 DEF SendStep

(***************************************************************************)
(* The environment.                                                        *)
(***************************************************************************)

LEMMA WorldStep ==
  ASSUME IInv,
         \/ ProcessReturns \/ Cancel \/ (\E s \in Sender : DeadlinePasses(s))
         \/ (\E r \in Relay : Breaks(r)) \/ UNCHANGED vars
  PROVE  IInv'
<1>1. CASE Cancel \/ \E s \in Sender : DeadlinePasses(s)
  <2>1. TypeOK' BY <1>1 DEF IInv, TypeOK, Cancel, DeadlinePasses, conns, reading, processing
  <2>2. Ordered' BY <1>1, OrderedUnchanged DEF IInv, Cancel, DeadlinePasses, conns, processing
  <2>3. /\ done \subseteq done' /\ done' \subseteq Sender /\ (canceled' => done' = Sender)
        /\ UNCHANGED <<pc, item, at, via, tries, copies>>
    BY <1>1 DEF IInv, TypeOK, Truthful, AllDone, Cancel, DeadlinePasses, conns
  <2>4. InHand' BY <2>3 DEF IInv, Truthful, InHand, Busy, Awaited
  <2>5. Told' BY <2>3 DEF IInv, Truthful, Told, Busy
  <2>6. (Answered /\ AllDone /\ Offered)' BY <2>3 DEF IInv, Truthful, Answered, AllDone, Offered
  <2> QED BY <2>1, <2>2, <2>4, <2>5, <2>6 DEF IInv, Truthful
<1>2. CASE ProcessReturns \/ (\E r \in Relay : Breaks(r)) \/ UNCHANGED vars
  <2>1. UNCHANGED <<canceled, pc, item, data, reading, handled, sending>>
    BY <1>2 DEF ProcessReturns, Breaks, vars, conns, processing
  <2>2. TypeOK'
    BY <1>2, BoundsAssumption
    DEF IInv, TypeOK, ProcessReturns, Breaks, vars, conns, reading, processing, sending
  <2> QED BY <2>1, <2>2, OrderedUnchanged, TruthfulUnchanged DEF IInv
<1> QED BY <1>1, <1>2

LEMMA NextStep == IInv /\ [Next]_vars => IInv'
<1> SUFFICES ASSUME IInv, [Next]_vars PROVE IInv' OBVIOUS
<1>1. ASSUME NEW r \in Relay, Dial(r) \/ LoopStep(r) \/ ReaderStep(r) PROVE IInv'
  BY <1>1, DialStep, LoopMoves, TakesFrameStep, ForwardStep, ForwardPanicsStep, WriteStep, ReplyStep,
     ReadStep DEF LoopStep
<1>2. ASSUME NEW r \in Relay, NEW s \in Sender, Accept(r, s) PROVE IInv' BY <1>2, AcceptStep
<1> QED BY <1>1, <1>2, SendingStep, WorldStep DEF Next

-----------------------------------------------------------------------------
(* Frames and attempts, in every reachable state.                          *)
THEOREM Invariance == Spec => []IInv
  BY InitIInv, NextStep, PTL DEF Spec

(* Type correctness of the connections, their readers and the senders.     *)
THEOREM TypeCorrect == Spec => []TypeOK
<1>1. IInv => TypeOK BY DEF IInv
<1> QED BY <1>1, Invariance, PTL

(* The frames of a relay are handled in the order they came in, none       *)
(* twice, over any number of connections that break.                       *)
THEOREM FramesInOrder == Spec => []HandledInOrder
<1>1. IInv => HandledInOrder BY DEF IInv, Ordered
<1> QED BY <1>1, Invariance, PTL

(* What send answers is what was written, for any number of relays,        *)
(* senders, attempts, timeouts and broken connections.                     *)
THEOREM SendTellsTruth == Spec => []SendTruthful
<1>1. IInv => SendTruthful
  <2>1. ASSUME IInv, NEW s \in Sender \ done PROVE copies[s] <= 1 /\ (at[s] = "failed" => copies[s] = 0)
    BY <2>1 DEF IInv, Truthful, Told
  <2> QED BY <2>1 DEF IInv, Truthful, Answered, SendTruthful
<1> QED BY <1>1, Invariance, PTL
=============================================================================
