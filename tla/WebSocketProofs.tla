--------------------------- MODULE WebSocketProofs ---------------------------
(***************************************************************************)
(* Proofs about WebSocket, for every number and length of messages, every  *)
(* way of cutting them into frames and every size of the buffers.          *)
(***************************************************************************)
EXTENDS WebSocket, FiniteSetTheorems, SequenceTheorems, TLAPS

\* The connections are there once the handshake has made them.
HelloFirst ==
  /\ hello # <<"done">> => state[Client] = "none"
  /\ hello \notin {<<"answered">>, <<"done">>} => state[Server] = "none"
  /\ \A e \in End : state[e] = "none" => recv_len[e] = 0

\* The frames on the way to an end are as many units as its buffer and its
\* socket hold: ends[i] is where the i-th frame ends.
Units(frames, n) ==
  \E ends \in [0 .. Len(frames) -> Int] :
    /\ ends[0] = 0
    /\ \A i \in 1 .. Len(frames) : ends[i] = ends[i - 1] + Size(frames[i])
    /\ ends[Len(frames)] = n
UnitsOnWire == \A e \in End : Units(wire[e], recv_len[e] + queued[e])

\* No frame says that its connection ended abnormally.
CodesSent == \A e \in End : \A i \in 1 .. Len(wire[e]) : wire[e][i].code # "ABNORMAL"

\* An end that has sent a CLOSE is no longer open and sends only PONGs after it.
CloseLast ==
  \A e \in End : \A i \in 1 .. Len(wire[e]) : wire[e][i].op = "CLOSE" =>
    /\ state[Other(e)] \in {"CLOSING", "CLOSED"}
    /\ \A j \in i + 1 .. Len(wire[e]) : wire[e][j].op = "PONG"

\* A closed connection handles nothing but PONGs: either it has had the CLOSE
\* of the other end, or its next frame never becomes whole.
Stuck(e) == IF wire[e] = <<>> THEN ~alive[Other(e)] ELSE Size(wire[e][1]) > recv_len[e]
HadClose(e) ==
  /\ state[Other(e)] \in {"CLOSING", "CLOSED"}
  /\ \A i \in 1 .. Len(wire[e]) : wire[e][i].op = "PONG"
Deaf == \A e \in End : alive[e] /\ state[e] = "CLOSED" => Stuck(e) \/ HadClose(e)

CloseInv == /\ TypeOK
            /\ HelloFirst
            /\ UnitsOnWire
            /\ CodesSent
            /\ CloseLast
            /\ Deaf
            /\ ClosedOnce

-----------------------------------------------------------------------------
(* The stream of data frames.  Of the messages s of the other end, num[i]  *)
(* have been begun in the first i frames on the wire and in what was       *)
(* handled before them; of the last of these, off[i] units have, or all of *)
(* them when off[i] is 0.                                                  *)

\* A frame takes the stream from k units of message n to l units of message m.
Begins(s, f, n, k, m, l) ==
  /\ f.op \in {"TEXT", "BINARY"}
  /\ k = 0 /\ m = n + 1 /\ m <= Len(s) /\ f.op = s[m].op
  /\ IF f.fin THEN l = 0 /\ f.data = s[m].data
     ELSE l \in 1 .. Len(s[m].data) - 1 /\ f.data = SubSeq(s[m].data, 1, l)
Continues(s, f, n, k, m, l) ==
  /\ f.op = "CONTINUATION"
  /\ n \in 1 .. Len(s) /\ m = n /\ k \in 1 .. Len(s[n].data) - 1
  /\ IF f.fin THEN l = 0 /\ f.data = SubSeq(s[n].data, k + 1, Len(s[n].data))
     ELSE l \in k + 1 .. Len(s[n].data) - 1 /\ f.data = SubSeq(s[n].data, k + 1, l)
Stays(f, n, k, m, l) ==
  f.op \notin {"TEXT", "BINARY", "CONTINUATION"} /\ m = n /\ l = k
Moves(s, f, n, k, m, l) ==
  Begins(s, f, n, k, m, l) \/ Continues(s, f, n, k, m, l) \/ Stays(f, n, k, m, l)

\* Where the stream is for the receiver, which has been given c messages and
\* has b in its fragment_buffer.
Received(s, b, c, n, k) ==
  IF b = <<>> THEN n = c /\ k = 0
  ELSE /\ n = c + 1 /\ n \in 1 .. Len(s)
       /\ k \in 1 .. Len(s[n].data) - 1
       /\ b = <<Message(s[n].op, SubSeq(s[n].data, 1, k))>>

\* Where it is for the sender: at the end of all but p, which it has yet to send.
Written(s, live, p, n, k) ==
  /\ n = Len(s)
  /\ live => IF p = <<>> THEN k = 0
             ELSE /\ n > 0 /\ k \in 1 .. Len(s[n].data) - 1
                  /\ p = SubSeq(s[n].data, k + 1, Len(s[n].data))

Stream(s, w, b, c, live, p) ==
  \E num, off \in [0 .. Len(w) -> Nat] :
    /\ Received(s, b, c, num[0], off[0])
    /\ \A i \in 1 .. Len(w) : Moves(s, w[i], num[i - 1], off[i - 1], num[i], off[i])
    /\ Written(s, live, p, num[Len(w)], off[Len(w)])

StreamTo(e) ==
  Stream(sent[Other(e)], wire[e], fragment[e], Count(events[e], Len(events[e])),
         alive[Other(e)], part[Other(e)])
Flow(e) == Whole(Other(e)) /\ ~starved[e] => InOrder(e) /\ (alive[e] => StreamTo(e))
FlowInv == \A e \in End : Flow(e)

-----------------------------------------------------------------------------
(* Types.                                                                  *)

Frames == [fin : BOOLEAN, op : Ops, data : Seq(Unit), code : Codes]

\* fragment_buffer, there or not.
Buffers == {w \in Seq(Msg) : Len(w) <= 1}

LEMMA OtherEnd ==
  ASSUME NEW e \in End
  PROVE  Other(e) \in End /\ Other(e) # e /\ Other(Other(e)) = e
BY WebSocketAssumption DEF End, Other

\* What a send does to the wire and the socket of the other end.
LEMMA SendTypes ==
  ASSUME TypeOK, NEW e \in End, NEW f \in Frames, ws_send_frame(e, f)
  PROVE  wire' \in [End -> Seq(Frames)] /\ queued' \in [End -> Nat]
<1>1. Other(e) \in End
  BY OtherEnd
<1>2. Size(f) \in Nat
  BY WebSocketAssumption DEF Size, Frames
<1>3. wire \in [End -> Seq(Frames)] /\ queued \in [End -> Nat]
  BY DEF TypeOK, Frames
<1>4. Append(wire[Other(e)], f) \in Seq(Frames) /\ queued[Other(e)] + Size(f) \in Nat
  BY <1>1, <1>2, <1>3, AppendProperties
<1>5. CASE alive[Other(e)]
  BY <1>3, <1>4, <1>5 DEF ws_send_frame
<1>6. CASE ~alive[Other(e)]
  BY <1>3, <1>6 DEF ws_send_frame, netVars
<1> QED
  BY <1>5, <1>6

LEMMA DataType ==
  ASSUME NEW i \in Nat, NEW n \in Nat
  PROVE  Data(i, n) \in Seq(Unit) /\ Len(Data(i, n)) = n /\ Kind(i) \in {"TEXT", "BINARY"}
<1>1. Data(i, n) \in [1 .. n -> Unit]
  BY DEF Data, Unit
<1>2. Data(i, n) \in Seq(Unit)
  BY <1>1, SeqDef
<1>3. Len(Data(i, n)) = n
  BY <1>1, <1>2, LenProperties
<1> QED
  BY <1>2, <1>3 DEF Kind

LEMMA ProgramTypes ==
  ASSUME TypeOK, NEW e \in End, Program(e)
  PROVE  TypeOK'
<1> USE WebSocketAssumption
<1>1. CASE SendMessage(e)
  <2> DEFINE m(n) == Message(Kind(Len(sent[e]) + 1), Data(Len(sent[e]) + 1, n))
  <2>1. PICK n \in Lengths : /\ ws_send_frame(e, Frame(TRUE, m(n).op, m(n).data))
                             /\ sent' = [sent EXCEPT ![e] = Append(@, m(n))]
    BY <1>1 DEF SendMessage
  <2>2. Len(sent[e]) + 1 \in Nat /\ n \in Nat
    BY DEF TypeOK
  <2>3. Data(Len(sent[e]) + 1, n) \in Seq(Unit) /\ Kind(Len(sent[e]) + 1) \in {"TEXT", "BINARY"}
    BY <2>2, DataType
  <2>4. m(n) \in Msg /\ Frame(TRUE, m(n).op, m(n).data) \in Frames
    BY <2>3 DEF Msg, Message, Frame, Frames, Ops, Codes
  <2> HIDE DEF m
  <2>5. wire' \in [End -> Seq(Frames)] /\ queued' \in [End -> Nat]
    BY <2>1, <2>4, SendTypes
  <2>6. sent' \in [End -> Seq(Msg)]
    BY <2>1, <2>4 DEF TypeOK
  <2> QED
    BY <1>1, <2>5, <2>6 DEF SendMessage, TypeOK, connVars, Frames
<1>2. CASE SendFirst(e)
  <2> DEFINE m(n) == Message(Kind(Len(sent[e]) + 1), Data(Len(sent[e]) + 1, n))
  <2>1. PICK n \in Lengths \ {1} : \E k \in 1 .. n - 1 :
               /\ ws_send_frame(e, Frame(FALSE, m(n).op, SubSeq(m(n).data, 1, k)))
               /\ part' = [part EXCEPT ![e] = SubSeq(m(n).data, k + 1, n)]
               /\ sent' = [sent EXCEPT ![e] = Append(@, m(n))]
    BY <1>2 DEF SendFirst
  <2>2. PICK k \in 1 .. n - 1 :
               /\ ws_send_frame(e, Frame(FALSE, m(n).op, SubSeq(m(n).data, 1, k)))
               /\ part' = [part EXCEPT ![e] = SubSeq(m(n).data, k + 1, n)]
               /\ sent' = [sent EXCEPT ![e] = Append(@, m(n))]
    BY <2>1
  <2>3. Len(sent[e]) + 1 \in Nat /\ n \in Nat
    BY DEF TypeOK
  <2>4. /\ Data(Len(sent[e]) + 1, n) \in Seq(Unit) /\ Len(Data(Len(sent[e]) + 1, n)) = n
        /\ Kind(Len(sent[e]) + 1) \in {"TEXT", "BINARY"}
    BY <2>3, DataType
  <2>5. m(n) \in Msg /\ m(n).data \in Seq(Unit) /\ Len(m(n).data) = n
    BY <2>4 DEF Msg, Message
  <2>6. /\ SubSeq(m(n).data, 1, k) \in Seq(Unit)
        /\ SubSeq(m(n).data, k + 1, n) \in Seq(Unit)
    BY <2>3, <2>5, SubSeqProperties
  <2>7. Frame(FALSE, m(n).op, SubSeq(m(n).data, 1, k)) \in Frames
    BY <2>5, <2>6 DEF Msg, Frame, Frames, Ops, Codes
  <2> HIDE DEF m
  <2>8. wire' \in [End -> Seq(Frames)] /\ queued' \in [End -> Nat]
    BY <2>2, <2>7, SendTypes
  <2>9. sent' \in [End -> Seq(Msg)] /\ part' \in [End -> Seq(Unit)]
    BY <2>2, <2>5, <2>6, SMTT(30) DEF TypeOK
  <2> QED
    BY <1>2, <2>8, <2>9 DEF SendFirst, TypeOK, connVars, Frames
<1>3. CASE SendNext(e)
  <2>1. PICK k \in 1 .. Len(part[e]) :
       /\ ws_send_frame(e, Frame(k = Len(part[e]), "CONTINUATION", SubSeq(part[e], 1, k)))
       /\ part' = [part EXCEPT ![e] = SubSeq(@, k + 1, Len(@))]
    BY <1>3 DEF SendNext
  <2>2. part[e] \in Seq(Unit)
    BY DEF TypeOK
  <2>3. SubSeq(part[e], 1, k) \in Seq(Unit) /\ SubSeq(part[e], k + 1, Len(part[e])) \in Seq(Unit)
    BY <2>2, SubSeqProperties
  <2>4. Frame(k = Len(part[e]), "CONTINUATION", SubSeq(part[e], 1, k)) \in Frames
    BY <2>3 DEF Frame, Frames, Ops, Codes
  <2>5. wire' \in [End -> Seq(Frames)] /\ queued' \in [End -> Nat]
    BY <2>1, <2>4, SendTypes
  <2>6. part' \in [End -> Seq(Unit)]
    BY <2>1, <2>3 DEF TypeOK
  <2> QED
    BY <1>3, <2>5, <2>6 DEF SendNext, TypeOK, connVars, Frames
<1>4. CASE SendControl(e)
  <2>1. PICK op \in {"PING", "RESERVED"} : ws_send_frame(e, Frame(TRUE, op, <<>>))
    BY <1>4 DEF SendControl
  <2>2. Frame(TRUE, op, <<>>) \in Frames
    BY DEF Frame, Frames, Ops, Codes
  <2>3. wire' \in [End -> Seq(Frames)] /\ queued' \in [End -> Nat]
    BY <2>1, <2>2, SendTypes
  <2>4. controls' \in [End -> Nat]
    BY <1>4 DEF SendControl, TypeOK
  <2> QED
    BY <1>4, <2>3, <2>4 DEF SendControl, TypeOK, connVars, Frames
<1>5. CASE cwh_ws_send_close(e)
  <2>1. PICK code \in {"none", "NORMAL"} : ws_send_frame(e, Close(code))
    BY <1>5 DEF cwh_ws_send_close
  <2>2. Close(code) \in Frames
    BY DEF Close, Frames, Ops, Codes
  <2>3. wire' \in [End -> Seq(Frames)] /\ queued' \in [End -> Nat]
    BY <2>1, <2>2, SendTypes
  <2> QED
    BY <1>5, <2>3 DEF cwh_ws_send_close, TypeOK, peerVars, Frames, States
<1>6. CASE Vanish(e)
  <2>1. <<>> \in Seq(Unit) /\ <<>> \in Seq(Frames) /\ <<>> \in Seq(Msg)
    OBVIOUS
  <2>2. wire' \in [End -> Seq(Frames)] /\ fragment' \in [End -> Seq(Msg)]
    BY <1>6, <2>1 DEF Vanish, TypeOK, Frames
  <2>3. \A d \in End : Len(fragment'[d]) <= 1
    BY <1>6, <2>1 DEF Vanish, TypeOK
  <2>4. /\ queued' \in [End -> Nat] /\ recv_len' \in [End -> 0 .. RecvSize]
        /\ part' \in [End -> Seq(Unit)] /\ alive' \in [End -> BOOLEAN]
    BY <1>6, <2>1 DEF Vanish, TypeOK
  <2> QED
    BY <1>6, <2>2, <2>3, <2>4 DEF Vanish, TypeOK, Frames
<1> QED
  BY <1>1, <1>2, <1>3, <1>4, <1>5, <1>6 DEF Program

LEMMA HandleFrameTypes ==
  ASSUME TypeOK, NEW e \in End, HandleFrame(e)
  PROVE  TypeOK'
<1> DEFINE f == wire[e][1]
<1>1. /\ wire[e] # <<>> /\ Head(wire[e]) = f /\ recv_len[e] >= Size(f)
      /\ Handled(e, f, Reply(e, f))
      /\ OnFirst(e, f) \/ OnWhole(e, f) \/ OnContinuation(e, f) \/ OnCloseFrame(e, f)
         \/ OnControl(e, f)
      /\ UNCHANGED <<hello, peerVars>>
  BY DEF HandleFrame, WholeFrame, TypeOK
<1>2. f \in Frames
  <2>1. wire[e] \in Seq(Frames)
    BY DEF TypeOK, Frames
  <2> QED
    BY <1>1, <2>1, HeadTailProperties
<1> HIDE DEF f
<1>3. Size(f) \in Nat /\ f.data \in Seq(Unit)
  BY <1>2, WebSocketAssumption DEF Size, Frames
<1>4. Other(e) \in End /\ Other(e) # e
  BY OtherEnd
<1>5. Reply(e, f) \in Seq(Frames) /\ (Reply(e, f) # <<>> => Size(Reply(e, f)[1]) \in Nat)
  <2>1. close_code(f) \in Codes
    BY <1>2 DEF close_code, Codes, Frames
  <2>2. Close(close_code(f)) \in Frames /\ Frame(TRUE, "PONG", f.data) \in Frames
    BY <1>3, <2>1 DEF Close, Frame, Frames, Ops, Codes
  <2>3. \A g \in Frames : Size(g) \in Nat
    BY WebSocketAssumption DEF Size, Frames
  <2>4. Reply(e, f) \in {<<Close(close_code(f))>>, <<Frame(TRUE, "PONG", f.data)>>, <<>>}
    BY DEF Reply
  <2>5. \A g \in Frames : <<g>> \in Seq(Frames) /\ <<g>>[1] = g
    OBVIOUS
  <2>6. CASE Reply(e, f) = <<>>
    BY <2>6
  <2>7. CASE \E g \in Frames : Reply(e, f) = <<g>>
    BY <2>3, <2>5, <2>7
  <2> QED
    BY <2>2, <2>4, <2>6, <2>7
<1>6. recv_len' \in [End -> 0 .. RecvSize] /\ queued' \in [End -> Nat]
  <2>1. Remaining(e, f) \in 0 .. RecvSize
    BY <1>1, <1>3, WebSocketAssumption, SMTT(30) DEF Remaining, TypeOK
  <2>2. recv_len' \in [End -> 0 .. RecvSize]
    BY <1>1, <2>1 DEF Handled, TypeOK
  <2>3. \A to : to = <<>> \/ to = Reply(e, f)
          => (IF to = <<>> THEN 0 ELSE Size(to[1])) \in Nat
    BY <1>5
  <2>4. PICK n \in Nat : queued' = [queued EXCEPT ![Other(e)] = @ + n]
    <3>1. CASE alive[Other(e)]
      BY <1>1, <2>3, <3>1 DEF Handled
    <3>2. CASE ~alive[Other(e)]
      BY <1>1, <2>3, <3>2 DEF Handled
    <3> QED
      BY <3>1, <3>2
  <2>5. queued' \in [End -> Nat]
    BY <1>4, <2>4, SMTT(30) DEF TypeOK
  <2> QED
    BY <2>2, <2>5
<1>7. wire' \in [End -> Seq(Frames)]
  <2>1. wire \in [End -> Seq(Frames)]
    BY DEF TypeOK, Frames
  <2>2. Tail(wire[e]) \in Seq(Frames)
    BY <1>1, <2>1
  <2>3. \E to \in Seq(Frames) :
          wire' = [wire EXCEPT ![e] = Tail(@), ![Other(e)] = @ \o to]
    <3>1. <<>> \in Seq(Frames)
      OBVIOUS
    <3>2. CASE alive[Other(e)]
      BY <1>1, <1>5, <3>2 DEF Handled
    <3>3. CASE ~alive[Other(e)]
      BY <1>1, <3>1, <3>3 DEF Handled
    <3> QED
      BY <3>2, <3>3
  <2>4. PICK to \in Seq(Frames) :
          wire' = [wire EXCEPT ![e] = Tail(@), ![Other(e)] = @ \o to]
    BY <2>3
  <2>5. wire[Other(e)] \o to \in Seq(Frames)
    BY <1>4, <2>1, ConcatProperties
  <2> QED
    BY <1>4, <2>1, <2>2, <2>4, <2>5
<1>8. /\ state' \in [End -> States] /\ events' \in [End -> Seq(Event)]
      /\ fragment' \in [End -> Buffers] /\ starved' \in [End -> BOOLEAN]
  <2>0. /\ state \in [End -> States] /\ events \in [End -> Seq(Event)]
        /\ fragment \in [End -> Buffers] /\ starved \in [End -> BOOLEAN]
        /\ \A v \in Event : Append(events[e], v) \in Seq(Event)
    BY AppendProperties DEF TypeOK, Buffers
  <2>1. <<>> \in Buffers /\ \A m \in Msg : <<m>> \in Buffers
    BY DEF Buffers
  <2>2. fragment[e] # <<>> => fragment[e][1] \in Msg
    BY DEF TypeOK
  <2>3. CASE OnFirst(e, f)
    <3>1. f.op \in {"TEXT", "BINARY"} => Message(f.op, f.data) \in Msg
      BY <1>3 DEF Message, Msg
    <3>2. PICK ok \in MayFail(e) :
            /\ fragment' = [fragment EXCEPT ![e] = IF ok THEN <<Message(f.op, f.data)>> ELSE <<>>]
            /\ starved' = [starved EXCEPT ![e] = @ \/ ~ok]
      BY <2>3 DEF OnFirst, Fragment, Allocates
    <3>3. (IF ok THEN <<Message(f.op, f.data)>> ELSE <<>>) \in Buffers
      BY <2>1, <2>3, <3>1 DEF OnFirst
    <3>4. starved' \in [End -> BOOLEAN]
      BY <3>2 DEF TypeOK
    <3> QED
      BY <2>0, <2>3, <3>2, <3>3, <3>4 DEF OnFirst
  <2>4. CASE OnWhole(e, f)
    <3>1. OnMessage(f.op, f.data) \in Event
      BY <1>3, <2>4 DEF OnWhole, OnMessage, Event
    <3>2. \/ fragment' = [fragment EXCEPT ![e] = <<>>] /\ events' = events
          \/ events' = [events EXCEPT ![e] = Append(@, OnMessage(f.op, f.data))]
             /\ fragment' = fragment
      BY <2>4 DEF OnWhole, Fragment, Callback
    <3> QED
      <4>1. events' \in [End -> Seq(Event)]
        BY <2>0, <3>1, <3>2
      <4>2. fragment' \in [End -> Buffers]
        BY <2>0, <2>1, <3>2
      <4> QED
        BY <2>0, <2>4, <4>1, <4>2 DEF OnWhole
  <2>5. CASE OnContinuation(e, f)
    <3> DEFINE m == Message(fragment[e][1].op, fragment[e][1].data \o f.data)
    <3>1. CASE UNCHANGED <<fragment, events, starved>>
      BY <2>0, <2>5, <3>1 DEF OnContinuation
    <3>2. CASE ~UNCHANGED <<fragment, events, starved>>
      <4>1. /\ fragment[e] # <<>>
            /\ \E ok \in MayFail(e) :
                /\ Allocates(e, ok)
                /\ IF ok /\ f.fin
                   THEN Callback(e, OnMessage(m.op, m.data)) /\ Fragment(e, AfterFin(e, m))
                   ELSE /\ Fragment(e, IF ok THEN <<m>> ELSE fragment[e])
                        /\ UNCHANGED events
        BY <2>5, <3>2 DEF OnContinuation
      <4>2. m \in Msg /\ OnMessage(m.op, m.data) \in Event
        BY <1>3, <2>2, <4>1 DEF Msg, Message, OnMessage, Event
      <4> HIDE DEF m
      <4>3. PICK ok \in MayFail(e) :
                /\ Allocates(e, ok)
                /\ IF ok /\ f.fin
                   THEN Callback(e, OnMessage(m.op, m.data)) /\ Fragment(e, AfterFin(e, m))
                   ELSE /\ Fragment(e, IF ok THEN <<m>> ELSE fragment[e])
                        /\ UNCHANGED events
        BY <4>1
      <4>4. starved' \in [End -> BOOLEAN]
        BY <4>3 DEF Allocates, TypeOK
      <4>5. events' \in [End -> Seq(Event)]
        BY <2>0, <4>2, <4>3 DEF Callback
      <4>6. PICK v \in {<<>>, <<m>>, fragment[e]} : fragment' = [fragment EXCEPT ![e] = v]
        BY <4>3 DEF Fragment, AfterFin
      <4>7. fragment' \in [End -> Buffers]
        BY <2>0, <2>1, <4>2, <4>6
      <4> QED
        BY <2>0, <2>5, <4>4, <4>5, <4>7 DEF OnContinuation
    <3> QED
      BY <3>1, <3>2
  <2>6. CASE OnCloseFrame(e, f)
    <3>1. OnClose(close_code(f)) \in Event
      BY <1>2 DEF close_code, Codes, Frames, OnClose, Event
    <3>2. events' \in [End -> Seq(Event)]
      BY <2>0, <2>6, <3>1 DEF OnCloseFrame, Callback
    <3> QED
      BY <2>0, <2>6, <3>2 DEF OnCloseFrame, States
  <2>7. CASE OnControl(e, f)
    <3>1. OnError \in Event
      BY DEF OnError, Event
    <3> QED
      BY <2>0, <2>7, <3>1 DEF OnControl, Callback
  <2> QED
    BY <1>1, <2>3, <2>4, <2>5, <2>6, <2>7
<1> QED
  BY <1>1, <1>6, <1>7, <1>8 DEF TypeOK, Frames, Buffers, peerVars

LEMMA ReceiveTypes ==
  ASSUME TypeOK, NEW e \in End, Receive(e) \/ ReceiveFails(e)
  PROVE  TypeOK'
<1>1. CASE Receive(e)
  <2>1. PICK n \in 1 .. (IF queued[e] < Room(e) THEN queued[e] ELSE Room(e)) :
       /\ recv_len' = [recv_len EXCEPT ![e] = @ + n]
       /\ queued' = [queued EXCEPT ![e] = @ - n]
    BY <1>1 DEF Receive
  <2>2. queued[e] \in Nat /\ recv_len[e] \in Nat /\ RecvSize \in Nat
    BY WebSocketAssumption DEF TypeOK
  <2>3. n \in Nat /\ n <= queued[e] /\ n <= RecvSize - recv_len[e]
    BY <2>1, <2>2 DEF Room
  <2>4. recv_len' \in [End -> 0 .. RecvSize] /\ queued' \in [End -> Nat]
    BY <2>1, <2>2, <2>3, SMTT(30) DEF TypeOK
  <2> QED
    BY <1>1, <2>4 DEF Receive, TypeOK, peerVars
<1>2. CASE ReceiveFails(e)
  <2>1. OnClose("ABNORMAL") \in Event
    BY DEF OnClose, Event, Codes
  <2>2. events' \in [End -> Seq(Event)] /\ state' \in [End -> States]
    BY <1>2, <2>1 DEF ReceiveFails, Callback, TypeOK, States
  <2> QED
    BY <1>2, <2>2 DEF ReceiveFails, TypeOK, peerVars, netVars
<1> QED
  BY <1>1, <1>2

LEMMA InitTypes == Init => TypeOK
<1>1. SUFFICES ASSUME Init PROVE TypeOK
  OBVIOUS
<1>2. \A S : <<>> \in Seq(S)
  OBVIOUS
<1>3. 0 \in 0 .. RecvSize
  BY WebSocketAssumption
<1>4. wire \in [End -> Seq(Frames)] /\ fragment \in [End -> Seq(Msg)]
      /\ part \in [End -> Seq(Unit)] /\ sent \in [End -> Seq(Msg)] /\ events \in [End -> Seq(Event)]
  BY <1>1, <1>2 DEF Init
<1>5. \A e \in End : Len(fragment[e]) <= 1
  BY <1>1 DEF Init
<1> QED
  BY <1>1, <1>3, <1>4, <1>5 DEF Init, TypeOK, Frames, States

LEMMA HandshakeTypes ==
  ASSUME TypeOK,
         \/ cwh_ws_client_handshake \/ cwh_ws_server_handshake
         \/ ServerRefuses \/ cwh_ws_client_validate_handshake
  PROVE  TypeOK'
<1>1. hello' \in Hellos \cup {<<>>, <<"answered">>, <<"refused">>, <<"done">>}
  BY DEF cwh_ws_client_handshake, cwh_ws_server_handshake, ServerRefuses,
         cwh_ws_client_validate_handshake
<1>2. state' \in [End -> States]
  BY DEF cwh_ws_client_handshake, cwh_ws_server_handshake, ServerRefuses,
         cwh_ws_client_validate_handshake, cwh_ws_conn_new, TypeOK, States
<1>3. UNCHANGED <<recv_len, fragment, events, starved, peerVars, netVars>>
  BY DEF cwh_ws_client_handshake, cwh_ws_server_handshake, ServerRefuses,
         cwh_ws_client_validate_handshake, Handshake
<1> QED
  BY <1>1, <1>2, <1>3 DEF TypeOK, peerVars, netVars

LEMMA Typing == Spec => []TypeOK
<1>1. TypeOK /\ [Next]_vars => TypeOK'
  <2>1. SUFFICES ASSUME TypeOK, [Next]_vars PROVE TypeOK'
    OBVIOUS
  <2>2. CASE Next
    BY <2>1, <2>2, HandshakeTypes, ProgramTypes, ReceiveTypes, HandleFrameTypes DEF Next, Process
  <2>3. CASE UNCHANGED vars
    BY <2>1, <2>3 DEF TypeOK, vars, connVars, peerVars, netVars
  <2> QED
    BY <2>1, <2>2, <2>3
<1> QED
  BY <1>1, InitTypes, PTL DEF Spec

-----------------------------------------------------------------------------
(* What steps do to the frames on the way.                                 *)

\* The program sends one frame, or the end is gone.
Adds(o, f) ==
  IF alive[o] THEN /\ wire' = [wire EXCEPT ![o] = Append(@, f)]
                   /\ queued' = [queued EXCEPT ![o] = @ + Size(f)]
              ELSE wire' = wire /\ queued' = queued

LEMMA AddsOther ==
  ASSUME TypeOK, NEW e \in End, NEW o, o # e, NEW f, Adds(o, f)
  PROVE  wire'[e] = wire[e]
<1>1. wire \in [End -> Seq(Frames)]
  BY DEF TypeOK, Frames
<1>2. wire' = wire \/ \E w : wire' = [wire EXCEPT ![o] = w]
  BY DEF Adds
<1> QED
  BY <1>1, <1>2

Sends(e, f) ==
  /\ f \in Frames /\ f.code # "ABNORMAL"
  /\ alive[e] /\ state[e] = "OPEN"
  /\ Adds(Other(e), f)
  /\ state' = IF f.op = "CLOSE" THEN [state EXCEPT ![e] = "CLOSING"] ELSE state
  /\ UNCHANGED <<hello, recv_len, fragment, events, starved, alive>>

LEMMA ProgramSends ==
  ASSUME TypeOK, NEW e \in End, Program(e), ~Vanish(e)
  PROVE  \E f \in Frames : Sends(e, f)
<1> USE WebSocketAssumption
<1>0. ASSUME NEW f \in Frames, f.code # "ABNORMAL", MaySend(e), ws_send_frame(e, f),
             UNCHANGED <<hello, recv_len, fragment, events, starved, alive>>,
             state' = IF f.op = "CLOSE" THEN [state EXCEPT ![e] = "CLOSING"] ELSE state
      PROVE  Sends(e, f)
  BY <1>0 DEF Sends, Adds, MaySend, ws_send_frame, netVars
<1>1. CASE SendMessage(e)
  <2> DEFINE m(n) == Message(Kind(Len(sent[e]) + 1), Data(Len(sent[e]) + 1, n))
  <2>1. PICK n \in Lengths : ws_send_frame(e, Frame(TRUE, m(n).op, m(n).data))
    BY <1>1 DEF SendMessage
  <2>2. Len(sent[e]) + 1 \in Nat /\ n \in Nat
    BY DEF TypeOK
  <2>3. Data(Len(sent[e]) + 1, n) \in Seq(Unit) /\ Kind(Len(sent[e]) + 1) \in {"TEXT", "BINARY"}
    BY <2>2, DataType
  <2> DEFINE f == Frame(TRUE, m(n).op, m(n).data)
  <2>4. f \in Frames /\ f.code # "ABNORMAL" /\ f.op # "CLOSE"
    BY <2>3 DEF Message, Frame, Frames, Ops, Codes
  <2> QED
    BY <1>0, <1>1, <2>1, <2>4 DEF SendMessage, connVars
<1>2. CASE SendFirst(e)
  <2> DEFINE m(n) == Message(Kind(Len(sent[e]) + 1), Data(Len(sent[e]) + 1, n))
  <2>1. PICK n \in Lengths \ {1} : \E k \in 1 .. n - 1 :
          ws_send_frame(e, Frame(FALSE, m(n).op, SubSeq(m(n).data, 1, k)))
    BY <1>2 DEF SendFirst
  <2>2. PICK k \in 1 .. n - 1 : ws_send_frame(e, Frame(FALSE, m(n).op, SubSeq(m(n).data, 1, k)))
    BY <2>1
  <2>3. Len(sent[e]) + 1 \in Nat /\ n \in Nat
    BY DEF TypeOK
  <2>4. /\ Data(Len(sent[e]) + 1, n) \in Seq(Unit) /\ Len(Data(Len(sent[e]) + 1, n)) = n
        /\ Kind(Len(sent[e]) + 1) \in {"TEXT", "BINARY"}
    BY <2>3, DataType
  <2>5. SubSeq(m(n).data, 1, k) \in Seq(Unit)
    BY <2>3, <2>4, SubSeqProperties DEF Message
  <2> DEFINE f == Frame(FALSE, m(n).op, SubSeq(m(n).data, 1, k))
  <2>6. f \in Frames /\ f.code # "ABNORMAL" /\ f.op # "CLOSE"
    BY <2>4, <2>5 DEF Message, Frame, Frames, Ops, Codes
  <2> QED
    BY <1>0, <1>2, <2>2, <2>6 DEF SendFirst, connVars
<1>3. CASE SendNext(e)
  <2>1. PICK k \in 1 .. Len(part[e]) :
          ws_send_frame(e, Frame(k = Len(part[e]), "CONTINUATION", SubSeq(part[e], 1, k)))
    BY <1>3 DEF SendNext
  <2>2. SubSeq(part[e], 1, k) \in Seq(Unit)
    BY SubSeqProperties DEF TypeOK
  <2> DEFINE f == Frame(k = Len(part[e]), "CONTINUATION", SubSeq(part[e], 1, k))
  <2>3. f \in Frames /\ f.code # "ABNORMAL" /\ f.op # "CLOSE"
    BY <2>2 DEF Frame, Frames, Ops, Codes
  <2> QED
    BY <1>0, <1>3, <2>1, <2>3 DEF SendNext, connVars
<1>4. CASE SendControl(e)
  <2>1. PICK op \in {"PING", "RESERVED"} : ws_send_frame(e, Frame(TRUE, op, <<>>))
    BY <1>4 DEF SendControl
  <2> DEFINE f == Frame(TRUE, op, <<>>)
  <2>2. f \in Frames /\ f.code # "ABNORMAL" /\ f.op # "CLOSE"
    BY DEF Frame, Frames, Ops, Codes
  <2> QED
    BY <1>0, <1>4, <2>1, <2>2 DEF SendControl, connVars
<1>5. CASE cwh_ws_send_close(e)
  <2>1. PICK code \in {"none", "NORMAL"} : ws_send_frame(e, Close(code))
    BY <1>5 DEF cwh_ws_send_close
  <2>2. Close(code) \in Frames /\ Close(code).code # "ABNORMAL" /\ Close(code).op = "CLOSE"
    BY DEF Close, Frames, Ops, Codes
  <2> QED
    BY <1>0, <1>5, <2>1, <2>2 DEF cwh_ws_send_close, peerVars
<1> QED
  BY <1>1, <1>2, <1>3, <1>4, <1>5 DEF Program

\* The frame handled goes, and at most one answer goes out.
Answers(e, f, g) ==
  /\ g \in Frames /\ g.code # "ABNORMAL" /\ alive[Other(e)]
  /\ g.op = "PONG" \/ (g.op = "CLOSE" /\ f.op = "CLOSE" /\ state[e] # "CLOSING")
  /\ wire' = [wire EXCEPT ![e] = Tail(@), ![Other(e)] = Append(@, g)]
  /\ queued' = [queued EXCEPT ![Other(e)] = @ + Size(g)]
  /\ f.op \in {"PING", "CLOSE"}
Handles(e, f) ==
  /\ f \in Frames /\ alive[e]
  /\ wire[e] # <<>> /\ f = wire[e][1] /\ recv_len[e] >= Size(f)
  /\ recv_len' = [recv_len EXCEPT ![e] = @ - Size(f)]
  /\ \/ wire' = [wire EXCEPT ![e] = Tail(@)] /\ queued' = queued
     \/ \E g \in Frames : Answers(e, f, g)
  /\ UNCHANGED <<hello, part, alive, controls, sent>>

LEMMA HandleFrameHandles ==
  ASSUME TypeOK, \A d \in End : \A i \in 1 .. Len(wire[d]) : wire[d][i].code # "ABNORMAL",
         NEW e \in End, HandleFrame(e)
  PROVE  /\ Handles(e, wire[e][1])
         /\ LET f == wire[e][1] IN
              OnFirst(e, f) \/ OnWhole(e, f) \/ OnContinuation(e, f) \/ OnCloseFrame(e, f)
                \/ OnControl(e, f)
<1> DEFINE f == wire[e][1]
           o == Other(e)
<1>1. /\ alive[e] /\ wire[e] # <<>> /\ Head(wire[e]) = f /\ recv_len[e] >= Size(f)
      /\ Handled(e, f, Reply(e, f))
      /\ OnFirst(e, f) \/ OnWhole(e, f) \/ OnContinuation(e, f) \/ OnCloseFrame(e, f)
         \/ OnControl(e, f)
      /\ UNCHANGED <<hello, peerVars>>
  BY DEF HandleFrame, WholeFrame, TypeOK
<1>2. wire \in [End -> Seq(Frames)] /\ queued \in [End -> Nat] /\ o \in End /\ o # e
  BY OtherEnd DEF TypeOK, Frames
<1>0. f = wire[e][1]
  OBVIOUS
<1>3. f \in Frames /\ f.code # "ABNORMAL"
  BY <1>1, <1>2, HeadTailProperties, EmptySeq
<1> HIDE DEF f
<1>4. close_code(f) \in Codes \ {"ABNORMAL"}
  BY <1>3 DEF close_code, Codes, Frames
<1>5. Close(close_code(f)) \in Frames /\ Frame(TRUE, "PONG", f.data) \in Frames
  BY <1>3, <1>4 DEF Close, Frame, Frames, Ops, Codes
<1>6. ASSUME Reply(e, f) = <<>> \/ ~alive[o] PROVE Handles(e, f)
  <2>1. wire' = [wire EXCEPT ![e] = Tail(@), ![o] = @ \o <<>>]
        /\ queued' = [queued EXCEPT ![o] = @ + 0]
    BY <1>1, <1>6 DEF Handled
  <2>2. wire[o] \o <<>> = wire[o] /\ queued[o] + 0 = queued[o]
    BY <1>2, ConcatEmptySeq
  <2>3. wire' = [wire EXCEPT ![e] = Tail(@)] /\ queued' = queued
    BY <1>2, <2>1, <2>2
  <2> QED
    BY <1>0, <1>1, <1>3, <2>3 DEF Handles, Handled, Remaining, peerVars
<1>7. ASSUME Reply(e, f) # <<>>, alive[o] PROVE Handles(e, f)
  <2>1. PICK g \in Frames :
          /\ Reply(e, f) = <<g>> /\ g.code # "ABNORMAL" /\ f.op \in {"PING", "CLOSE"}
          /\ g.op = "PONG" \/ (g.op = "CLOSE" /\ f.op = "CLOSE" /\ state[e] # "CLOSING")
    <3>1. CASE f.op = "CLOSE" /\ Echoes(e)
      <4>1. Reply(e, f) = <<Close(close_code(f))>>
        BY <3>1 DEF Reply
      <4> QED
        BY <1>4, <1>5, <3>1, <4>1 DEF Close, Echoes
    <3>2. CASE f.op = "PING"
      <4>1. Reply(e, f) = <<Frame(TRUE, "PONG", f.data)>>
        BY <3>2 DEF Reply
      <4>2. Frame(TRUE, "PONG", f.data).op = "PONG" /\ Frame(TRUE, "PONG", f.data).code # "ABNORMAL"
        BY DEF Frame
      <4>3. Frame(TRUE, "PONG", f.data) \in Frames
        BY <1>5
      <4> WITNESS Frame(TRUE, "PONG", f.data) \in Frames
      <4> QED
        BY <3>2, <4>1, <4>2
    <3> QED
      BY <1>7, <3>1, <3>2 DEF Reply
  <2>2. wire' = [wire EXCEPT ![e] = Tail(@), ![o] = @ \o <<g>>]
        /\ queued' = [queued EXCEPT ![o] = @ + Size(g)]
    BY <1>1, <1>7, <2>1 DEF Handled
  <2>3. wire[o] \o <<g>> = Append(wire[o], g)
    BY <1>2, AppendIsConcat
  <2>4. wire' = [wire EXCEPT ![e] = Tail(@), ![o] = Append(@, g)]
    BY <1>2, <2>2, <2>3
  <2>5. Answers(e, f, g)
    BY <1>7, <2>1, <2>2, <2>4 DEF Answers
  <2> QED
    BY <1>0, <1>1, <1>3, <2>5 DEF Handles, Handled, Remaining, peerVars
<1> QED
  BY <1>0, <1>1, <1>6, <1>7

-----------------------------------------------------------------------------
(* The units on the way.                                                   *)

LEMMA FrameSize ==
  ASSUME NEW f \in Frames
  PROVE  Size(f) \in Nat /\ Size(f) > 0
BY WebSocketAssumption DEF Size, Frames

LEMMA UnitsAppend ==
  ASSUME NEW w \in Seq(Frames), NEW f \in Frames, NEW n \in Int, Units(w, n)
  PROVE  Units(Append(w, f), n + Size(f))
<1>1. PICK ends \in [0 .. Len(w) -> Int] :
        /\ ends[0] = 0
        /\ \A i \in 1 .. Len(w) : ends[i] = ends[i - 1] + Size(w[i])
        /\ ends[Len(w)] = n
  BY DEF Units
<1> DEFINE v  == Append(w, f)
           to == [i \in 0 .. Len(v) |-> IF i <= Len(w) THEN ends[i] ELSE n + Size(f)]
<1>2. Len(w) \in Nat /\ Len(v) = Len(w) + 1 /\ v[Len(w) + 1] = f
      /\ \A i \in 1 .. Len(w) : v[i] = w[i]
  BY AppendProperties
<1>3. to \in [0 .. Len(v) -> Int] /\ to[0] = 0
  BY <1>1, <1>2, FrameSize
<1>4. to[Len(v)] = n + Size(f)
  BY <1>2
<1>5. ASSUME NEW i \in 1 .. Len(v) PROVE to[i] = to[i - 1] + Size(v[i])
  <2>1. CASE i <= Len(w)
    BY <1>1, <1>2, <2>1
  <2>2. CASE i = Len(w) + 1
    BY <1>1, <1>2, <2>2
  <2> HIDE DEF v, to
  <2>3. i <= Len(w) \/ i = Len(w) + 1
    BY <1>2
  <2> QED
    BY <2>1, <2>2, <2>3
<1> HIDE DEF v, to
<1>6. Units(v, n + Size(f))
  BY <1>3, <1>4, <1>5 DEF Units
<1> QED
  BY <1>6 DEF v

LEMMA UnitsTail ==
  ASSUME NEW w \in Seq(Frames), w # <<>>, NEW n \in Int, Units(w, n)
  PROVE  Units(Tail(w), n - Size(w[1]))
<1>1. PICK ends \in [0 .. Len(w) -> Int] :
        /\ ends[0] = 0
        /\ \A i \in 1 .. Len(w) : ends[i] = ends[i - 1] + Size(w[i])
        /\ ends[Len(w)] = n
  BY DEF Units
<1> DEFINE v  == Tail(w)
           to == [i \in 0 .. Len(v) |-> ends[i + 1] - Size(w[1])]
<1>2. Len(w) \in Nat \ {0} /\ Len(v) = Len(w) - 1
      /\ \A i \in 1 .. Len(v) : v[i] = w[i + 1]
  BY HeadTailProperties, EmptySeq
<1>3. Size(w[1]) \in Nat
  BY <1>2, ElementOfSeq, FrameSize
<1>4. to \in [0 .. Len(v) -> Int]
  BY <1>1, <1>2, <1>3
<1>5. to[0] = 0 /\ to[Len(v)] = n - Size(w[1])
  BY <1>1, <1>2, <1>3
<1>6. ASSUME NEW i \in 1 .. Len(v) PROVE to[i] = to[i - 1] + Size(v[i])
  <2>1. i + 1 \in 1 .. Len(w) /\ (i + 1) - 1 = i /\ (i - 1) + 1 = i /\ i - 1 \in 0 .. Len(v)
    BY <1>2
  <2>2. ends[i + 1] = ends[i] + Size(w[i + 1])
    BY <1>1, <2>1
  <2>3. v[i] = w[i + 1]
    BY <1>2
  <2>4. Size(w[i + 1]) \in Nat /\ ends[i] \in Int /\ ends[i + 1] \in Int
    <3>1. w[i + 1] \in Frames
      BY <2>1, ElementOfSeq
    <3>2. Size(w[i + 1]) \in Nat
      BY <3>1, FrameSize
    <3>3. i \in 0 .. Len(w) /\ i + 1 \in 0 .. Len(w)
      BY <1>2, <2>1
    <3> QED
      BY <1>1, <3>2, <3>3
  <2> QED
    BY <1>3, <2>1, <2>2, <2>3, <2>4
<1> HIDE DEF v, to
<1>7. Units(v, n - Size(w[1]))
  BY <1>4, <1>5, <1>6 DEF Units
<1> QED
  BY <1>7 DEF v

LEMMA UnitsEmpty ==
  ASSUME NEW n
  PROVE  Units(<<>>, n) <=> n = 0
<1>1. Units(<<>>, 0)
  <2> DEFINE ends == [i \in 0 .. 0 |-> 0]
  <2>1. ends \in [0 .. Len(<<>>) -> Int] /\ ends[0] = 0 /\ Len(<<>>) = 0
    OBVIOUS
  <2> HIDE DEF ends
  <2> QED
    BY <2>1 DEF Units
<1>2. Units(<<>>, n) => n = 0
  BY DEF Units
<1> QED
  BY <1>1, <1>2

LEMMA Numbers ==
  ASSUME TypeOK
  PROVE  /\ wire \in [End -> Seq(Frames)] /\ queued \in [End -> Nat]
         /\ \A d \in End : recv_len[d] \in Nat
         /\ RecvSize \in Nat /\ RecvSize > 0
<1>1. wire \in [End -> Seq(Frames)] /\ queued \in [End -> Nat]
  BY DEF TypeOK, Frames
<1>2. recv_len \in [End -> 0 .. RecvSize]
  BY DEF TypeOK
<1>3. RecvSize \in Nat /\ RecvSize > 0
  BY WebSocketAssumption
<1> QED
  BY <1>1, <1>2, <1>3

\* What the buffer holds belongs to a frame on the way.
LEMMA BufferNotIdle ==
  ASSUME TypeOK, UnitsOnWire, NEW e \in End, recv_len[e] > 0
  PROVE  wire[e] # <<>>
<1>1. recv_len[e] \in Nat /\ queued[e] \in Nat
  BY WebSocketAssumption DEF TypeOK
<1> QED
  BY <1>1, UnitsEmpty DEF UnitsOnWire

-----------------------------------------------------------------------------
(* The invariant of closing.                                               *)

LEMMA Ends == ASSUME NEW e \in End, NEW d \in End PROVE d = e \/ d = Other(e)
BY DEF End, Other

LEMMA HandshakeCloses ==
  ASSUME CloseInv,
         \/ cwh_ws_client_handshake \/ cwh_ws_server_handshake
         \/ ServerRefuses \/ cwh_ws_client_validate_handshake
  PROVE  HelloFirst' /\ UnitsOnWire' /\ CodesSent' /\ CloseLast' /\ Deaf' /\ ClosedOnce'
<1>1. UNCHANGED <<recv_len, fragment, events, starved, alive, wire, queued>>
  BY DEF cwh_ws_client_handshake, cwh_ws_server_handshake, ServerRefuses,
         cwh_ws_client_validate_handshake, Handshake, peerVars, netVars
<1>2. /\ \A e \in End : state[e] # "none" => state'[e] = state[e]
      /\ \A e \in End : state'[e] # state[e] => state'[e] = "OPEN"
      /\ HelloFirst'
  <2> USE DEF CloseInv, TypeOK, HelloFirst, Hellos, End
  <2>1. CASE cwh_ws_client_handshake
    BY <1>1, <2>1 DEF cwh_ws_client_handshake
  <2>2. CASE cwh_ws_server_handshake
    BY <1>1, <2>2, WebSocketAssumption DEF cwh_ws_server_handshake, cwh_ws_conn_new
  <2>3. CASE ServerRefuses
    BY <1>1, <2>3 DEF ServerRefuses
  <2>4. CASE cwh_ws_client_validate_handshake
    BY <1>1, <2>4, WebSocketAssumption DEF cwh_ws_client_validate_handshake, cwh_ws_conn_new
  <2> QED
    BY <2>1, <2>2, <2>3, <2>4
<1>3. UnitsOnWire' /\ CodesSent'
  BY <1>1 DEF CloseInv, UnitsOnWire, CodesSent
<1>4. CloseLast' /\ ClosedOnce'
  BY <1>1, <1>2, OtherEnd DEF CloseInv, CloseLast, ClosedOnce
<1>5. Deaf'
  BY <1>1, <1>2, OtherEnd DEF CloseInv, Deaf, Stuck, HadClose
<1> QED
  BY <1>2, <1>3, <1>4, <1>5

\* A frame more on the way to an end.
LEMMA AddsUnits ==
  ASSUME TypeOK, UnitsOnWire, NEW o \in End, NEW f \in Frames, Adds(o, f), UNCHANGED recv_len
  PROVE  UnitsOnWire'
<1>1. wire \in [End -> Seq(Frames)] /\ queued \in [End -> Nat] /\ Size(f) \in Nat
      /\ \A d \in End : recv_len[d] \in Nat
  BY FrameSize, Numbers
<1>2. CASE ~alive[o]
  BY <1>2 DEF Adds, UnitsOnWire
<1>3. CASE alive[o]
  <2>1. wire' = [wire EXCEPT ![o] = Append(@, f)] /\ queued' = [queued EXCEPT ![o] = @ + Size(f)]
    BY <1>3 DEF Adds
  <2>2. SUFFICES ASSUME NEW d \in End PROVE Units(wire'[d], recv_len[d] + queued'[d])
    BY DEF UnitsOnWire
  <2>3. CASE d = o
    <3>1. Units(Append(wire[d], f), (recv_len[d] + queued[d]) + Size(f))
      BY <1>1, UnitsAppend DEF UnitsOnWire
    <3>2. recv_len[d] + queued'[d] = (recv_len[d] + queued[d]) + Size(f)
      BY <1>1, <2>1, <2>3
    <3>3. wire'[d] = Append(wire[d], f)
      BY <1>1, <2>1, <2>3
    <3> QED
      BY <3>1, <3>2, <3>3
  <2>4. CASE d # o
    BY <1>1, <2>1, <2>4 DEF UnitsOnWire
  <2> QED
    BY <2>3, <2>4
<1> QED
  BY <1>2, <1>3

LEMMA SendCloses ==
  ASSUME CloseInv, NEW e \in End, NEW f \in Frames, Sends(e, f)
  PROVE  HelloFirst' /\ UnitsOnWire' /\ CodesSent' /\ CloseLast' /\ Deaf' /\ ClosedOnce'
<1> DEFINE o == Other(e)
<1>1. o \in End /\ o # e /\ Other(o) = e /\ \A d \in End : d = e \/ d = o
  BY OtherEnd, Ends
<1> HIDE DEF o
<1>2. wire \in [End -> Seq(Frames)] /\ state \in [End -> States]
  BY DEF CloseInv, TypeOK, Frames
<1>3. /\ f.code # "ABNORMAL" /\ alive[e] /\ state[e] = "OPEN" /\ Adds(o, f)
      /\ state' = IF f.op = "CLOSE" THEN [state EXCEPT ![e] = "CLOSING"] ELSE state
      /\ UNCHANGED <<hello, recv_len, fragment, events, starved, alive>>
  BY DEF Sends, o
<1>4. /\ \A d \in End : d # e => state'[d] = state[d]
      /\ state'[e] = IF f.op = "CLOSE" THEN "CLOSING" ELSE "OPEN"
  BY <1>2, <1>3
<1>5. HelloFirst' /\ ClosedOnce'
  <2>1. HelloFirst'
    BY <1>1, <1>3, <1>4 DEF CloseInv, HelloFirst, End
  <2>2. ClosedOnce'
    BY <1>1, <1>3, <1>4 DEF CloseInv, ClosedOnce
  <2> QED
    BY <2>1, <2>2
<1>6. UnitsOnWire'
  BY <1>1, <1>3, AddsUnits DEF CloseInv
<1>7. wire'[e] = wire[e] /\ \/ wire'[o] = wire[o]
                            \/ alive[o] /\ wire'[o] = Append(wire[o], f)
  BY <1>1, <1>2, <1>3 DEF Adds
<1>8. /\ Len(Append(wire[o], f)) = Len(wire[o]) + 1 /\ Append(wire[o], f)[Len(wire[o]) + 1] = f
      /\ \A i \in 1 .. Len(wire[o]) : Append(wire[o], f)[i] = wire[o][i]
      /\ Append(wire[o], f) # <<>> /\ Len(wire[o]) \in Nat
      /\ wire[o] # <<>> => Len(wire[o]) > 0
  BY <1>1, <1>2, AppendProperties, EmptySeq
<1>9. CodesSent'
  <2>1. ASSUME NEW d \in End, NEW i \in 1 .. Len(wire'[d]) PROVE wire'[d][i].code # "ABNORMAL"
    <3>1. CASE wire'[d] = wire[d]
      BY <3>1 DEF CloseInv, CodesSent
    <3>2. CASE d = o /\ wire'[o] = Append(wire[o], f)
      BY <1>1, <1>3, <1>8, <3>2 DEF CloseInv, CodesSent
    <3> QED
      BY <1>1, <1>7, <3>1, <3>2
  <2> QED
    BY <2>1 DEF CodesSent
<1>10. \A i \in 1 .. Len(wire[o]) : wire[o][i].op # "CLOSE"
  BY <1>1, <1>3 DEF CloseInv, CloseLast
<1>11. CloseLast'
  <2>1. ASSUME NEW d \in End, NEW i \in 1 .. Len(wire'[d]), wire'[d][i].op = "CLOSE"
        PROVE  /\ state'[Other(d)] \in {"CLOSING", "CLOSED"}
               /\ \A j \in i + 1 .. Len(wire'[d]) : wire'[d][j].op = "PONG"
    <3>1. CASE d = e
      <4>1. wire'[d] = wire[d] /\ Other(d) = o
        BY <1>7, <3>1 DEF o
      <4>2. state'[o] = state[o]
        BY <1>1, <1>4
      <4> QED
        BY <2>1, <4>1, <4>2 DEF CloseInv, CloseLast
    <3>2. CASE d = o
      <4>1. wire'[o] = Append(wire[o], f) /\ i = Len(wire[o]) + 1 /\ f.op = "CLOSE"
        BY <1>7, <1>8, <1>10, <2>1, <3>2
      <4> QED
        BY <1>1, <1>4, <1>8, <3>2, <4>1
    <3> QED
      BY <1>1, <3>1, <3>2
  <2> QED
    BY <2>1 DEF CloseLast
<1>12. Deaf'
  <2>1. ASSUME NEW d \in End, alive[d], state'[d] = "CLOSED"
        PROVE  Stuck(d)' \/ HadClose(d)'
    <3>1. d = o /\ state[o] = "CLOSED" /\ alive[o]
      BY <1>1, <1>4, <2>1
    <3>2. Stuck(o)
      BY <1>1, <1>3, <3>1 DEF CloseInv, Deaf, HadClose
    <3>3. wire[o] # <<>> /\ Size(wire[o][1]) > recv_len[o]
      BY <1>1, <1>3, <3>2 DEF Stuck
    <3>4. wire'[o] # <<>> /\ wire'[o][1] = wire[o][1]
      BY <1>7, <1>8, <3>3
    <3> QED
      BY <1>3, <3>1, <3>3, <3>4 DEF Stuck
  <2> QED
    BY <1>3, <2>1 DEF Deaf
<1> QED
  BY <1>5, <1>6, <1>9, <1>11, <1>12

LEMMA VanishCloses ==
  ASSUME CloseInv, NEW e \in End, Vanish(e)
  PROVE  HelloFirst' /\ UnitsOnWire' /\ CodesSent' /\ CloseLast' /\ Deaf' /\ ClosedOnce'
<1>1. /\ \A d \in End : d # e => alive'[d] = alive[d] /\ wire'[d] = wire[d]
                                 /\ queued'[d] = queued[d] /\ recv_len'[d] = recv_len[d]
      /\ alive'[e] = FALSE /\ wire'[e] = <<>> /\ queued'[e] = 0 /\ recv_len'[e] = 0
      /\ UNCHANGED <<hello, state, events, starved>>
  BY DEF CloseInv, TypeOK, Vanish
<1>2. HelloFirst' /\ ClosedOnce'
  BY <1>1 DEF CloseInv, HelloFirst, ClosedOnce
<1>3. UnitsOnWire'
  <2>1. ASSUME NEW d \in End PROVE Units(wire'[d], recv_len'[d] + queued'[d])
    <3>1. CASE d = e
      BY <1>1, <3>1, UnitsEmpty
    <3>2. CASE d # e
      BY <1>1, <3>2 DEF CloseInv, UnitsOnWire
    <3> QED
      BY <3>1, <3>2
  <2> QED
    BY <2>1 DEF UnitsOnWire
<1>4. Len(<<>>) = 0
  OBVIOUS
<1>5. CodesSent' /\ CloseLast'
  BY <1>1, <1>4 DEF CloseInv, CodesSent, CloseLast
<1>6. Deaf'
  <2>1. ASSUME NEW d \in End, alive'[d], state[d] = "CLOSED"
        PROVE  Stuck(d)' \/ HadClose(d)'
    <3>1. d # e /\ alive[d] /\ (Stuck(d) \/ HadClose(d))
      BY <1>1, <2>1 DEF CloseInv, Deaf
    <3>2. Other(d) = e
      BY <3>1, Ends, OtherEnd
    <3> QED
      BY <1>1, <3>1, <3>2 DEF Stuck, HadClose
  <2> QED
    BY <1>1, <2>1 DEF Deaf
<1> QED
  BY <1>2, <1>3, <1>5, <1>6

LEMMA ReceiveCloses ==
  ASSUME CloseInv, NEW e \in End, Receive(e)
  PROVE  HelloFirst' /\ UnitsOnWire' /\ CodesSent' /\ CloseLast' /\ Deaf' /\ ClosedOnce'
<1>1. PICK n \in 1 .. (IF queued[e] < Room(e) THEN queued[e] ELSE Room(e)) :
       /\ recv_len' = [recv_len EXCEPT ![e] = @ + n]
       /\ queued' = [queued EXCEPT ![e] = @ - n]
  BY DEF Receive
<1>2. /\ state[e] \in {"OPEN", "CLOSING"}
      /\ UNCHANGED <<hello, state, events, starved, alive, wire>>
  BY DEF Receive, MayProcess, peerVars
<1>3. /\ \A d \in End : queued[d] \in Nat /\ recv_len[d] \in Nat
      /\ RecvSize \in Nat
  BY WebSocketAssumption DEF CloseInv, TypeOK
<1>4. n \in Nat
  BY <1>1, <1>3 DEF Room
<1>5. /\ \A d \in End : d # e => recv_len'[d] = recv_len[d]
      /\ \A d \in End : recv_len'[d] + queued'[d] = recv_len[d] + queued[d]
  BY <1>1, <1>3, <1>4 DEF CloseInv, TypeOK
<1>6. HelloFirst' /\ ClosedOnce'
  BY <1>2, <1>5 DEF CloseInv, HelloFirst, ClosedOnce
<1>7. UnitsOnWire'
  BY <1>2, <1>5 DEF CloseInv, UnitsOnWire
<1>8. CodesSent' /\ CloseLast'
  BY <1>2 DEF CloseInv, CodesSent, CloseLast
<1>9. Deaf'
  BY <1>2, <1>5 DEF CloseInv, Deaf, Stuck, HadClose
<1> QED
  BY <1>6, <1>7, <1>8, <1>9

\* A connection fails only with too long a frame in its buffer, or when the
\* other program has gone.
LEMMA FailsForCause ==
  ASSUME TypeOK, UnitsOnWire, NEW e \in End, ReceiveFails(e)
  PROVE  Stuck(e) /\ (~alive[Other(e)] \/ TooLong(e))
<1>1. wire \in [End -> Seq(Frames)] /\ recv_len[e] \in Nat /\ RecvSize \in Nat /\ RecvSize > 0
  BY Numbers
<1>2. wire[e] # <<>> => Size(wire[e][1]) > recv_len[e] /\ Head(wire[e]) = wire[e][1]
  <2>1. SUFFICES ASSUME wire[e] # <<>> PROVE Size(wire[e][1]) > recv_len[e] /\ Head(wire[e]) = wire[e][1]
    OBVIOUS
  <2>2. wire[e][1] \in Frames
    BY <1>1, <2>1, ElementOfSeq, EmptySeq
  <2>3. Head(wire[e]) = wire[e][1]
    BY <1>1, <2>1
  <2>4. Size(wire[e][1]) \in Nat
    BY <2>2, FrameSize
  <2>5. ~(recv_len[e] >= Size(wire[e][1]))
    BY <2>1, <2>3 DEF ReceiveFails, MayProcess, WholeFrame
  <2> QED
    BY <1>1, <2>3, <2>4, <2>5
<1>3. CASE NoRoom(e)
  <2>1. recv_len[e] = RecvSize
    BY <1>1, <1>3 DEF NoRoom, Room
  <2>2. wire[e] # <<>>
    BY <1>1, <2>1, BufferNotIdle
  <2> QED
    BY <1>2, <2>1, <2>2 DEF Stuck, TooLong
<1>4. CASE ~alive[Other(e)]
  BY <1>2, <1>4 DEF Stuck
<1> QED
  BY <1>3, <1>4 DEF ReceiveFails

LEMMA AppendsOne ==
  ASSUME TypeOK, NEW e \in End, NEW v \in Event, Callback(e, v)
  PROVE  /\ \A d \in End : d # e => events'[d] = events[d]
         /\ Len(events'[e]) = Len(events[e]) + 1 /\ events'[e][Len(events'[e])] = v
         /\ Len(events[e]) \in Nat
         /\ \A i \in 1 .. Len(events[e]) : events'[e][i] = events[e][i]
<1>1. events \in [End -> Seq(Event)]
  BY DEF TypeOK
<1>2. events'[e] = Append(events[e], v) /\ \A d \in End : d # e => events'[d] = events[d]
  BY <1>1 DEF Callback
<1> QED
  BY <1>1, <1>2, AppendProperties

\* No callback comes after on_close: one comes on a connection not closed yet.
LEMMA OneMore ==
  ASSUME TypeOK, ClosedOnce, NEW e \in End, NEW v \in Event, Callback(e, v),
         state[e] # "CLOSED", v.callback = "on_close" => state'[e] = "CLOSED",
         \A d \in End : d # e => state'[d] = state[d]
  PROVE  ClosedOnce'
<1>1. ASSUME NEW d \in End, NEW i \in 1 .. Len(events'[d]), events'[d][i].callback = "on_close"
      PROVE  i = Len(events'[d]) /\ state'[d] = "CLOSED"
  <2>1. CASE d # e
    BY <1>1, <2>1, AppendsOne DEF ClosedOnce
  <2>2. CASE d = e
    <3>1. CASE i <= Len(events[e])
      <4>1. i \in 1 .. Len(events[e]) /\ events[e][i].callback = "on_close"
        BY <1>1, <2>2, <3>1, AppendsOne
      <4> QED
        BY <4>1 DEF ClosedOnce
    <3>2. CASE i = Len(events[e]) + 1
      BY <1>1, <2>2, <3>2, AppendsOne
    <3> QED
      BY <2>2, <3>1, <3>2, AppendsOne
  <2> QED
    BY <2>1, <2>2
<1> QED
  BY <1>1 DEF ClosedOnce

LEMMA ReceiveFailsCloses ==
  ASSUME CloseInv, NEW e \in End, ReceiveFails(e)
  PROVE  HelloFirst' /\ UnitsOnWire' /\ CodesSent' /\ CloseLast' /\ Deaf' /\ ClosedOnce'
<1>1. /\ state[e] \in {"OPEN", "CLOSING"} /\ state'[e] = "CLOSED"
      /\ \A d \in End : d # e => state'[d] = state[d]
      /\ Callback(e, OnClose("ABNORMAL"))
      /\ UNCHANGED <<hello, recv_len, alive, wire, queued>>
  BY DEF ReceiveFails, MayProcess, peerVars, netVars, CloseInv, TypeOK
<1>2. HelloFirst'
  BY <1>1 DEF CloseInv, HelloFirst, End
<1>3. UnitsOnWire' /\ CodesSent'
  BY <1>1 DEF CloseInv, UnitsOnWire, CodesSent
<1>4. CloseLast'
  BY <1>1, OtherEnd DEF CloseInv, CloseLast
<1>5. Deaf'
  <2>1. Stuck(e)'
    BY <1>1, FailsForCause DEF CloseInv, Stuck
  <2> QED
    BY <1>1, <2>1, OtherEnd DEF CloseInv, Deaf, Stuck, HadClose
<1>6. ClosedOnce'
  <2>1. OnClose("ABNORMAL") \in Event
    BY DEF OnClose, Event, Codes
  <2> QED
    BY <1>1, <2>1, OneMore DEF CloseInv
<1> QED
  BY <1>2, <1>3, <1>4, <1>5, <1>6

LEMMA HandleUnits ==
  ASSUME TypeOK, UnitsOnWire, NEW e \in End, NEW f \in Frames, Handles(e, f)
  PROVE  UnitsOnWire'
<1> DEFINE o == Other(e)
<1>1. o \in End /\ o # e /\ \A d \in End : d = e \/ d = o
  BY OtherEnd, Ends
<1>2. /\ wire \in [End -> Seq(Frames)] /\ queued \in [End -> Nat] /\ Size(f) \in Nat
      /\ recv_len \in [End -> 0 .. RecvSize] /\ \A d \in End : recv_len[d] \in Nat
  BY Numbers, FrameSize DEF TypeOK
<1>3. /\ wire[e] # <<>> /\ f = wire[e][1] /\ recv_len[e] >= Size(f)
      /\ recv_len' = [recv_len EXCEPT ![e] = @ - Size(f)]
      /\ \/ wire' = [wire EXCEPT ![e] = Tail(@)] /\ queued' = queued
         \/ \E g \in Frames : /\ wire' = [wire EXCEPT ![e] = Tail(@), ![o] = Append(@, g)]
                              /\ queued' = [queued EXCEPT ![o] = @ + Size(g)]
  BY DEF Handles, Answers
<1>4. Units(wire'[e], recv_len'[e] + queued'[e])
  <2>1. wire'[e] = Tail(wire[e]) /\ queued'[e] = queued[e] /\ recv_len'[e] = recv_len[e] - Size(f)
    BY <1>1, <1>2, <1>3
  <2>2. Units(Tail(wire[e]), (recv_len[e] + queued[e]) - Size(f))
    BY <1>2, <1>3, UnitsTail DEF UnitsOnWire
  <2>3. (recv_len[e] + queued[e]) - Size(f) = recv_len'[e] + queued'[e]
    BY <1>2, <2>1
  <2> QED
    BY <2>1, <2>2, <2>3
<1>5. Units(wire'[o], recv_len'[o] + queued'[o])
  <2>1. recv_len'[o] = recv_len[o]
    BY <1>1, <1>2, <1>3
  <2>2. CASE wire' = [wire EXCEPT ![e] = Tail(@)] /\ queued' = queued
    BY <1>1, <1>2, <2>1, <2>2 DEF UnitsOnWire
  <2>3. ASSUME NEW g \in Frames, wire' = [wire EXCEPT ![e] = Tail(@), ![o] = Append(@, g)],
               queued' = [queued EXCEPT ![o] = @ + Size(g)]
        PROVE  Units(wire'[o], recv_len'[o] + queued'[o])
    <3>1. wire'[o] = Append(wire[o], g) /\ queued'[o] = queued[o] + Size(g) /\ Size(g) \in Nat
      BY <1>1, <1>2, <2>3, FrameSize
    <3>2. Units(Append(wire[o], g), (recv_len[o] + queued[o]) + Size(g))
      BY <1>1, <1>2, UnitsAppend DEF UnitsOnWire
    <3>3. (recv_len[o] + queued[o]) + Size(g) = recv_len'[o] + queued'[o]
      BY <1>1, <1>2, <2>1, <3>1
    <3> QED
      BY <3>1, <3>2, <3>3
  <2> QED
    BY <1>3, <2>2, <2>3
<1> HIDE DEF o
<1> QED
  BY <1>1, <1>4, <1>5 DEF UnitsOnWire

\* What is on the way after a frame has been handled.
LEMMA HandleWires ==
  ASSUME TypeOK, NEW e \in End, NEW f \in Frames, Handles(e, f)
  PROVE  /\ Len(wire[e]) \in Nat /\ Len(wire'[e]) = Len(wire[e]) - 1 /\ Len(wire[e]) > 0
         /\ \A i \in 1 .. Len(wire'[e]) : wire'[e][i] = wire[e][i + 1]
         /\ Len(wire[Other(e)]) \in Nat
         /\ wire[Other(e)] # <<>> => Len(wire[Other(e)]) > 0
         /\ \/ wire'[Other(e)] = wire[Other(e)]
            \/ \E g \in Frames :
                 /\ Answers(e, f, g)
                 /\ Len(wire'[Other(e)]) = Len(wire[Other(e)]) + 1
                 /\ wire'[Other(e)] # <<>>
                 /\ wire'[Other(e)][Len(wire[Other(e)]) + 1] = g
                 /\ \A i \in 1 .. Len(wire[Other(e)]) : wire'[Other(e)][i] = wire[Other(e)][i]
<1> DEFINE o == Other(e)
<1>1. o \in End /\ o # e
  BY OtherEnd
<1>2. wire \in [End -> Seq(Frames)]
  BY Numbers
<1>3. wire'[e] = Tail(wire[e]) /\ wire[e] # <<>>
  BY <1>1, <1>2 DEF Handles, Answers
<1>4. /\ Len(wire[e]) \in Nat /\ Len(wire'[e]) = Len(wire[e]) - 1 /\ Len(wire[e]) > 0
      /\ \A i \in 1 .. Len(wire'[e]) : wire'[e][i] = wire[e][i + 1]
  BY <1>2, <1>3, HeadTailProperties, EmptySeq
<1>5. Len(wire[o]) \in Nat /\ (wire[o] # <<>> => Len(wire[o]) > 0)
  BY <1>1, <1>2, EmptySeq
<1>6. CASE wire' = [wire EXCEPT ![e] = Tail(@)] /\ queued' = queued
  BY <1>1, <1>2, <1>4, <1>5, <1>6
<1>7. ASSUME NEW g \in Frames, Answers(e, f, g)
      PROVE  /\ Len(wire'[o]) = Len(wire[o]) + 1
             /\ wire'[o] # <<>>
             /\ wire'[o][Len(wire[o]) + 1] = g
             /\ \A i \in 1 .. Len(wire[o]) : wire'[o][i] = wire[o][i]
  <2>1. wire'[o] = Append(wire[o], g)
    BY <1>1, <1>2, <1>7 DEF Answers
  <2> QED
    BY <1>1, <1>2, <2>1, AppendProperties
<1> QED
  BY <1>4, <1>5, <1>6, <1>7 DEF Handles

LEMMA HandleCloses ==
  ASSUME CloseInv, NEW e \in End, HandleFrame(e)
  PROVE  HelloFirst' /\ UnitsOnWire' /\ CodesSent' /\ CloseLast' /\ Deaf' /\ ClosedOnce'
<1> DEFINE o == Other(e)
           f == wire[e][1]
<1>1. o \in End /\ o # e /\ Other(o) = e /\ \A d \in End : d = e \/ d = o
  BY OtherEnd, Ends
<1>2. TypeOK /\ HelloFirst /\ UnitsOnWire /\ CodesSent /\ CloseLast /\ Deaf /\ ClosedOnce
  BY DEF CloseInv
<1>3. /\ Handles(e, f)
      /\ OnFirst(e, f) \/ OnWhole(e, f) \/ OnContinuation(e, f) \/ OnCloseFrame(e, f)
         \/ OnControl(e, f)
  BY <1>2, HandleFrameHandles DEF CodesSent
<1>4. f \in Frames /\ alive[e] /\ UNCHANGED <<hello, alive>> /\ wire[e] # <<>>
  BY <1>3 DEF Handles
<1> HIDE DEF o, f
<1>5. Size(f) \in Nat /\ Size(f) > 0 /\ recv_len[e] >= Size(f) /\ recv_len[e] \in Nat
  BY <1>2, <1>3, <1>4, Numbers, FrameSize DEF Handles
<1>6. /\ Len(wire[e]) \in Nat /\ Len(wire'[e]) = Len(wire[e]) - 1 /\ Len(wire[e]) > 0
      /\ \A i \in 1 .. Len(wire'[e]) : wire'[e][i] = wire[e][i + 1]
      /\ Len(wire[o]) \in Nat /\ (wire[o] # <<>> => Len(wire[o]) > 0)
      /\ \/ wire'[o] = wire[o]
         \/ \E g \in Frames :
              /\ Answers(e, f, g)
              /\ Len(wire'[o]) = Len(wire[o]) + 1
              /\ wire'[o] # <<>>
              /\ wire'[o][Len(wire[o]) + 1] = g
              /\ \A i \in 1 .. Len(wire[o]) : wire'[o][i] = wire[o][i]
  BY <1>2, <1>3, <1>4, HandleWires DEF o
<1>7. state[e] # "none" /\ state \in [End -> States]
  BY <1>2, <1>5 DEF HelloFirst, TypeOK
\* A closed connection has PONGs only.
<1>8. state[e] = "CLOSED" => f.op = "PONG"
  <2>1. ~Stuck(e)
    BY <1>4, <1>5 DEF Stuck, f
  <2>2. 1 \in 1 .. Len(wire[e])
    BY <1>6
  <2> QED
    BY <1>2, <1>4, <2>1, <2>2 DEF Deaf, HadClose, f
<1>9. /\ \A d \in End : d # e => state'[d] = state[d]
      /\ state'[e] = IF f.op = "CLOSE" THEN "CLOSED" ELSE state[e]
  <2>1. CASE OnCloseFrame(e, f)
    BY <1>7, <2>1 DEF OnCloseFrame
  <2>2. CASE f.op # "CLOSE" /\ UNCHANGED state
    BY <2>2
  <2>3. OnFirst(e, f) \/ OnWhole(e, f) \/ OnContinuation(e, f) \/ OnControl(e, f)
        => f.op # "CLOSE" /\ UNCHANGED state
    BY DEF OnFirst, OnWhole, OnContinuation, OnControl
  <2> QED
    BY <1>3, <2>1, <2>2, <2>3
<1>10. \A d \in End : d # e => recv_len'[d] = recv_len[d]
  BY <1>2, <1>3 DEF Handles, TypeOK
<1>11. HelloFirst'
  BY <1>1, <1>4, <1>7, <1>9, <1>10, <1>2 DEF HelloFirst, End
<1>12. UnitsOnWire'
  BY <1>2, <1>3, <1>4, HandleUnits
<1>13. CodesSent'
  <2>1. \A i \in 1 .. Len(wire'[e]) : wire'[e][i].code # "ABNORMAL"
    BY <1>2, <1>6 DEF CodesSent
  <2>2. \A i \in 1 .. Len(wire'[o]) : wire'[o][i].code # "ABNORMAL"
    <3>1. \A i \in 1 .. Len(wire[o]) : wire[o][i].code # "ABNORMAL"
      BY <1>1, <1>2 DEF CodesSent
    <3>2. CASE wire'[o] = wire[o]
      BY <3>1, <3>2
    <3>3. ASSUME NEW g \in Frames, Answers(e, f, g) PROVE g.code # "ABNORMAL"
      BY <3>3 DEF Answers
    <3> QED
      BY <1>6, <3>1, <3>2, <3>3
  <2> QED
    BY <1>1, <2>1, <2>2 DEF CodesSent
\* A CLOSE goes out only on a connection that was open.
<1>14. ASSUME NEW g \in Frames, Answers(e, f, g), g.op = "CLOSE"
       PROVE  state[e] = "OPEN" /\ state'[e] = "CLOSED"
  <2>1. f.op = "CLOSE" /\ state[e] # "CLOSING"
    BY <1>14 DEF Answers
  <2> QED
    BY <1>7, <1>8, <1>9, <2>1 DEF States
<1>15. CloseLast'
  <2>1. ASSUME NEW i \in 1 .. Len(wire'[e]), wire'[e][i].op = "CLOSE"
        PROVE  /\ state'[o] \in {"CLOSING", "CLOSED"}
               /\ \A j \in i + 1 .. Len(wire'[e]) : wire'[e][j].op = "PONG"
    <3>1. i + 1 \in 1 .. Len(wire[e]) /\ wire[e][i + 1].op = "CLOSE"
      BY <1>6, <2>1
    <3>2. /\ state[o] \in {"CLOSING", "CLOSED"}
          /\ \A j \in (i + 1) + 1 .. Len(wire[e]) : wire[e][j].op = "PONG"
      BY <1>2, <3>1 DEF CloseLast, o
    <3>3. ASSUME NEW j \in i + 1 .. Len(wire'[e]) PROVE wire'[e][j].op = "PONG"
      <4>1. j + 1 \in (i + 1) + 1 .. Len(wire[e]) /\ j \in 1 .. Len(wire'[e])
        BY <1>6
      <4> QED
        BY <1>6, <3>2, <4>1
    <3> QED
      BY <1>1, <1>9, <3>2, <3>3
  <2>2. ASSUME NEW i \in 1 .. Len(wire'[o]), wire'[o][i].op = "CLOSE"
        PROVE  /\ state'[e] \in {"CLOSING", "CLOSED"}
               /\ \A j \in i + 1 .. Len(wire'[o]) : wire'[o][j].op = "PONG"
    <3>1. state[e] \in {"CLOSING", "CLOSED"} => state'[e] \in {"CLOSING", "CLOSED"}
      BY <1>9
    <3>2. CASE wire'[o] = wire[o]
      BY <1>1, <1>2, <2>2, <3>1, <3>2 DEF CloseLast
    <3>3. ASSUME NEW g \in Frames, Answers(e, f, g),
                 Len(wire'[o]) = Len(wire[o]) + 1,
                 wire'[o][Len(wire[o]) + 1] = g,
                 \A k \in 1 .. Len(wire[o]) : wire'[o][k] = wire[o][k]
          PROVE  /\ state'[e] \in {"CLOSING", "CLOSED"}
                 /\ \A j \in i + 1 .. Len(wire'[o]) : wire'[o][j].op = "PONG"
      <4>1. CASE i = Len(wire[o]) + 1
        BY <1>6, <1>14, <2>2, <3>3, <4>1
      <4>2. CASE i <= Len(wire[o])
        <5>1. i \in 1 .. Len(wire[o]) /\ wire[o][i].op = "CLOSE"
          BY <1>6, <2>2, <3>3, <4>2
        <5>2. /\ state[e] \in {"CLOSING", "CLOSED"}
              /\ \A j \in i + 1 .. Len(wire[o]) : wire[o][j].op = "PONG"
          BY <1>1, <1>2, <5>1 DEF CloseLast
        <5>3. g.op = "PONG"
          BY <1>14, <3>3, <5>2 DEF Answers
        <5>4. ASSUME NEW j \in i + 1 .. Len(wire'[o]) PROVE wire'[o][j].op = "PONG"
          <6>1. CASE j = Len(wire[o]) + 1
            BY <3>3, <5>3, <6>1
          <6>2. CASE j # Len(wire[o]) + 1
            <7>1. j \in 1 .. Len(wire[o]) /\ j \in i + 1 .. Len(wire[o])
              BY <1>6, <3>3, <5>1, <6>2
            <7> QED
              BY <3>3, <5>2, <7>1
          <6> QED
            BY <6>1, <6>2
        <5> QED
          BY <3>1, <5>2, <5>4
      <4> QED
        BY <1>6, <3>3, <4>1, <4>2
    <3> QED
      BY <1>6, <3>2, <3>3
  <2> QED
    BY <1>1, <2>1, <2>2 DEF CloseLast, o
<1>16. Deaf'
  <2>1. ASSUME state'[e] = "CLOSED" PROVE HadClose(e)'
    <3>1. 1 \in 1 .. Len(wire[e])
      BY <1>6
    <3>2. ASSUME NEW i \in 1 .. Len(wire'[e])
          PROVE  i + 1 \in 1 .. Len(wire[e]) /\ i + 1 \in 1 + 1 .. Len(wire[e])
                 /\ wire'[e][i] = wire[e][i + 1]
      BY <1>6
    <3>3. CASE f.op = "CLOSE"
      <4>1. /\ state[o] \in {"CLOSING", "CLOSED"}
            /\ \A j \in 1 + 1 .. Len(wire[e]) : wire[e][j].op = "PONG"
        BY <1>2, <3>1, <3>3 DEF CloseLast, f, o
      <4> QED
        BY <1>1, <1>9, <3>2, <4>1 DEF HadClose, o
    <3>4. CASE f.op # "CLOSE"
      <4>1. HadClose(e)
        <5>1. ~Stuck(e) /\ state[e] = "CLOSED"
          BY <1>4, <1>5, <1>9, <2>1, <3>4 DEF Stuck, f
        <5> QED
          BY <1>2, <1>4, <5>1 DEF Deaf
      <4> QED
        BY <1>1, <1>9, <3>2, <4>1 DEF HadClose, o
    <3> QED
      BY <3>3, <3>4
  <2>2. ASSUME alive[o], state'[o] = "CLOSED" PROVE Stuck(o)' \/ HadClose(o)'
    <3>1. state[o] = "CLOSED" /\ recv_len'[o] = recv_len[o]
      BY <1>1, <1>9, <1>10, <2>2
    <3>2. Stuck(o) \/ HadClose(o)
      BY <1>1, <1>2, <2>2, <3>1 DEF Deaf
    <3>3. state[e] \in {"CLOSING", "CLOSED"} => state'[e] \in {"CLOSING", "CLOSED"}
      BY <1>9
    <3>4. CASE Stuck(o)
      <4>1. wire[o] # <<>> /\ Size(wire[o][1]) > recv_len[o]
        BY <1>1, <1>4, <3>4 DEF Stuck
      <4>2. wire'[o] # <<>> /\ wire'[o][1] = wire[o][1]
        BY <1>6, <4>1
      <4> QED
        BY <3>1, <4>1, <4>2 DEF Stuck
    <3>5. CASE HadClose(o)
      <4>1. state[e] \in {"CLOSING", "CLOSED"} /\ \A i \in 1 .. Len(wire[o]) : wire[o][i].op = "PONG"
        BY <1>1, <3>5 DEF HadClose
      <4>2. \A i \in 1 .. Len(wire'[o]) : wire'[o][i].op = "PONG"
        <5>1. CASE wire'[o] = wire[o]
          BY <4>1, <5>1
        <5>2. ASSUME NEW g \in Frames, Answers(e, f, g) PROVE g.op = "PONG"
          BY <1>14, <4>1, <5>2 DEF Answers
        <5> QED
          BY <1>6, <4>1, <5>1, <5>2
      <4> QED
        BY <1>1, <3>3, <4>1, <4>2 DEF HadClose
    <3> QED
      BY <3>2, <3>4, <3>5
  <2> QED
    BY <1>1, <1>4, <2>1, <2>2 DEF Deaf
<1>17. ClosedOnce'
  <2>1. CASE UNCHANGED events
    <3>1. \A d \in End : state[d] = "CLOSED" => state'[d] = "CLOSED"
      BY <1>9
    <3> QED
      BY <1>2, <2>1, <3>1 DEF ClosedOnce
  <2>2. ASSUME NEW v \in Event, Callback(e, v),
               state[e] # "CLOSED", v.callback = "on_close" => f.op = "CLOSE"
        PROVE  ClosedOnce'
    BY <1>2, <1>9, <2>2, OneMore
  <2>3. f.data \in Seq(Unit) /\ close_code(f) \in Codes
    BY <1>4 DEF Frames, close_code, Codes
  <2>4. CASE OnFirst(e, f)
    BY <2>1, <2>4 DEF OnFirst
  <2>5. CASE OnWhole(e, f)
    <3>1. OnMessage(f.op, f.data) \in Event /\ OnMessage(f.op, f.data).callback # "on_close"
      BY <2>3, <2>5 DEF OnWhole, OnMessage, Event
    <3>2. state[e] # "CLOSED"
      BY <1>8, <2>5 DEF OnWhole
    <3>3. UNCHANGED events \/ Callback(e, OnMessage(f.op, f.data))
      BY <2>5 DEF OnWhole
    <3> QED
      BY <2>1, <2>2, <3>1, <3>2, <3>3
  <2>6. CASE OnContinuation(e, f)
    <3> DEFINE m == Message(fragment[e][1].op, fragment[e][1].data \o f.data)
    <3>1. UNCHANGED events \/ (fragment[e] # <<>> /\ Callback(e, OnMessage(m.op, m.data)))
      BY <2>6 DEF OnContinuation
    <3>2. CASE fragment[e] # <<>> /\ Callback(e, OnMessage(m.op, m.data))
      <4>1. fragment[e][1] \in Msg
        BY <1>2, <3>2 DEF TypeOK
      <4>2. m.op \in {"TEXT", "BINARY"} /\ m.data \in Seq(Unit)
        BY <2>3, <4>1 DEF Msg, Message
      <4> HIDE DEF m
      <4>3. OnMessage(m.op, m.data) \in Event /\ OnMessage(m.op, m.data).callback # "on_close"
        BY <4>2 DEF OnMessage, Event
      <4>4. state[e] # "CLOSED"
        BY <1>8, <2>6 DEF OnContinuation
      <4> QED
        BY <2>2, <3>2, <4>3, <4>4
    <3> QED
      BY <2>1, <3>1, <3>2
  <2>7. CASE OnCloseFrame(e, f)
    <3>1. OnClose(close_code(f)) \in Event
      BY <2>3 DEF OnClose, Event
    <3>2. state[e] # "CLOSED" /\ f.op = "CLOSE" /\ Callback(e, OnClose(close_code(f)))
      BY <1>8, <2>7 DEF OnCloseFrame
    <3> QED
      BY <2>2, <3>1, <3>2
  <2>8. CASE OnControl(e, f)
    <3>1. OnError \in Event /\ OnError.callback # "on_close"
      BY DEF OnError, Event
    <3>2. UNCHANGED events \/ (Callback(e, OnError) /\ state[e] # "CLOSED")
      BY <1>8, <2>8 DEF OnControl
    <3> QED
      BY <2>1, <2>2, <3>1, <3>2
  <2> QED
    BY <1>3, <2>4, <2>5, <2>6, <2>7, <2>8
<1> QED
  BY <1>11, <1>12, <1>13, <1>15, <1>16, <1>17

LEMMA InitCloses == Init => CloseInv
<1>1. SUFFICES ASSUME Init PROVE CloseInv
  OBVIOUS
<1>2. Len(<<>>) = 0
  OBVIOUS
<1>3. HelloFirst /\ CodesSent /\ CloseLast /\ Deaf /\ ClosedOnce
  BY <1>1, <1>2 DEF Init, HelloFirst, CodesSent, CloseLast, Deaf, ClosedOnce, Hellos, End
<1>4. UnitsOnWire
  BY <1>1, UnitsEmpty DEF Init, UnitsOnWire
<1> QED
  BY <1>1, <1>3, <1>4, InitTypes DEF CloseInv

LEMMA NextCloses == CloseInv /\ [Next]_vars => CloseInv'
<1>1. SUFFICES ASSUME CloseInv, [Next]_vars PROVE CloseInv'
  OBVIOUS
<1>2. TypeOK /\ TypeOK'
  BY <1>1, HandshakeTypes, ProgramTypes, ReceiveTypes, HandleFrameTypes
     DEF CloseInv, Next, Process, TypeOK, vars, connVars, peerVars, netVars
<1>3. ASSUME NEW e \in End, Program(e) PROVE CloseInv'
  <2>1. CASE Vanish(e)
    BY <1>1, <1>2, <2>1, VanishCloses DEF CloseInv
  <2>2. CASE ~Vanish(e)
    <3>1. PICK f \in Frames : Sends(e, f)
      BY <1>2, <1>3, <2>2, ProgramSends
    <3> QED
      BY <1>1, <1>2, <3>1, SendCloses DEF CloseInv
  <2> QED
    BY <2>1, <2>2
<1>4. ASSUME NEW e \in End, Process(e) PROVE CloseInv'
  BY <1>1, <1>2, <1>4, ReceiveCloses, ReceiveFailsCloses, HandleCloses DEF CloseInv, Process
<1>5. CASE UNCHANGED vars
  <2>1. UNCHANGED <<hello, state, wire, queued, recv_len, alive, events>>
    BY <1>5 DEF vars, connVars, peerVars, netVars
  <2> QED
    BY <1>1, <1>2, <2>1 DEF CloseInv, HelloFirst, UnitsOnWire, CodesSent, CloseLast, Deaf,
                            Stuck, HadClose, ClosedOnce
<1> QED
  BY <1>1, <1>2, <1>3, <1>4, <1>5, HandshakeCloses DEF CloseInv, Next

LEMMA CloseInvariance == Spec => []CloseInv
BY InitCloses, NextCloses, PTL DEF Spec

\* Every variable stays in its range: recv_buffer_len within the buffer, and
\* at most one message in fragment_buffer.
THEOREM Types == Spec => []TypeOK
<1>1. CloseInv => TypeOK
  BY DEF CloseInv
<1> QED
  BY <1>1, CloseInvariance, PTL

\* cwh_ws_process calls on_close once and calls nothing after it, although its
\* loop goes on with the frames behind a CLOSE.
THEOREM CloseIsLast == Spec => []ClosedOnce
<1>1. CloseInv => ClosedOnce
  BY DEF CloseInv
<1> QED
  BY <1>1, CloseInvariance, PTL

\* cwh_ws_process takes a full buffer or a failing recv for the end of the
\* connection only when the other end is gone or has sent too long a frame.
THEOREM EndsForCause == Spec => AbnormalForCause
<1> DEFINE Caused == \A e \in End :
      events'[e] # events[e] /\ events'[e][Len(events'[e])] = OnClose("ABNORMAL")
        => ~alive[Other(e)] \/ TooLong(e)
<1>1. CloseInv /\ [Next]_vars => [Caused]_vars
  <2>1. SUFFICES ASSUME CloseInv, Next, NEW e \in End, events'[e] # events[e],
                        events'[e][Len(events'[e])] = OnClose("ABNORMAL")
                 PROVE  ~alive[Other(e)] \/ TooLong(e)
    OBVIOUS
  <2>2. TypeOK /\ UnitsOnWire /\ CodesSent
    BY <2>1 DEF CloseInv
  <2>3. PICK d \in End : ReceiveFails(d) \/ HandleFrame(d)
    <3>1. CASE \/ cwh_ws_client_handshake \/ cwh_ws_server_handshake
               \/ ServerRefuses \/ cwh_ws_client_validate_handshake
      BY <2>1, <3>1 DEF cwh_ws_client_handshake, cwh_ws_server_handshake, ServerRefuses,
                        cwh_ws_client_validate_handshake, Handshake
    <3>2. ASSUME NEW d \in End, Vanish(d) PROVE FALSE
      BY <2>1, <3>2 DEF Vanish
    <3>3. ASSUME NEW d \in End, Program(d), ~Vanish(d) PROVE FALSE
      BY <2>1, <2>2, <3>3, ProgramSends DEF Sends
    <3>4. ASSUME NEW d \in End, Receive(d) PROVE FALSE
      BY <2>1, <3>4 DEF Receive
    <3> QED
      BY <2>1, <3>1, <3>2, <3>3, <3>4 DEF Next, Process
  <2>4. CASE ReceiveFails(d)
    <3>1. d = e
      BY <2>1, <2>2, <2>4 DEF ReceiveFails, Callback, TypeOK
    <3> QED
      BY <2>2, <2>4, <3>1, FailsForCause
  <2>5. CASE HandleFrame(d)
    <3> DEFINE f == wire[d][1]
    <3>1. /\ Handles(d, f)
          /\ OnFirst(d, f) \/ OnWhole(d, f) \/ OnContinuation(d, f) \/ OnCloseFrame(d, f)
             \/ OnControl(d, f)
      BY <2>2, <2>5, HandleFrameHandles DEF CodesSent
    <3>2. f \in Frames /\ f.code # "ABNORMAL"
      <4>1. f \in Frames /\ wire[d] # <<>> /\ wire \in [End -> Seq(Frames)]
        BY <2>2, <3>1, Numbers DEF Handles
      <4>2. 1 \in 1 .. Len(wire[d])
        BY <4>1, EmptySeq
      <4> QED
        BY <2>2, <4>1, <4>2 DEF CodesSent
    <3> HIDE DEF f
    <3>3. ASSUME NEW v \in Event, Callback(d, v), v # OnClose("ABNORMAL") PROVE FALSE
      BY <2>1, <2>2, <3>3, AppendsOne
    <3>4. f.data \in Seq(Unit) /\ close_code(f) \in Codes \ {"ABNORMAL"}
      BY <3>2 DEF Frames, close_code, Codes
    <3>5. CASE OnFirst(d, f)
      BY <2>1, <3>5 DEF OnFirst
    <3>6. CASE OnWhole(d, f)
      <4>1. OnMessage(f.op, f.data) \in Event /\ OnMessage(f.op, f.data) # OnClose("ABNORMAL")
        BY <3>4, <3>6 DEF OnWhole, OnMessage, OnClose, Event
      <4>2. UNCHANGED events \/ Callback(d, OnMessage(f.op, f.data))
        BY <3>6 DEF OnWhole
      <4> QED
        BY <2>1, <3>3, <4>1, <4>2
    <3>7. CASE OnContinuation(d, f)
      <4> DEFINE m == Message(fragment[d][1].op, fragment[d][1].data \o f.data)
      <4>1. fragment[d] # <<>> /\ Callback(d, OnMessage(m.op, m.data))
        BY <2>1, <3>7 DEF OnContinuation
      <4>2. fragment[d][1] \in Msg
        BY <2>2, <4>1, SMTT(30) DEF TypeOK
      <4>3. m.op \in {"TEXT", "BINARY"} /\ m.data \in Seq(Unit)
        BY <3>4, <4>2 DEF Msg, Message
      <4> HIDE DEF m
      <4>4. OnMessage(m.op, m.data) \in Event /\ OnMessage(m.op, m.data) # OnClose("ABNORMAL")
        BY <4>3 DEF OnMessage, OnClose, Event
      <4> QED
        BY <3>3, <4>1, <4>4
    <3>8. CASE OnCloseFrame(d, f)
      <4>1. /\ OnClose(close_code(f)) \in Event
            /\ OnClose(close_code(f)) # OnClose("ABNORMAL")
        <5>1. OnClose(close_code(f)).code = close_code(f) /\ OnClose("ABNORMAL").code = "ABNORMAL"
          BY DEF OnClose
        <5>2. OnClose(close_code(f)) \in Event
          BY <3>4 DEF OnClose, Event
        <5> QED
          BY <3>4, <5>1, <5>2
      <4> QED
        BY <3>3, <3>8, <4>1 DEF OnCloseFrame
    <3>9. CASE OnControl(d, f)
      <4>1. OnError \in Event /\ OnError # OnClose("ABNORMAL")
        BY DEF OnError, OnClose, Event
      <4>2. UNCHANGED events \/ Callback(d, OnError)
        BY <3>9 DEF OnControl
      <4> QED
        BY <2>1, <3>3, <4>1, <4>2
    <3> QED
      BY <3>1, <3>5, <3>6, <3>7, <3>8, <3>9
  <2> QED
    BY <2>3, <2>4, <2>5
<1>2. AbnormalForCause <=> [][Caused]_vars
  BY DEF AbnormalForCause
<1> HIDE DEF Caused
<1> QED
  BY <1>1, <1>2, CloseInvariance, PTL DEF Spec

-----------------------------------------------------------------------------
(* Counting messages among callbacks.                                      *)

LEMMA CountNat ==
  ASSUME NEW calls, NEW i \in Nat
  PROVE  Count(calls, i) \in Nat
<1>1. IsFiniteSet(1 .. i)
  BY FS_Interval
<1>2. IsFiniteSet({j \in 1 .. i : IsMessage(calls[j])})
  BY <1>1, FS_Subset
<1> QED
  BY <1>2, FS_CardinalityType DEF Count

LEMMA CountSame ==
  ASSUME NEW calls, NEW more, NEW i \in Nat, \A j \in 1 .. i : more[j] = calls[j]
  PROVE  Count(more, i) = Count(calls, i)
<1>1. {j \in 1 .. i : IsMessage(more[j])} = {j \in 1 .. i : IsMessage(calls[j])}
  OBVIOUS
<1> QED
  BY <1>1 DEF Count

LEMMA CountNext ==
  ASSUME NEW calls, NEW i \in Nat
  PROVE  Count(calls, i + 1) = Count(calls, i) + (IF IsMessage(calls[i + 1]) THEN 1 ELSE 0)
<1> DEFINE M(k) == {j \in 1 .. k : IsMessage(calls[j])}
<1>1. IsFiniteSet(M(i)) /\ i + 1 \notin M(i)
  <2>1. IsFiniteSet(1 .. i)
    BY FS_Interval
  <2> QED
    BY <2>1, FS_Subset
<1>2. CASE IsMessage(calls[i + 1])
  <2>1. M(i + 1) = M(i) \cup {i + 1}
    BY <1>2
  <2>2. Cardinality(M(i) \cup {i + 1}) = Cardinality(M(i)) + 1
    BY <1>1, FS_AddElement
  <2> QED
    BY <1>2, <2>1, <2>2 DEF Count
<1>3. CASE ~IsMessage(calls[i + 1])
  <2>1. M(i + 1) = M(i)
    <3>1. \A j \in 1 .. i + 1 : j \in 1 .. i \/ j = i + 1
      OBVIOUS
    <3> QED
      BY <1>3, <3>1
  <2>2. Count(calls, i) \in Nat
    BY CountNat
  <2> QED
    BY <1>3, <2>1, <2>2 DEF Count
<1> QED
  BY <1>2, <1>3

-----------------------------------------------------------------------------
(* How the stream goes on.                                                 *)

Extends(s, t) == Len(s) <= Len(t) /\ \A i \in 1 .. Len(s) : t[i] = s[i]

LEMMA MovesExtends ==
  ASSUME NEW s \in Seq(Msg), NEW t \in Seq(Msg), Extends(s, t), NEW f,
         NEW n \in Nat, NEW k \in Nat, NEW m \in Nat, NEW l \in Nat, Moves(s, f, n, k, m, l)
  PROVE  Moves(t, f, n, k, m, l)
<1>0. Len(s) \in Nat /\ Len(t) \in Nat
  OBVIOUS
<1>1. CASE Begins(s, f, n, k, m, l)
  <2>1. m \in 1 .. Len(s)
    BY <1>0, <1>1 DEF Begins
  <2>2. t[m] = s[m] /\ m <= Len(t)
    BY <1>0, <2>1 DEF Extends
  <2> QED
    BY <1>1, <2>2 DEF Begins, Moves
<1>2. CASE Continues(s, f, n, k, m, l)
  <2>1. n \in 1 .. Len(s)
    BY <1>2 DEF Continues
  <2>2. t[n] = s[n] /\ n \in 1 .. Len(t)
    BY <1>0, <2>1 DEF Extends
  <2> QED
    BY <1>2, <2>2 DEF Continues, Moves
<1>3. CASE Stays(f, n, k, m, l)
  BY <1>3 DEF Moves
<1> QED
  BY <1>1, <1>2, <1>3 DEF Moves

LEMMA ReceivedExtends ==
  ASSUME NEW s \in Seq(Msg), NEW t \in Seq(Msg), Extends(s, t), NEW b,
         NEW c \in Nat, NEW n \in Nat, NEW k \in Nat, Received(s, b, c, n, k)
  PROVE  Received(t, b, c, n, k)
<1>0. Len(s) \in Nat /\ Len(t) \in Nat
  OBVIOUS
<1>1. CASE b = <<>>
  BY <1>1 DEF Received
<1>2. CASE b # <<>>
  <2>1. n \in 1 .. Len(s)
    BY <1>2 DEF Received
  <2>2. t[n] = s[n] /\ n \in 1 .. Len(t)
    BY <1>0, <2>1 DEF Extends
  <2> QED
    BY <1>2, <2>2 DEF Received
<1> QED
  BY <1>1, <1>2

\* A frame more at the sender's end, of what is sent until then or of a new message.
LEMMA StreamAppend ==
  ASSUME NEW s \in Seq(Msg), NEW t \in Seq(Msg), Extends(s, t),
         NEW w \in Seq(Frames), NEW f \in Frames, NEW b, NEW c \in Nat,
         NEW live, NEW p, NEW after, NEW q,
         Stream(s, w, b, c, live, p),
         \A n, k \in Nat : Written(s, live, p, n, k) =>
           \E m, l \in Nat : Moves(t, f, n, k, m, l) /\ Written(t, after, q, m, l)
  PROVE  Stream(t, Append(w, f), b, c, after, q)
<1>1. PICK num \in [0 .. Len(w) -> Nat], off \in [0 .. Len(w) -> Nat] :
        /\ Received(s, b, c, num[0], off[0])
        /\ \A i \in 1 .. Len(w) : Moves(s, w[i], num[i - 1], off[i - 1], num[i], off[i])
        /\ Written(s, live, p, num[Len(w)], off[Len(w)])
  BY DEF Stream
<1>2. Len(w) \in Nat /\ Len(w) \in 0 .. Len(w) /\ 0 \in 0 .. Len(w)
  OBVIOUS
<1>3. num[Len(w)] \in Nat /\ off[Len(w)] \in Nat /\ num[0] \in Nat /\ off[0] \in Nat
  BY <1>2
<1>4. PICK m \in Nat, l \in Nat : /\ Moves(t, f, num[Len(w)], off[Len(w)], m, l)
                                  /\ Written(t, after, q, m, l)
  BY <1>1, <1>3
<1> DEFINE v    == Append(w, f)
           num2 == [i \in 0 .. Len(v) |-> IF i <= Len(w) THEN num[i] ELSE m]
           off2 == [i \in 0 .. Len(v) |-> IF i <= Len(w) THEN off[i] ELSE l]
<1>5. Len(v) = Len(w) + 1 /\ v[Len(w) + 1] = f /\ \A i \in 1 .. Len(w) : v[i] = w[i]
  BY AppendProperties
<1> HIDE DEF v
<1>6. num2 \in [0 .. Len(v) -> Nat] /\ off2 \in [0 .. Len(v) -> Nat]
  BY <1>2, <1>5
<1>7. /\ \A i \in 0 .. Len(w) : num2[i] = num[i] /\ off2[i] = off[i]
      /\ num2[Len(w) + 1] = m /\ off2[Len(w) + 1] = l
  BY <1>2, <1>5
<1> HIDE DEF num2, off2
<1>8. Received(t, b, c, num2[0], off2[0])
  BY <1>1, <1>2, <1>3, <1>7, ReceivedExtends
<1>9. ASSUME NEW i \in 1 .. Len(v)
      PROVE  Moves(t, v[i], num2[i - 1], off2[i - 1], num2[i], off2[i])
  <2>1. CASE i \in 1 .. Len(w)
    <3>1. i - 1 \in 0 .. Len(w) /\ i \in 0 .. Len(w) /\ v[i] = w[i]
      BY <1>2, <1>5, <2>1
    <3>2. Moves(s, w[i], num[i - 1], off[i - 1], num[i], off[i])
      BY <1>1, <2>1
    <3>3. num[i - 1] \in Nat /\ off[i - 1] \in Nat /\ num[i] \in Nat /\ off[i] \in Nat
      BY <3>1
    <3>4. Moves(t, w[i], num[i - 1], off[i - 1], num[i], off[i])
      BY <3>2, <3>3, MovesExtends
    <3> QED
      BY <1>7, <3>1, <3>4
  <2>2. CASE i = Len(w) + 1
    <3>1. i - 1 = Len(w)
      BY <1>2, <2>2
    <3> QED
      BY <1>2, <1>4, <1>5, <1>7, <2>2, <3>1
  <2> QED
    BY <1>2, <1>5, <2>1, <2>2, SMTT(30)
<1>10. Written(t, after, q, num2[Len(v)], off2[Len(v)])
  BY <1>4, <1>5, <1>7
<1>11. Stream(t, v, b, c, after, q)
  BY <1>6, <1>8, <1>9, <1>10 DEF Stream
<1> QED
  BY <1>11 DEF v

\* The receiver takes the first frame.
LEMMA StreamTail ==
  ASSUME NEW s, NEW w \in Seq(Frames), w # <<>>,
         NEW b, NEW c, NEW a, NEW d, NEW live, NEW p,
         Stream(s, w, b, c, live, p),
         \A n, k, m, l \in Nat :
           Received(s, b, c, n, k) /\ Moves(s, w[1], n, k, m, l) => Received(s, a, d, m, l)
  PROVE  Stream(s, Tail(w), a, d, live, p)
<1>1. PICK num \in [0 .. Len(w) -> Nat], off \in [0 .. Len(w) -> Nat] :
        /\ Received(s, b, c, num[0], off[0])
        /\ \A i \in 1 .. Len(w) : Moves(s, w[i], num[i - 1], off[i - 1], num[i], off[i])
        /\ Written(s, live, p, num[Len(w)], off[Len(w)])
  BY DEF Stream
<1> DEFINE v    == Tail(w)
           num2 == [i \in 0 .. Len(v) |-> num[i + 1]]
           off2 == [i \in 0 .. Len(v) |-> off[i + 1]]
<1>2. Len(w) \in Nat \ {0} /\ Len(v) = Len(w) - 1
      /\ \A i \in 1 .. Len(v) : v[i] = w[i + 1]
  BY HeadTailProperties, EmptySeq
<1> HIDE DEF v
<1>3. num2 \in [0 .. Len(v) -> Nat] /\ off2 \in [0 .. Len(v) -> Nat]
  BY <1>2
<1>4. \A i \in 0 .. Len(v) : num2[i] = num[i + 1] /\ off2[i] = off[i + 1]
  OBVIOUS
<1> HIDE DEF num2, off2
<1>5. Received(s, a, d, num2[0], off2[0])
  <2>1. 1 \in 1 .. Len(w) /\ 1 - 1 = 0 /\ 0 \in 0 .. Len(w) /\ 1 \in 0 .. Len(w)
        /\ 0 \in 0 .. Len(v) /\ 0 + 1 = 1
    BY <1>2
  <2>2. Moves(s, w[1], num[0], off[0], num[1], off[1])
    BY <1>1, <2>1
  <2>3. num[0] \in Nat /\ off[0] \in Nat /\ num[1] \in Nat /\ off[1] \in Nat
    BY <2>1
  <2>4. Received(s, a, d, num[1], off[1])
    BY <1>1, <2>2, <2>3
  <2> QED
    BY <1>4, <2>1, <2>4
<1>6. ASSUME NEW i \in 1 .. Len(v)
      PROVE  Moves(s, v[i], num2[i - 1], off2[i - 1], num2[i], off2[i])
  <2>1. i + 1 \in 1 .. Len(w) /\ (i + 1) - 1 = i /\ i - 1 \in 0 .. Len(v) /\ (i - 1) + 1 = i
        /\ i \in 0 .. Len(v)
    BY <1>2
  <2>2. Moves(s, w[i + 1], num[i], off[i], num[i + 1], off[i + 1])
    BY <1>1, <2>1
  <2> QED
    BY <1>2, <1>4, <2>1, <2>2
<1>7. Written(s, live, p, num2[Len(v)], off2[Len(v)])
  <2>1. Len(v) \in 0 .. Len(v) /\ Len(v) + 1 = Len(w)
    BY <1>2
  <2> QED
    BY <1>1, <1>4, <2>1
<1>8. Stream(s, v, a, d, live, p)
  BY <1>3, <1>5, <1>6, <1>7 DEF Stream
<1> QED
  BY <1>8 DEF v

-----------------------------------------------------------------------------
(* Every step keeps the stream.                                            *)

LEMMA SeqTypes ==
  ASSUME TypeOK, NEW e \in End
  PROVE  /\ sent \in [End -> Seq(Msg)] /\ sent[e] \in Seq(Msg) /\ Len(sent[e]) \in Nat
         /\ events[e] \in Seq(Event) /\ Len(events[e]) \in Nat
         /\ part[e] \in Seq(Unit) /\ Len(part[e]) \in Nat
         /\ wire[e] \in Seq(Frames) /\ fragment[e] \in Seq(Msg)
<1>1. /\ sent \in [End -> Seq(Msg)] /\ events \in [End -> Seq(Event)]
      /\ part \in [End -> Seq(Unit)] /\ wire \in [End -> Seq(Frames)]
      /\ fragment \in [End -> Seq(Msg)]
  BY DEF TypeOK, Frames
<1> QED
  BY <1>1, LenProperties

\* What is under way from a sender that has gone need not be all of it.
LEMMA StreamGone ==
  ASSUME NEW s, NEW w, NEW b, NEW c, NEW live, NEW p, NEW gone, NEW q,
         Stream(s, w, b, c, live, p), ~gone
  PROVE  Stream(s, w, b, c, gone, q)
<1>1. PICK num \in [0 .. Len(w) -> Nat], off \in [0 .. Len(w) -> Nat] :
        /\ Received(s, b, c, num[0], off[0])
        /\ \A i \in 1 .. Len(w) : Moves(s, w[i], num[i - 1], off[i - 1], num[i], off[i])
        /\ Written(s, live, p, num[Len(w)], off[Len(w)])
  BY DEF Stream
<1>2. Written(s, gone, q, num[Len(w)], off[Len(w)])
  BY <1>1 DEF Written
<1> QED
  BY <1>1, <1>2 DEF Stream

\* Nothing of it changes, or the receiver has gone.
LEMMA FlowSame ==
  ASSUME NEW e \in End, Flow(e), alive'[e] => alive[e],
         alive'[e] => wire'[e] = wire[e] /\ fragment'[e] = fragment[e],
         events'[e] = events[e], starved'[e] = starved[e],
         sent'[Other(e)] = sent[Other(e)],
         alive'[e] => \/ alive'[Other(e)] = alive[Other(e)] /\ part'[Other(e)] = part[Other(e)]
                      \/ ~alive'[Other(e)]
  PROVE  Flow(e)'
<1>1. InOrder(e)' <=> InOrder(e)
  BY DEF InOrder
<1>2. Whole(Other(e))' <=> Whole(Other(e))
  BY DEF Whole
<1>3. ASSUME alive'[e], StreamTo(e) PROVE StreamTo(e)'
  <2>1. CASE alive'[Other(e)] = alive[Other(e)] /\ part'[Other(e)] = part[Other(e)]
    BY <1>3, <2>1 DEF StreamTo
  <2>2. CASE ~alive'[Other(e)]
    <3>1. Stream(sent[Other(e)], wire[e], fragment[e], Count(events[e], Len(events[e])),
                 alive'[Other(e)], part'[Other(e)])
      BY <1>3, <2>2, StreamGone DEF StreamTo
    <3> QED
      BY <1>3, <3>1 DEF StreamTo
  <2> QED
    BY <1>3, <2>1, <2>2
<1> QED
  BY <1>1, <1>2, <1>3 DEF Flow

\* A message more is sent, with a frame or not.
LEMMA InOrderExtends ==
  ASSUME TypeOK, NEW e \in End, InOrder(e), events'[e] = events[e],
         sent'[Other(e)] \in Seq(Msg), Extends(sent[Other(e)], sent'[Other(e)])
  PROVE  InOrder(e)'
<1>1. Len(sent[Other(e)]) \in Nat /\ Len(sent'[Other(e)]) \in Nat
  BY OtherEnd, SMTT(30) DEF TypeOK
<1>2. SUFFICES ASSUME NEW i \in 1 .. Len(events[e]), IsMessage(events[e][i])
               PROVE  /\ Count(events[e], i) <= Len(sent'[Other(e)])
                      /\ Message(events[e][i].op, events[e][i].data)
                           = sent'[Other(e)][Count(events[e], i)]
  BY DEF InOrder
<1>3. /\ Count(events[e], i) <= Len(sent[Other(e)])
      /\ Message(events[e][i].op, events[e][i].data) = sent[Other(e)][Count(events[e], i)]
  BY <1>2 DEF InOrder
<1>4. i \in Nat /\ i - 1 \in Nat /\ (i - 1) + 1 = i
  BY SeqTypes
<1>5. Count(events[e], i) \in Nat /\ Count(events[e], i - 1) \in Nat
      /\ Count(events[e], i) = Count(events[e], i - 1) + 1
  BY <1>2, <1>4, CountNat, CountNext
<1>6. Count(events[e], i) \in 1 .. Len(sent[Other(e)])
  BY <1>1, <1>3, <1>5
<1> QED
  BY <1>1, <1>3, <1>6 DEF Extends

LEMMA WholeExtends ==
  ASSUME NEW o, sent[o] \in Seq(Msg), sent'[o] \in Seq(Msg), Extends(sent[o], sent'[o]), Whole(o)'
  PROVE  Whole(o)
BY DEF Whole, Extends

\* A frame is added to what is on the way to o, and the sender goes on with q.
LEMMA AddsFlow ==
  ASSUME TypeOK, TypeOK', NEW o \in End, Flow(o), NEW f \in Frames, Adds(o, f),
         UNCHANGED <<fragment, events, starved, alive>>, alive[Other(o)],
         Extends(sent[Other(o)], sent'[Other(o)]),
         \A n, k \in Nat : Written(sent[Other(o)], TRUE, part[Other(o)], n, k) =>
           \E m, l \in Nat : /\ Moves(sent'[Other(o)], f, n, k, m, l)
                             /\ Written(sent'[Other(o)], TRUE, part'[Other(o)], m, l)
  PROVE  Flow(o)'
<1> DEFINE e == Other(o)
<1>1. e \in End /\ wire[o] \in Seq(Frames) /\ sent[e] \in Seq(Msg) /\ sent'[e] \in Seq(Msg)
      /\ Len(events[o]) \in Nat
  <2>1. e \in End
    BY OtherEnd
  <2>2. sent'[e] \in Seq(Msg)
    BY <2>1 DEF TypeOK
  <2> QED
    BY <2>1, <2>2, SeqTypes
<1>2. SUFFICES ASSUME Whole(e)', ~starved[o] PROVE InOrder(o)' /\ (alive[o] => StreamTo(o)')
  BY DEF Flow
<1>3. Whole(e)
  BY <1>1, <1>2, WholeExtends
<1>4. InOrder(o) /\ (alive[o] => StreamTo(o))
  BY <1>2, <1>3 DEF Flow
<1>5. InOrder(o)'
  BY <1>1, <1>4, InOrderExtends
<1>6. ASSUME alive[o] PROVE StreamTo(o)'
  <2>1. Count(events[o], Len(events[o])) \in Nat
    BY <1>1, CountNat
  <2>2. Stream(sent[e], wire[o], fragment[o], Count(events[o], Len(events[o])), TRUE, part[e])
    BY <1>4, <1>6 DEF StreamTo, Stream, Written
  <2>3. Stream(sent'[e], Append(wire[o], f), fragment[o], Count(events[o], Len(events[o])),
               TRUE, part'[e])
    BY <1>1, <2>1, <2>2, StreamAppend
  <2>4. wire'[o] = Append(wire[o], f)
    BY <1>6 DEF Adds, TypeOK
  <2> QED
    BY <2>3, <2>4 DEF StreamTo, Stream, Written
<1> QED
  BY <1>5, <1>6

LEMMA SendMessageFlow ==
  ASSUME TypeOK, TypeOK', FlowInv, NEW e \in End, SendMessage(e) PROVE FlowInv'
<1> DEFINE o == Other(e)
           m(n) == Message(Kind(Len(sent[e]) + 1), Data(Len(sent[e]) + 1, n))
<1>1. o \in End /\ o # e /\ Other(o) = e /\ \A d \in End : d = e \/ d = o
  BY OtherEnd, Ends
<1>2. PICK n \in Lengths : /\ ws_send_frame(e, Frame(TRUE, m(n).op, m(n).data))
                           /\ sent' = [sent EXCEPT ![e] = Append(@, m(n))]
  BY DEF SendMessage
<1>3. /\ alive[e] /\ part[e] = <<>>
      /\ UNCHANGED <<hello, connVars, part, alive, controls>>
  BY DEF SendMessage, MaySend
<1>4. sent \in [End -> Seq(Msg)] /\ Len(sent[e]) + 1 \in Nat /\ n \in Nat /\ Len(sent[e]) \in Nat
  BY WebSocketAssumption, SeqTypes
<1>5. Data(Len(sent[e]) + 1, n) \in Seq(Unit) /\ Kind(Len(sent[e]) + 1) \in {"TEXT", "BINARY"}
  BY <1>4, DataType
<1> DEFINE f == Frame(TRUE, m(n).op, m(n).data)
<1>6. /\ m(n) \in Msg /\ f \in Frames /\ m(n).op \in {"TEXT", "BINARY"}
      /\ f.op = m(n).op /\ f.fin = TRUE /\ f.data = m(n).data
  BY <1>5 DEF Msg, Message, Frame, Frames, Ops, Codes
<1>7. Adds(o, f)
  BY <1>2 DEF Adds, ws_send_frame, netVars
<1> HIDE DEF m, f
<1>8. /\ sent'[e] = Append(sent[e], m(n)) /\ \A d \in End : d # e => sent'[d] = sent[d]
      /\ Len(sent'[e]) = Len(sent[e]) + 1 /\ sent'[e][Len(sent[e]) + 1] = m(n)
      /\ Extends(sent[e], sent'[e])
  BY <1>2, <1>4, <1>6, AppendProperties DEF Extends
<1>9. ASSUME NEW k \in Nat, NEW l \in Nat, Written(sent[e], TRUE, part[e], k, l)
      PROVE  \E i, j \in Nat : /\ Moves(sent'[e], f, k, l, i, j)
                               /\ Written(sent'[e], TRUE, part'[e], i, j)
  <2>1. k = Len(sent[e]) /\ l = 0
    BY <1>3, <1>9 DEF Written
  <2>2. Begins(sent'[e], f, k, l, k + 1, 0)
    BY <1>4, <1>6, <1>8, <2>1 DEF Begins
  <2>3. Written(sent'[e], TRUE, part'[e], k + 1, 0)
    BY <1>3, <1>8, <2>1 DEF Written
  <2>4. k + 1 \in Nat /\ 0 \in Nat /\ Moves(sent'[e], f, k, l, k + 1, 0)
    BY <2>2 DEF Moves
  <2> QED
    BY <2>3, <2>4
<1>10. Flow(o)'
  BY <1>1, <1>3, <1>6, <1>7, <1>8, <1>9, AddsFlow DEF FlowInv, connVars
<1>11. Flow(e)'
  <2>1. wire'[e] = wire[e]
    BY <1>1, <1>7, AddsOther
  <2>2. sent'[o] = sent[o]
    BY <1>1, <1>8
  <2> QED
    BY <1>1, <1>3, <2>1, <2>2, FlowSame DEF FlowInv, connVars
<1> QED
  BY <1>1, <1>10, <1>11 DEF FlowInv

LEMMA NotEmpty ==
  ASSUME NEW q, Len(q) > 0
  PROVE  q # <<>>
<1>1. Len(<<>>) = 0
  OBVIOUS
<1> QED
  BY <1>1

LEMMA SendFirstFlow ==
  ASSUME TypeOK, TypeOK', FlowInv, NEW e \in End, SendFirst(e) PROVE FlowInv'
<1> DEFINE o == Other(e)
           m(n) == Message(Kind(Len(sent[e]) + 1), Data(Len(sent[e]) + 1, n))
<1>1. o \in End /\ o # e /\ Other(o) = e /\ \A d \in End : d = e \/ d = o
  BY OtherEnd, Ends
<1>2. PICK n \in Lengths \ {1} : \E k \in 1 .. n - 1 :
        /\ ws_send_frame(e, Frame(FALSE, m(n).op, SubSeq(m(n).data, 1, k)))
        /\ part' = [part EXCEPT ![e] = SubSeq(m(n).data, k + 1, n)]
        /\ sent' = [sent EXCEPT ![e] = Append(@, m(n))]
  BY DEF SendFirst
<1>3. PICK k \in 1 .. n - 1 :
        /\ ws_send_frame(e, Frame(FALSE, m(n).op, SubSeq(m(n).data, 1, k)))
        /\ part' = [part EXCEPT ![e] = SubSeq(m(n).data, k + 1, n)]
        /\ sent' = [sent EXCEPT ![e] = Append(@, m(n))]
  BY <1>2
<1>4. alive[e] /\ part[e] = <<>> /\ UNCHANGED <<hello, connVars, alive, controls>>
  BY DEF SendFirst, MaySend
<1>5. sent \in [End -> Seq(Msg)] /\ Len(sent[e]) + 1 \in Nat /\ n \in Nat /\ Len(sent[e]) \in Nat
  <2>1. n \in Nat
    BY WebSocketAssumption
  <2> QED
    BY <2>1, SeqTypes
<1>6. /\ Data(Len(sent[e]) + 1, n) \in Seq(Unit) /\ Len(Data(Len(sent[e]) + 1, n)) = n
      /\ Kind(Len(sent[e]) + 1) \in {"TEXT", "BINARY"}
  BY <1>5, DataType
<1>7. /\ m(n) \in Msg /\ m(n).op \in {"TEXT", "BINARY"}
      /\ m(n).data \in Seq(Unit) /\ Len(m(n).data) = n
  BY <1>6 DEF Msg, Message
<1> HIDE DEF m
<1>8. /\ SubSeq(m(n).data, 1, k) \in Seq(Unit)
      /\ SubSeq(m(n).data, k + 1, n) # <<>>
  <2>1. Len(SubSeq(m(n).data, k + 1, n)) = n - k
    BY <1>5, <1>7, SubSeqProperties
  <2>2. n - k > 0
    BY <1>5
  <2>3. SubSeq(m(n).data, 1, k) \in Seq(Unit)
    BY <1>5, <1>7, SubSeqProperties
  <2>4. SubSeq(m(n).data, k + 1, n) # <<>>
    BY <2>1, <2>2, NotEmpty
  <2> QED
    BY <2>3, <2>4
<1> DEFINE f == Frame(FALSE, m(n).op, SubSeq(m(n).data, 1, k))
<1>9. /\ f \in Frames /\ f.op = m(n).op /\ f.fin = FALSE /\ f.data = SubSeq(m(n).data, 1, k)
  BY <1>7, <1>8 DEF Frame, Frames, Ops, Codes
<1>10. Adds(o, f)
  BY <1>3 DEF Adds, ws_send_frame, netVars
<1> HIDE DEF f
<1>11. /\ sent'[e] = Append(sent[e], m(n)) /\ \A d \in End : d # e => sent'[d] = sent[d]
       /\ Len(sent'[e]) = Len(sent[e]) + 1 /\ sent'[e][Len(sent[e]) + 1] = m(n)
       /\ Extends(sent[e], sent'[e])
  BY <1>3, <1>5, <1>7, AppendProperties DEF Extends
<1>12. /\ part'[e] = SubSeq(m(n).data, k + 1, n)
       /\ \A d \in End : d # e => part'[d] = part[d]
  BY <1>3 DEF TypeOK
<1>13. ASSUME NEW i \in Nat, NEW j \in Nat, Written(sent[e], TRUE, part[e], i, j)
       PROVE  \E a, l \in Nat : /\ Moves(sent'[e], f, i, j, a, l)
                                /\ Written(sent'[e], TRUE, part'[e], a, l)
  <2>1. i = Len(sent[e]) /\ j = 0
    BY <1>4, <1>13 DEF Written
  <2>2. Begins(sent'[e], f, i, j, i + 1, k)
    BY <1>5, <1>7, <1>9, <1>11, <2>1 DEF Begins
  <2>3. Written(sent'[e], TRUE, part'[e], i + 1, k)
    BY <1>5, <1>7, <1>8, <1>11, <1>12, <2>1 DEF Written
  <2>4. i + 1 \in Nat /\ k \in Nat /\ Moves(sent'[e], f, i, j, i + 1, k)
    BY <1>5, <2>2 DEF Moves
  <2> QED
    BY <2>3, <2>4
<1>14. Flow(o)'
  BY <1>1, <1>4, <1>9, <1>10, <1>11, <1>13, AddsFlow DEF FlowInv, connVars
<1>15. Flow(e)'
  <2>1. wire'[e] = wire[e]
    BY <1>1, <1>10, AddsOther
  <2>2. sent'[o] = sent[o] /\ part'[o] = part[o]
    BY <1>1, <1>11, <1>12
  <2> QED
    BY <1>1, <1>4, <2>1, <2>2, FlowSame DEF FlowInv, connVars
<1> QED
  BY <1>1, <1>14, <1>15 DEF FlowInv

\* The next units of a message begun.
LEMMA Cut ==
  ASSUME NEW data \in Seq(Unit), NEW j \in 1 .. Len(data) - 1,
         NEW p, p = SubSeq(data, j + 1, Len(data)),
         NEW k \in 1 .. Len(p)
  PROVE  /\ Len(p) = Len(data) - j /\ p \in Seq(Unit)
         /\ SubSeq(p, 1, k) = SubSeq(data, j + 1, j + k)
         /\ k < Len(p) => /\ SubSeq(p, k + 1, Len(p)) = SubSeq(data, j + k + 1, Len(data))
                          /\ SubSeq(p, k + 1, Len(p)) # <<>>
         /\ k = Len(p) => SubSeq(p, k + 1, Len(p)) = <<>>
<1>1. Len(data) \in Nat
  OBVIOUS
<1>2. Len(p) = Len(data) - j /\ p \in Seq(Unit)
  BY <1>1, SubSeqProperties
<1>3. SubSeq(p, 1, k) = SubSeq(data, j + 1, j + k)
  <2>1. /\ j + 1 \in 1 .. Len(data) /\ Len(data) \in 1 .. Len(data)
        /\ 1 \in 1 .. Len(data) - (j + 1) + 1 /\ k \in 1 .. Len(data) - (j + 1) + 1
        /\ (j + 1) + 1 - 1 = j + 1 /\ (j + 1) + k - 1 = j + k
    BY <1>1, <1>2
  <2> QED
    BY <2>1, SubSeqOfSubSeq
<1>4. ASSUME k < Len(p)
      PROVE  /\ SubSeq(p, k + 1, Len(p)) = SubSeq(data, j + k + 1, Len(data))
             /\ SubSeq(p, k + 1, Len(p)) # <<>>
  <2>1. /\ j + 1 \in 1 .. Len(data) /\ Len(data) \in 1 .. Len(data)
        /\ k + 1 \in 1 .. Len(data) - (j + 1) + 1 /\ Len(p) \in 1 .. Len(data) - (j + 1) + 1
        /\ (j + 1) + (k + 1) - 1 = j + k + 1 /\ (j + 1) + Len(p) - 1 = Len(data)
    BY <1>1, <1>2, <1>4
  <2>2. SubSeq(p, k + 1, Len(p)) = SubSeq(data, j + k + 1, Len(data))
    BY <2>1, SubSeqOfSubSeq
  <2>3. Len(SubSeq(p, k + 1, Len(p))) = Len(p) - k
    <3>1. k + 1 \in Int /\ Len(p) \in Int /\ \A i \in k + 1 .. Len(p) : p[i] \in Unit
      BY <1>1, <1>2, ElementOfSeq
    <3>2. Len(SubSeq(p, k + 1, Len(p))) = IF k + 1 <= Len(p) THEN Len(p) - (k + 1) + 1 ELSE 0
      BY <3>1, SubSeqProperties
    <3>3. Len(p) \in Nat /\ k \in Nat
      BY <1>1, <1>2
    <3>4. k + 1 <= Len(p) /\ Len(p) - (k + 1) + 1 = Len(p) - k
      BY <1>4, <3>3
    <3> QED
      BY <3>2, <3>4
  <2>4. Len(p) - k > 0
    BY <1>1, <1>2, <1>4
  <2>5. SubSeq(p, k + 1, Len(p)) # <<>>
    BY <2>3, <2>4, NotEmpty
  <2> QED
    BY <2>2, <2>5
<1>5. k = Len(p) => SubSeq(p, k + 1, Len(p)) = <<>>
  BY <1>1, <1>2, SubSeqEmpty
<1> QED
  BY <1>2, <1>3, <1>4, <1>5

LEMMA SendNextFlow ==
  ASSUME TypeOK, TypeOK', FlowInv, NEW e \in End, SendNext(e) PROVE FlowInv'
<1> DEFINE o == Other(e)
           s == sent[e]
           p == part[e]
<1>1. o \in End /\ o # e /\ Other(o) = e /\ \A d \in End : d = e \/ d = o
  BY OtherEnd, Ends
<1>2. PICK k \in 1 .. Len(p) :
        /\ ws_send_frame(e, Frame(k = Len(p), "CONTINUATION", SubSeq(p, 1, k)))
        /\ part' = [part EXCEPT ![e] = SubSeq(@, k + 1, Len(@))]
  BY DEF SendNext
<1>3. alive[e] /\ p # <<>> /\ UNCHANGED <<hello, connVars, alive, controls, sent>>
  BY DEF SendNext, MaySend
<1>4. s \in Seq(Msg) /\ Len(s) \in Nat /\ p \in Seq(Unit) /\ Len(p) \in Nat
  BY SeqTypes
<1>5. part'[e] = SubSeq(p, k + 1, Len(p)) /\ \A d \in End : d # e => part'[d] = part[d]
  BY <1>2 DEF TypeOK
<1> DEFINE f == Frame(k = Len(p), "CONTINUATION", SubSeq(p, 1, k))
<1>6. /\ f \in Frames /\ f.op = "CONTINUATION" /\ f.fin = (k = Len(p)) /\ f.data = SubSeq(p, 1, k)
  <2>1. SubSeq(p, 1, k) \in Seq(Unit)
    BY <1>4, SubSeqProperties
  <2> QED
    BY <2>1 DEF Frame, Frames, Ops, Codes
<1>7. Adds(o, f)
  BY <1>2 DEF Adds, ws_send_frame, netVars
<1> HIDE DEF f
<1>8. ASSUME NEW i \in Nat, NEW j \in Nat, Written(s, TRUE, p, i, j)
      PROVE  \E a, l \in Nat : /\ Moves(s, f, i, j, a, l)
                               /\ Written(s, TRUE, part'[e], a, l)
  <2>1. i = Len(s) /\ i \in 1 .. Len(s) /\ j \in 1 .. Len(s[i].data) - 1
        /\ p = SubSeq(s[i].data, j + 1, Len(s[i].data))
    BY <1>3, <1>4, <1>8 DEF Written
  <2> DEFINE data == s[i].data
  <2>2. data \in Seq(Unit) /\ Len(data) \in Nat
    <3>1. s[i] \in Msg
      BY <1>4, <2>1, ElementOfSeq
    <3>2. data \in Seq(Unit)
      BY <3>1 DEF Msg
    <3> QED
      BY <3>2, LenProperties
  <2> HIDE DEF data
  <2>3. /\ j \in 1 .. Len(data) - 1 /\ p = SubSeq(data, j + 1, Len(data))
    BY <2>1 DEF data
  <2>4. /\ Len(p) = Len(data) - j
        /\ SubSeq(p, 1, k) = SubSeq(data, j + 1, j + k)
        /\ k < Len(p) => /\ SubSeq(p, k + 1, Len(p)) = SubSeq(data, j + k + 1, Len(data))
                         /\ SubSeq(p, k + 1, Len(p)) # <<>>
        /\ k = Len(p) => SubSeq(p, k + 1, Len(p)) = <<>>
    <3>1. k \in 1 .. Len(p)
      BY <1>2
    <3>2. data \in Seq(Unit) /\ j \in 1 .. Len(data) - 1 /\ p = SubSeq(data, j + 1, Len(data))
      BY <2>2, <2>3
    <3> HIDE DEF p
    <3>3. Len(p) = Len(data) - j
      BY <3>1, <3>2, Cut
    <3>4. SubSeq(p, 1, k) = SubSeq(data, j + 1, j + k)
      BY <3>1, <3>2, Cut
    <3>5. k < Len(p) => /\ SubSeq(p, k + 1, Len(p)) = SubSeq(data, j + k + 1, Len(data))
                        /\ SubSeq(p, k + 1, Len(p)) # <<>>
      BY <3>1, <3>2, Cut
    <3>6. k = Len(p) => SubSeq(p, k + 1, Len(p)) = <<>>
      BY <3>1, <3>2, Cut
    <3> QED
      BY <3>3, <3>4, <3>5, <3>6
  <2>5. CASE k = Len(p)
    <3>1. j + k = Len(data)
      BY <2>2, <2>3, <2>4, <2>5
    <3>2. Continues(s, f, i, j, i, 0)
      BY <1>6, <2>1, <2>4, <2>5, <3>1 DEF Continues, data
    <3>3. Written(s, TRUE, part'[e], i, 0)
      BY <1>5, <2>1, <2>4, <2>5 DEF Written
    <3>4. Moves(s, f, i, j, i, 0) /\ 0 \in Nat
      BY <3>2 DEF Moves
    <3> QED
      BY <3>3, <3>4
  <2>6. CASE k < Len(p)
    <3>1. j + k \in j + 1 .. Len(data) - 1 /\ j + k \in Nat /\ j + k \in 1 .. Len(data) - 1
      <4>1. Len(p) \in Nat /\ k \in Nat /\ j \in Nat /\ 1 <= k /\ 1 <= j
        BY <1>4, <2>2, <2>3
      <4>2. k < Len(data) - j
        BY <2>4, <2>6
      <4> HIDE DEF p
      <4> QED
        BY <2>2, <4>1, <4>2
    <3>2. f.fin = FALSE
      <4>1. k # Len(p)
        BY <1>4, <2>6
      <4> QED
        BY <1>6, <4>1
    <3>3. Continues(s, f, i, j, i, j + k)
      BY <1>6, <2>1, <2>4, <3>1, <3>2 DEF Continues, data
    <3>4. part'[e] = SubSeq(s[i].data, j + k + 1, Len(s[i].data)) /\ part'[e] # <<>>
      BY <1>5, <2>4, <2>6 DEF data
    <3>5. Written(s, TRUE, part'[e], i, j + k)
      BY <1>4, <2>1, <3>1, <3>4 DEF Written, data
    <3>6. Moves(s, f, i, j, i, j + k)
      BY <3>3 DEF Moves
    <3> QED
      BY <3>1, <3>5, <3>6
  <2>7. k = Len(p) \/ k < Len(p)
    <3>1. Len(p) \in Nat /\ k \in 1 .. Len(p)
      BY <1>2, <1>4
    <3> HIDE DEF p
    <3> QED
      BY <3>1
  <2> QED
    BY <2>5, <2>6, <2>7
<1>9. Extends(s, sent'[e]) /\ sent'[e] = s
  BY <1>3, <1>4 DEF Extends
<1>10. Flow(o)'
  BY <1>1, <1>3, <1>6, <1>7, <1>8, <1>9, AddsFlow DEF FlowInv, connVars
<1>11. Flow(e)'
  <2>1. wire'[e] = wire[e]
    BY <1>1, <1>7, AddsOther
  <2>2. sent'[o] = sent[o] /\ part'[o] = part[o]
    BY <1>1, <1>3, <1>5
  <2> QED
    BY <1>1, <1>3, <2>1, <2>2, FlowSame DEF FlowInv, connVars
<1> QED
  BY <1>1, <1>10, <1>11 DEF FlowInv

\* A frame that is not of a message: a ping, a pong, a CLOSE.
Control(f) == f.op \notin {"TEXT", "BINARY", "CONTINUATION"}

LEMMA ControlFlow ==
  ASSUME TypeOK, NEW e \in End, NEW f \in Frames, Control(f), StreamTo(e)
  PROVE  Stream(sent[Other(e)], Append(wire[e], f), fragment[e], Count(events[e], Len(events[e])),
                alive[Other(e)], part[Other(e)])
<1> DEFINE s == sent[Other(e)]
           live == alive[Other(e)]
           p == part[Other(e)]
<1>1. s \in Seq(Msg) /\ wire[e] \in Seq(Frames) /\ Len(events[e]) \in Nat /\ Extends(s, s)
  BY OtherEnd, SeqTypes DEF Extends
<1>2. Count(events[e], Len(events[e])) \in Nat
  BY <1>1, CountNat
<1>3. \A n, k \in Nat : Written(s, live, p, n, k) =>
        Moves(s, f, n, k, n, k) /\ Written(s, live, p, n, k)
  BY DEF Moves, Stays, Control
<1>4. Stream(s, wire[e], fragment[e], Count(events[e], Len(events[e])), live, p)
  BY DEF StreamTo
<1> HIDE DEF s, live, p
<1>5. Stream(s, Append(wire[e], f), fragment[e], Count(events[e], Len(events[e])), live, p)
  BY <1>1, <1>2, <1>3, <1>4, StreamAppend
<1> QED
  BY <1>5 DEF s, live, p

LEMMA SendControlFlow ==
  ASSUME TypeOK, TypeOK', FlowInv, NEW e \in End, SendControl(e) \/ cwh_ws_send_close(e)
  PROVE  FlowInv'
<1> DEFINE o == Other(e)
<1>1. o \in End /\ o # e /\ Other(o) = e /\ \A d \in End : d = e \/ d = o
  BY OtherEnd, Ends
<1>2. PICK f \in Frames : Control(f) /\ Adds(o, f)
  <2>1. CASE SendControl(e)
    <3>1. PICK op \in {"PING", "RESERVED"} : ws_send_frame(e, Frame(TRUE, op, <<>>))
      BY <2>1 DEF SendControl
    <3>2. Frame(TRUE, op, <<>>) \in Frames /\ Control(Frame(TRUE, op, <<>>))
      BY DEF Frame, Frames, Ops, Codes, Control
    <3> QED
      BY <3>1, <3>2 DEF Adds, ws_send_frame, netVars
  <2>2. CASE cwh_ws_send_close(e)
    <3>1. PICK code \in {"none", "NORMAL"} : ws_send_frame(e, Close(code))
      BY <2>2 DEF cwh_ws_send_close
    <3>2. Close(code) \in Frames /\ Control(Close(code))
      BY DEF Close, Frames, Ops, Codes, Control
    <3> QED
      BY <3>1, <3>2 DEF Adds, ws_send_frame, netVars
  <2> QED
    BY <2>1, <2>2
<1>3. UNCHANGED <<fragment, events, starved, part, alive, sent>>
  BY DEF SendControl, cwh_ws_send_close, connVars, peerVars
<1>4. Flow(e)'
  <2>1. wire'[e] = wire[e]
    BY <1>1, <1>2, AddsOther
  <2> QED
    BY <1>1, <1>3, <2>1, FlowSame DEF FlowInv
<1>5. Flow(o)'
  <2>1. CASE wire'[o] = wire[o]
    BY <1>1, <1>3, <2>1, FlowSame DEF FlowInv
  <2>2. CASE wire'[o] = Append(wire[o], f)
    <3>1. InOrder(o)' <=> InOrder(o)
      BY <1>3 DEF InOrder
    <3>2. Whole(Other(o))' <=> Whole(Other(o))
      BY <1>3 DEF Whole
    <3>3. StreamTo(o) => StreamTo(o)'
      BY <1>1, <1>2, <1>3, <2>2, ControlFlow DEF StreamTo
    <3> QED
      BY <1>1, <1>3, <3>1, <3>2, <3>3 DEF FlowInv, Flow
  <2> QED
    BY <1>1, <1>2, <2>1, <2>2 DEF Adds, TypeOK
<1> QED
  BY <1>1, <1>4, <1>5 DEF FlowInv

LEMMA VanishFlow ==
  ASSUME TypeOK, FlowInv, NEW e \in End, Vanish(e) PROVE FlowInv'
<1>1. /\ \A d \in End : d # e => alive'[d] = alive[d] /\ wire'[d] = wire[d]
                                 /\ fragment'[d] = fragment[d] /\ part'[d] = part[d]
      /\ alive'[e] = FALSE
      /\ UNCHANGED <<events, starved, sent>>
  BY DEF TypeOK, Vanish
<1>2. ASSUME NEW d \in End PROVE Flow(d)'
  <2>1. CASE d = e
    BY <1>1, <2>1, FlowSame DEF FlowInv
  <2>2. CASE d # e
    <3>1. Other(d) = e
      BY <2>2, Ends, OtherEnd
    <3> QED
      BY <1>1, <2>2, <3>1, FlowSame DEF FlowInv
  <2> QED
    BY <2>1, <2>2
<1> QED
  BY <1>2 DEF FlowInv

-----------------------------------------------------------------------------
(* The receiver.                                                           *)

\* How many messages the program of an end has had.
Had(e) == Count(events[e], Len(events[e]))

\* The program is told of v.
LEMMA ToldOf ==
  ASSUME TypeOK, NEW e \in End, NEW v \in Event, events'[e] = Append(events[e], v)
  PROVE  /\ Len(events'[e]) = Len(events[e]) + 1 /\ events'[e][Len(events[e]) + 1] = v
         /\ \A i \in 1 .. Len(events[e]) : /\ events'[e][i] = events[e][i]
                                           /\ Count(events'[e], i) = Count(events[e], i)
         /\ Had(e)' = Had(e) + (IF IsMessage(v) THEN 1 ELSE 0) /\ Had(e) \in Nat
<1>1. events[e] \in Seq(Event) /\ Len(events[e]) \in Nat
  BY SeqTypes
<1>2. /\ Len(events'[e]) = Len(events[e]) + 1 /\ events'[e][Len(events[e]) + 1] = v
      /\ \A i \in 1 .. Len(events[e]) : events'[e][i] = events[e][i]
  BY <1>1, AppendProperties
<1>3. ASSUME NEW i \in Nat, i <= Len(events[e])
      PROVE  Count(events'[e], i) = Count(events[e], i)
  <2>1. \A j \in 1 .. i : events'[e][j] = events[e][j]
    BY <1>1, <1>2, <1>3
  <2> QED
    BY <2>1, CountSame
<1>4. Count(events'[e], Len(events[e]) + 1)
        = Count(events'[e], Len(events[e])) + (IF IsMessage(v) THEN 1 ELSE 0)
  BY <1>1, <1>2, CountNext
<1>5. Count(events'[e], Len(events[e])) = Had(e) /\ Had(e) \in Nat
  BY <1>1, <1>3, CountNat DEF Had
<1>6. Had(e)' = Count(events'[e], Len(events[e]) + 1)
  BY <1>2 DEF Had
<1> QED
  BY <1>1, <1>2, <1>3, <1>4, <1>5, <1>6

\* A message told of is the next one sent.
Right(e, v) ==
  IsMessage(v) => /\ Had(e) + 1 <= Len(sent[Other(e)])
                  /\ Message(v.op, v.data) = sent[Other(e)][Had(e) + 1]

LEMMA ToldInOrder ==
  ASSUME TypeOK, NEW e \in End, NEW v \in Event, events'[e] = Append(events[e], v),
         InOrder(e), Right(e, v), UNCHANGED sent
  PROVE  InOrder(e)'
<1>1. Len(events[e]) \in Nat
  BY SeqTypes
<1>2. /\ Len(events'[e]) = Len(events[e]) + 1 /\ events'[e][Len(events[e]) + 1] = v
      /\ \A i \in 1 .. Len(events[e]) : /\ events'[e][i] = events[e][i]
                                        /\ Count(events'[e], i) = Count(events[e], i)
      /\ Had(e)' = Had(e) + (IF IsMessage(v) THEN 1 ELSE 0) /\ Had(e) \in Nat
  BY ToldOf
<1>3. SUFFICES ASSUME NEW i \in 1 .. Len(events'[e]), IsMessage(events'[e][i])
               PROVE  /\ Count(events'[e], i) <= Len(sent[Other(e)])
                      /\ Message(events'[e][i].op, events'[e][i].data)
                           = sent[Other(e)][Count(events'[e], i)]
  BY DEF InOrder
<1>4. CASE i \in 1 .. Len(events[e])
  BY <1>2, <1>3, <1>4 DEF InOrder
<1>5. CASE i = Len(events[e]) + 1
  <2>1. IsMessage(v) /\ events'[e][i] = v
    BY <1>2, <1>3, <1>5
  <2>2. Count(events'[e], i) = Had(e) + 1
    BY <1>2, <1>5, <2>1 DEF Had
  <2> QED
    BY <2>1, <2>2 DEF Right
<1> QED
  BY <1>1, <1>2, <1>4, <1>5

\* Only what this end has changes.
LEMMA OthersKept ==
  ASSUME TypeOK, NEW e \in End, NEW f,
         OnFirst(e, f) \/ OnWhole(e, f) \/ OnContinuation(e, f) \/ OnCloseFrame(e, f)
           \/ OnControl(e, f)
  PROVE  /\ starved[e] => starved'[e]
         /\ \A d \in End : d # e => /\ fragment'[d] = fragment[d] /\ events'[d] = events[d]
                                    /\ starved'[d] = starved[d]
<1>0. /\ fragment \in [End -> Seq(Msg)] /\ events \in [End -> Seq(Event)]
      /\ starved \in [End -> BOOLEAN]
  BY DEF TypeOK
<1>1. CASE OnFirst(e, f)
  BY <1>0, <1>1 DEF OnFirst, Fragment, Allocates
<1>2. CASE OnWhole(e, f)
  BY <1>0, <1>2 DEF OnWhole, Fragment, Callback
<1>3. CASE OnContinuation(e, f)
  <2>1. starved' = starved \/ \E ok \in MayFail(e) : Allocates(e, ok)
    BY <1>3 DEF OnContinuation
  <2>2. fragment' = fragment \/ \E value : Fragment(e, value)
    BY <1>3 DEF OnContinuation
  <2>3. events' = events \/ \E v : Callback(e, v)
    BY <1>3 DEF OnContinuation
  <2> QED
    BY <1>0, <2>1, <2>2, <2>3 DEF Fragment, Callback, Allocates
<1>4. CASE OnCloseFrame(e, f)
  BY <1>0, <1>4 DEF OnCloseFrame, Callback
<1>5. CASE OnControl(e, f)
  BY <1>0, <1>5 DEF OnControl, Callback
<1> QED
  BY <1>1, <1>2, <1>3, <1>4, <1>5

\* The frame that the receiver handles takes it on in the stream.
Takes(e, s, m, l) ==
  /\ Received(s, fragment'[e], Had(e)', m, l)
  /\ \/ events'[e] = events[e]
     \/ \E v \in Event : events'[e] = Append(events[e], v) /\ Right(e, v)

LEMMA FirstTakes ==
  ASSUME TypeOK, NEW e \in End, NEW f \in Frames, OnFirst(e, f), ~starved'[e],
         NEW s \in Seq(Msg), s = sent[Other(e)],
         NEW n \in Nat, NEW k \in Nat, NEW m \in Nat, NEW l \in Nat,
         Received(s, fragment[e], Had(e), n, k), Moves(s, f, n, k, m, l)
  PROVE  Takes(e, s, m, l)
<1>1. /\ fragment \in [End -> Seq(Msg)] /\ starved \in [End -> BOOLEAN] /\ Len(s) \in Nat
      /\ f.op \in {"TEXT", "BINARY"} /\ ~f.fin
  BY LenProperties DEF TypeOK, OnFirst
<1>2. Begins(s, f, n, k, m, l)
  BY <1>1 DEF Moves, Continues, Stays
<1>3. fragment[e] = <<>> /\ n = Had(e) /\ m = n + 1 /\ m \in 1 .. Len(s)
  BY <1>1, <1>2 DEF Received, Begins
<1>4. PICK ok \in MayFail(e) :
        /\ Fragment(e, IF ok THEN <<Message(f.op, f.data)>> ELSE <<>>)
        /\ Allocates(e, ok)
  BY DEF OnFirst
<1>5. ok = TRUE
  BY <1>1, <1>4 DEF Allocates, MayFail
<1>6. fragment'[e] = <<Message(f.op, f.data)>>
  BY <1>1, <1>4, <1>5 DEF Fragment
<1>7. events' = events /\ Had(e)' = Had(e)
  BY DEF OnFirst, Had
<1>8. <<Message(f.op, f.data)>> # <<>>
  OBVIOUS
<1>9. /\ l \in 1 .. Len(s[m].data) - 1
      /\ Message(f.op, f.data) = Message(s[m].op, SubSeq(s[m].data, 1, l))
  BY <1>1, <1>2 DEF Begins
<1>10. Received(s, fragment'[e], Had(e)', m, l)
  BY <1>3, <1>6, <1>7, <1>8, <1>9 DEF Received
<1> QED
  BY <1>7, <1>10 DEF Takes

LEMMA WholeTakes ==
  ASSUME TypeOK, NEW e \in End, NEW f \in Frames, OnWhole(e, f),
         NEW s \in Seq(Msg), s = sent[Other(e)],
         NEW n \in Nat, NEW k \in Nat, NEW m \in Nat, NEW l \in Nat,
         Received(s, fragment[e], Had(e), n, k), Moves(s, f, n, k, m, l)
  PROVE  Takes(e, s, m, l)
<1>1. /\ fragment \in [End -> Seq(Msg)] /\ events \in [End -> Seq(Event)] /\ Len(s) \in Nat
      /\ f.op \in {"TEXT", "BINARY"} /\ f.fin
  BY LenProperties DEF TypeOK, OnWhole
<1>2. Begins(s, f, n, k, m, l)
  BY <1>1 DEF Moves, Continues, Stays
<1>3. fragment[e] = <<>> /\ n = Had(e) /\ m = n + 1 /\ m \in 1 .. Len(s)
  BY <1>1, <1>2 DEF Received, Begins
<1>4. Callback(e, OnMessage(f.op, f.data)) /\ fragment'[e] = <<>>
  BY <1>3 DEF OnWhole
<1> DEFINE v == OnMessage(f.op, f.data)
<1>5. v \in Event /\ IsMessage(v) /\ v.op = f.op /\ v.data = f.data
  BY <1>1 DEF OnMessage, Event, IsMessage, Frames
<1>6. events'[e] = Append(events[e], v)
  BY <1>1, <1>4 DEF Callback
<1> HIDE DEF v
<1>7. Had(e)' = Had(e) + 1
  BY <1>5, <1>6, ToldOf
<1>8. l = 0 /\ f.op = s[m].op /\ f.data = s[m].data
  BY <1>1, <1>2 DEF Begins
<1>9. Received(s, fragment'[e], Had(e)', m, l)
  BY <1>3, <1>4, <1>7, <1>8 DEF Received
<1>10. Right(e, v)
  <2>1. s[m] \in Msg
    BY <1>3, ElementOfSeq
  <2>2. Message(v.op, v.data) = s[m]
    BY <1>5, <1>8, <2>1 DEF Msg, Message
  <2> QED
    BY <1>1, <1>3, <2>2 DEF Right
<1> QED
  BY <1>5, <1>6, <1>9, <1>10 DEF Takes

LEMMA ControlTakes ==
  ASSUME TypeOK, NEW e \in End, NEW f \in Frames, OnCloseFrame(e, f) \/ OnControl(e, f),
         NEW s \in Seq(Msg), NEW n \in Nat, NEW k \in Nat, NEW m \in Nat, NEW l \in Nat,
         Received(s, fragment[e], Had(e), n, k), Moves(s, f, n, k, m, l)
  PROVE  Takes(e, s, m, l)
<1>1. /\ events \in [End -> Seq(Event)] /\ f.op \notin {"TEXT", "BINARY", "CONTINUATION"}
      /\ fragment'[e] = fragment[e]
  BY DEF TypeOK, OnCloseFrame, OnControl
<1>2. m = n /\ l = k
  BY <1>1 DEF Moves, Begins, Continues, Stays
<1>3. \/ events' = events
      \/ \E v \in Event : ~IsMessage(v) /\ events'[e] = Append(events[e], v)
  <2>1. CASE OnCloseFrame(e, f)
    <3>1. OnClose(close_code(f)) \in Event /\ ~IsMessage(OnClose(close_code(f)))
      BY DEF OnClose, close_code, Event, IsMessage, Frames, Codes
    <3>2. events'[e] = Append(events[e], OnClose(close_code(f)))
      BY <1>1, <2>1 DEF OnCloseFrame, Callback
    <3> QED
      BY <3>1, <3>2
  <2>2. CASE OnControl(e, f)
    <3>1. OnError \in Event /\ ~IsMessage(OnError)
      BY DEF OnError, Event, IsMessage
    <3>2. events' = events \/ events'[e] = Append(events[e], OnError)
      BY <1>1, <2>2 DEF OnControl, Callback
    <3> QED
      BY <3>1, <3>2
  <2> QED
    BY <2>1, <2>2
<1>4. CASE events' = events
  <2>1. Had(e)' = Had(e)
    BY <1>4 DEF Had
  <2> QED
    BY <1>1, <1>2, <1>4, <2>1 DEF Takes
<1>5. ASSUME NEW v \in Event, ~IsMessage(v), events'[e] = Append(events[e], v)
      PROVE  Takes(e, s, m, l)
  <2>1. Had(e)' = Had(e)
    BY <1>5, ToldOf
  <2> QED
    BY <1>1, <1>2, <1>5, <2>1 DEF Takes, Right
<1> QED
  BY <1>3, <1>4, <1>5

\* Units 1 to k and k + 1 to l of a message, put together.
LEMMA Joined ==
  ASSUME NEW data \in Seq(Unit), NEW k \in 1 .. Len(data) - 1, NEW l \in k + 1 .. Len(data)
  PROVE  /\ SubSeq(data, 1, k) \o SubSeq(data, k + 1, l) = SubSeq(data, 1, l)
         /\ Len(SubSeq(data, 1, k)) = k /\ Len(SubSeq(data, k + 1, l)) = l - k
<1>1. Len(data) \in Nat /\ k \in Nat /\ l \in Nat /\ 1 <= k /\ k < l /\ l <= Len(data)
  OBVIOUS
<1>2. \A i \in 1 .. l : data[i] \in Unit
  BY <1>1, ElementOfSeq
<1>3. Len(SubSeq(data, 1, k)) = k
  BY <1>1, <1>2, SubSeqProperties
<1>4. Len(SubSeq(data, k + 1, l)) = l - k
  BY <1>1, <1>2, SubSeqProperties
<1>5. SubSeq(data, 1, k) \o SubSeq(data, k + 1, l) = SubSeq(data, 1, l)
  BY <1>1, ConcatAdjacentSubSeq
<1> QED
  BY <1>3, <1>4, <1>5

LEMMA ContinuationTakes ==
  ASSUME TypeOK, NEW e \in End, NEW f \in Frames, OnContinuation(e, f), ~starved'[e],
         NEW s \in Seq(Msg), s = sent[Other(e)], Whole(Other(e)),
         NEW n \in Nat, NEW k \in Nat, NEW m \in Nat, NEW l \in Nat,
         Received(s, fragment[e], Had(e), n, k), Moves(s, f, n, k, m, l)
  PROVE  Takes(e, s, m, l)
<1> DEFINE data == s[n].data
           last == IF f.fin THEN Len(data) ELSE l
           g    == Message(fragment[e][1].op, fragment[e][1].data \o f.data)
<1>1. /\ fragment \in [End -> Seq(Msg)] /\ events \in [End -> Seq(Event)] /\ Len(s) \in Nat
      /\ starved \in [End -> BOOLEAN] /\ f.op = "CONTINUATION"
  BY LenProperties DEF TypeOK, OnContinuation
<1>2. Continues(s, f, n, k, m, l)
  BY <1>1 DEF Moves, Begins, Stays
<1>3. /\ n \in 1 .. Len(s) /\ m = n /\ k \in 1 .. Len(data) - 1
      /\ fragment[e] # <<>> /\ n = Had(e) + 1
      /\ fragment[e] = <<Message(s[n].op, SubSeq(data, 1, k))>>
  BY <1>1, <1>2 DEF Continues, Received
<1>4. s[n] \in Msg /\ data \in Seq(Unit) /\ Len(data) \in Nat
  <2>1. s[n] \in Msg
    BY <1>3, ElementOfSeq
  <2> QED
    BY <2>1 DEF Msg
<1>5. last \in k + 1 .. Len(data) /\ f.data = SubSeq(data, k + 1, last)
  BY <1>2, <1>3, <1>4 DEF Continues
<1>6. fragment[e][1].op = s[n].op /\ fragment[e][1].data = SubSeq(data, 1, k)
  BY <1>3 DEF Message
<1>7. /\ SubSeq(data, 1, k) \o SubSeq(data, k + 1, last) = SubSeq(data, 1, last)
      /\ Len(SubSeq(data, 1, k)) = k /\ Len(SubSeq(data, k + 1, last)) = last - k
  <2> HIDE DEF data, last
  <2> QED
    BY <1>3, <1>4, <1>5, Joined
<1>8. g = Message(s[n].op, SubSeq(data, 1, last))
  BY <1>5, <1>6, <1>7
<1>9. Len(fragment[e][1].data) + Len(f.data) < MaxFragment
  <2>1. Len(data) < MaxFragment
    BY <1>3 DEF Whole
  <2>2. Len(fragment[e][1].data) + Len(f.data) = k + (last - k)
    BY <1>5, <1>6, <1>7
  <2>3. k + (last - k) \in Nat /\ k + (last - k) <= Len(data)
    <3>1. k \in Nat /\ last \in Nat /\ last <= Len(data)
      BY <1>4, <1>5
    <3> HIDE DEF data, last
    <3> QED
      BY <1>4, <3>1
  <2> HIDE DEF data, last
  <2>4. ASSUME NEW a \in Nat, a <= Len(data) PROVE a < MaxFragment
    BY WebSocketAssumption, <1>4, <2>1, <2>4
  <2>5. k + (last - k) < MaxFragment
    BY <2>3, <2>4
  <2> QED
    BY <2>2, <2>5
<1> HIDE DEF data, last, g
<1>10. PICK ok \in MayFail(e) :
         /\ Allocates(e, ok)
         /\ IF ok /\ f.fin
            THEN Callback(e, OnMessage(g.op, g.data)) /\ Fragment(e, AfterFin(e, g))
            ELSE Fragment(e, IF ok THEN <<g>> ELSE fragment[e]) /\ UNCHANGED events
  BY <1>3, <1>9 DEF OnContinuation, g
<1>11. ok = TRUE
  BY <1>1, <1>10 DEF Allocates, MayFail
<1>12. CASE f.fin
  <2>1. /\ fragment'[e] = <<>>
        /\ events'[e] = Append(events[e], OnMessage(g.op, g.data))
    BY <1>1, <1>10, <1>11, <1>12 DEF Callback, Fragment, AfterFin
  <2>2. last = Len(data) /\ l = 0
    BY <1>2, <1>12 DEF Continues, last, data
  <2>3. SubSeq(data, 1, last) = data
    BY <1>4, <2>2, SubSeqFull
  <2>4. g = s[n] /\ g \in Msg
    BY <1>4, <1>8, <2>3 DEF Msg, Message, data
  <2> DEFINE v == OnMessage(g.op, g.data)
  <2>5. v \in Event /\ IsMessage(v) /\ Message(v.op, v.data) = s[n]
    BY <2>4 DEF OnMessage, Event, IsMessage, Msg, Message
  <2>6. events'[e] = Append(events[e], v)
    BY <2>1
  <2> HIDE DEF v
  <2>7. Had(e)' = Had(e) + 1
    BY <2>5, <2>6, ToldOf
  <2>8. Received(s, fragment'[e], Had(e)', m, l)
    BY <1>3, <2>1, <2>2, <2>7 DEF Received
  <2>9. Right(e, v)
    BY <1>1, <1>3, <2>5 DEF Right
  <2> QED
    BY <2>5, <2>6, <2>8, <2>9 DEF Takes
<1>13. CASE ~f.fin
  <2>1. fragment'[e] = <<g>> /\ events' = events
    BY <1>1, <1>10, <1>11, <1>13 DEF Fragment
  <2>2. last = l /\ l \in k + 1 .. Len(data) - 1
    BY <1>2, <1>3, <1>13 DEF Continues, last, data
  <2>3. l \in 1 .. Len(data) - 1
    BY <1>3, <1>4, <2>2
  <2>4. Had(e)' = Had(e) /\ <<g>> # <<>>
    BY <2>1 DEF Had
  <2>5. Received(s, fragment'[e], Had(e)', m, l)
    BY <1>3, <1>8, <2>1, <2>2, <2>3, <2>4 DEF Received, data
  <2> QED
    BY <2>1, <2>5 DEF Takes
<1> QED
  BY <1>12, <1>13

LEMMA HandleFlow ==
  ASSUME TypeOK, CodesSent, FlowInv, NEW e \in End, HandleFrame(e)
  PROVE  FlowInv'
<1> DEFINE o == Other(e)
           s == sent[o]
           w == wire[e]
           f == w[1]
<1>1. o \in End /\ o # e /\ Other(o) = e /\ \A d \in End : d = e \/ d = o
  BY OtherEnd, Ends
<1>2. /\ Handles(e, f)
      /\ OnFirst(e, f) \/ OnWhole(e, f) \/ OnContinuation(e, f) \/ OnCloseFrame(e, f)
         \/ OnControl(e, f)
  BY HandleFrameHandles DEF CodesSent
<1>3. /\ f \in Frames /\ alive[e] /\ w # <<>> /\ w \in Seq(Frames)
      /\ UNCHANGED <<part, alive, sent>>
  BY <1>1, <1>2, SeqTypes DEF Handles
<1>4. s \in Seq(Msg) /\ Had(e) \in Nat
  BY <1>1, SeqTypes, CountNat DEF Had
<1>5. /\ starved[e] => starved'[e]
      /\ fragment'[o] = fragment[o] /\ events'[o] = events[o] /\ starved'[o] = starved[o]
  BY <1>1, <1>2, OthersKept
<1>6. Flow(e)'
  <2>1. SUFFICES ASSUME Whole(o)', ~starved'[e]
                 PROVE  InOrder(e)' /\ StreamTo(e)'
    BY DEF Flow
  <2>2. Whole(o)
    BY <1>3, <2>1 DEF Whole
  <2>3. InOrder(e) /\ StreamTo(e)
    BY <1>3, <1>5, <2>1, <2>2 DEF FlowInv, Flow
  <2>4. ASSUME NEW n \in Nat, NEW k \in Nat, NEW m \in Nat, NEW l \in Nat,
               Received(s, fragment[e], Had(e), n, k), Moves(s, f, n, k, m, l)
        PROVE  Takes(e, s, m, l)
    <3> HIDE DEF f, s, w
    <3>0. s = sent[Other(e)]
      BY DEF s
    <3>1. CASE OnFirst(e, f)
      BY <1>3, <1>4, <2>1, <2>4, <3>0, <3>1, FirstTakes
    <3>2. CASE OnWhole(e, f)
      BY <1>3, <1>4, <2>4, <3>0, <3>2, WholeTakes
    <3>3. CASE OnContinuation(e, f)
      BY <1>3, <1>4, <2>1, <2>2, <2>4, <3>0, <3>3, ContinuationTakes
    <3>4. CASE OnCloseFrame(e, f) \/ OnControl(e, f)
      BY <1>3, <1>4, <2>4, <3>4, ControlTakes
    <3> QED
      BY <1>2, <3>1, <3>2, <3>3, <3>4
  <2>5. Stream(s, w, fragment[e], Had(e), alive[o], part[o])
    BY <2>3 DEF StreamTo, Had
  <2>6. InOrder(e)'
    <3>1. PICK num \in [0 .. Len(w) -> Nat], off \in [0 .. Len(w) -> Nat] :
            /\ Received(s, fragment[e], Had(e), num[0], off[0])
            /\ \A i \in 1 .. Len(w) : Moves(s, w[i], num[i - 1], off[i - 1], num[i], off[i])
      BY <2>5 DEF Stream
    <3>2. Len(w) \in Nat /\ Len(w) # 0
      BY <1>3, EmptySeq
    <3>3. 1 \in 1 .. Len(w) /\ 1 - 1 = 0 /\ 0 \in 0 .. Len(w) /\ 1 \in 0 .. Len(w)
      BY <3>2
    <3>4. Moves(s, f, num[0], off[0], num[1], off[1])
      BY <3>1, <3>3
    <3>5. num[0] \in Nat /\ off[0] \in Nat /\ num[1] \in Nat /\ off[1] \in Nat
      BY <3>3
    <3>6. Takes(e, s, num[1], off[1])
      BY <2>4, <3>1, <3>4, <3>5
    <3>7. CASE events'[e] = events[e]
      BY <1>3, <2>3, <3>7 DEF InOrder
    <3>8. ASSUME NEW v \in Event, events'[e] = Append(events[e], v), Right(e, v)
          PROVE  InOrder(e)'
      BY <1>3, <2>3, <3>8, ToldInOrder
    <3> QED
      BY <3>6, <3>7, <3>8 DEF Takes
  <2>7. StreamTo(e)'
    <3>1. \A n, k, m, l \in Nat :
            Received(s, fragment[e], Had(e), n, k) /\ Moves(s, w[1], n, k, m, l)
              => Received(s, fragment'[e], Had(e)', m, l)
      BY <2>4 DEF Takes
    <3>2. Stream(s, Tail(w), fragment'[e], Had(e)', alive[o], part[o])
      <4> HIDE DEF s, w
      <4> QED
        BY <1>3, <2>5, <3>1, StreamTail
    <3>3. wire'[e] = Tail(w)
      BY <1>1, <1>2 DEF Handles, Answers, TypeOK
    <3> QED
      BY <1>3, <3>2, <3>3 DEF StreamTo, Had
  <2> QED
    BY <2>6, <2>7
<1>7. Flow(o)'
  <2>1. CASE wire'[o] = wire[o]
    BY <1>1, <1>3, <1>5, <2>1, FlowSame DEF FlowInv
  <2>2. ASSUME NEW g \in Frames, Answers(e, f, g)
        PROVE  Flow(o)'
    <3>1. wire'[o] = Append(wire[o], g) /\ Control(g)
      BY <1>1, <2>2 DEF Answers, Control, TypeOK
    <3>2. InOrder(o)' <=> InOrder(o)
      BY <1>3, <1>5 DEF InOrder
    <3>3. Whole(Other(o))' <=> Whole(Other(o))
      BY <1>3 DEF Whole
    <3>4. StreamTo(o) => StreamTo(o)'
      BY <1>1, <1>3, <1>5, <3>1, ControlFlow DEF StreamTo
    <3> QED
      BY <1>1, <1>3, <1>5, <3>2, <3>3, <3>4 DEF FlowInv, Flow
  <2>3. wire'[o] = wire[o] \/ \E g \in Frames : Answers(e, f, g)
    BY <1>1, <1>2 DEF Handles, TypeOK
  <2> QED
    BY <2>1, <2>2, <2>3
<1> QED
  BY <1>1, <1>6, <1>7 DEF FlowInv

LEMMA ReceiveFailsFlow ==
  ASSUME TypeOK, FlowInv, NEW e \in End, ReceiveFails(e)
  PROVE  FlowInv'
<1> DEFINE v == OnClose("ABNORMAL")
<1>1. events' = [events EXCEPT ![e] = Append(@, v)] /\ events \in [End -> Seq(Event)]
  BY DEF ReceiveFails, Callback, TypeOK
<1>2. UNCHANGED <<fragment, starved, part, alive, sent, wire>>
  BY DEF ReceiveFails, peerVars, netVars
<1>3. v \in Event /\ ~IsMessage(v)
  BY DEF OnClose, Event, IsMessage, Codes
<1> HIDE DEF v
<1>4. events'[e] = Append(events[e], v) /\ \A d \in End : d # e => events'[d] = events[d]
  BY <1>1
<1>5. Flow(e)'
  <2>1. Had(e)' = Had(e)
    BY <1>3, <1>4, ToldOf
  <2>2. InOrder(e) => InOrder(e)'
    BY <1>2, <1>3, <1>4, ToldInOrder DEF Right
  <2>3. Whole(Other(e))' <=> Whole(Other(e))
    BY <1>2 DEF Whole
  <2>4. StreamTo(e) => StreamTo(e)'
    BY <1>2, <2>1 DEF StreamTo, Had
  <2> QED
    BY <1>2, <2>2, <2>3, <2>4 DEF FlowInv, Flow
<1>6. ASSUME NEW d \in End, d # e PROVE Flow(d)'
  BY <1>2, <1>4, <1>6, FlowSame DEF FlowInv
<1> QED
  BY <1>5, <1>6 DEF FlowInv

LEMMA InitFlow == Init => FlowInv
<1> SUFFICES ASSUME Init PROVE FlowInv
  OBVIOUS
<1>1. ASSUME NEW e \in End PROVE Flow(e)
  <2>1. Other(e) \in End
    BY OtherEnd
  <2>2. events[e] = <<>> /\ sent[Other(e)] = <<>> /\ wire[e] = <<>> /\ fragment[e] = <<>>
        /\ part[Other(e)] = <<>>
    BY <2>1 DEF Init
  <2>3. InOrder(e)
    BY <2>2 DEF InOrder
  <2>4. Count(<<>>, 0) = 0
    <3>1. {j \in 1 .. 0 : IsMessage(<<>>[j])} = {}
      OBVIOUS
    <3> QED
      BY <3>1, FS_EmptySet DEF Count
  <2> DEFINE num == [i \in 0 .. 0 |-> 0]
  <2>5. num \in [0 .. Len(<<>>) -> Nat] /\ num[0] = 0 /\ Len(<<>>) = 0
    OBVIOUS
  <2> HIDE DEF num
  <2>6. Received(<<>>, <<>>, 0, num[0], num[0]) /\ Written(<<>>, alive[Other(e)], <<>>, num[0], num[0])
    BY <2>5 DEF Received, Written
  <2>7. \A i \in 1 .. Len(<<>>) : FALSE
    BY <2>5
  <2>8. Stream(<<>>, <<>>, <<>>, 0, alive[Other(e)], <<>>)
    BY <2>5, <2>6, <2>7 DEF Stream
  <2>9. StreamTo(e)
    BY <2>2, <2>4, <2>5, <2>8 DEF StreamTo
  <2> QED
    BY <2>3, <2>9 DEF Flow
<1> QED
  BY <1>1 DEF FlowInv

LEMMA NextFlow == CloseInv /\ TypeOK' /\ FlowInv /\ [Next]_vars => FlowInv'
<1> SUFFICES ASSUME CloseInv, TypeOK', FlowInv, [Next]_vars PROVE FlowInv'
  OBVIOUS
<1>1. TypeOK /\ CodesSent
  BY DEF CloseInv
<1>2. ASSUME UNCHANGED <<wire, fragment, part, alive, events, starved, sent>> PROVE FlowInv'
  BY <1>2, FlowSame DEF FlowInv
<1>3. CASE \/ cwh_ws_client_handshake \/ cwh_ws_server_handshake
           \/ ServerRefuses \/ cwh_ws_client_validate_handshake
  BY <1>2, <1>3 DEF cwh_ws_client_handshake, cwh_ws_server_handshake, ServerRefuses,
                    cwh_ws_client_validate_handshake, Handshake, peerVars, netVars
<1>4. ASSUME NEW e \in End, Program(e) PROVE FlowInv'
  BY <1>1, <1>4, SendMessageFlow, SendFirstFlow, SendNextFlow, SendControlFlow, VanishFlow
     DEF Program
<1>5. ASSUME NEW e \in End, Process(e) PROVE FlowInv'
  <2>1. CASE Receive(e)
    BY <1>2, <2>1 DEF Receive, peerVars
  <2> QED
    BY <1>1, <1>5, <2>1, ReceiveFailsFlow, HandleFlow DEF Process
<1>6. CASE UNCHANGED vars
  BY <1>2, <1>6 DEF vars, connVars, peerVars, netVars
<1> QED
  BY <1>3, <1>4, <1>5, <1>6 DEF Next

LEMMA FlowInvariance == Spec => []FlowInv
<1>1. CloseInv /\ CloseInv' => TypeOK'
  BY DEF CloseInv
<1> QED
  BY <1>1, InitFlow, NextFlow, CloseInvariance, PTL DEF Spec

\* MessagesInOrder: what a program is told of as messages is what the program at
\* the other end has sent, in the same order, each whole and of its kind, with
\* nothing left out, whatever the frames, the packets and the control frames in
\* between (cwh_ws_process).
THEOREM InOrderDelivery == Spec => []MessagesInOrder
<1>1. CloseInv /\ FlowInv => MessagesInOrder
  <2> SUFFICES ASSUME CloseInv, FlowInv, NEW e \in End, Whole(Other(e)), ~starved[e]
               PROVE  InOrder(e) /\ NoneLost(e)
    BY DEF MessagesInOrder
  <2>1. InOrder(e) /\ (alive[e] => StreamTo(e))
    BY DEF FlowInv, Flow
  <2>2. ASSUME alive[e], alive[Other(e)], ~UnderWay(e)
        PROVE  Count(events[e], Len(events[e])) = Len(sent[Other(e)])
    <3>1. wire[e] = <<>> /\ part[Other(e)] = <<>>
      BY <2>2 DEF UnderWay
    <3>2. Stream(sent[Other(e)], <<>>, fragment[e], Count(events[e], Len(events[e])), TRUE, <<>>)
      BY <2>1, <2>2, <3>1 DEF StreamTo, Stream, Written
    <3>3. PICK num \in [0 .. Len(<<>>) -> Nat], off \in [0 .. Len(<<>>) -> Nat] :
            /\ Received(sent[Other(e)], fragment[e], Count(events[e], Len(events[e])),
                        num[0], off[0])
            /\ Written(sent[Other(e)], TRUE, <<>>, num[Len(<<>>)], off[Len(<<>>)])
      BY <3>2 DEF Stream
    <3>4. num[0] = Len(sent[Other(e)]) /\ off[0] = 0 /\ Len(<<>>) = 0
      BY <3>3 DEF Written
    <3> QED
      BY <3>3, <3>4 DEF Received
  <2> QED
    BY <2>1, <2>2 DEF NoneLost
<1> QED
  BY <1>1, CloseInvariance, FlowInvariance, PTL

=============================================================================
