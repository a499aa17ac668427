------------------------------ MODULE WebSocket ------------------------------
(***************************************************************************)
(* A WebSocket connection, src/src/websocket.c: the opening handshake, the *)
(* framing and reassembly of messages, ping and pong, and the closing      *)
(* handshake.  Both ends run this library; a fragmenting end also sends    *)
(* messages in several frames, which another implementation may do and     *)
(* this one never does.                                                    *)
(*                                                                         *)
(* cwh_ws_process is one recv and a loop over the frames that are whole.   *)
(* The program's callbacks run in the loop and may send, so a round of the *)
(* loop is a step of its own.  `wire' holds the frames sent to an end and  *)
(* not handled yet; of their units, recv_len are in the end's receive      *)
(* buffer and `queued' in its socket: the byte stream without its bytes.   *)
(***************************************************************************)
EXTENDS Integers, Sequences, FiniteSets

CONSTANTS
  Client, Server,  \* the two ends
  Fragmenting,     \* the ends that send messages in fragments
  Messages,        \* [end -> Nat]: messages its program sends at most
  Lengths,         \* lengths of messages, in units
  Controls,        \* [end -> Nat]: pings and frames of unknown opcode it sends at most
  HeaderLen,       \* length of a frame header, in units
  RecvSize,        \* recv_buffer_size
  MaxFragment      \* WS_MAX_FRAGMENT_SIZE

End == {Client, Server}
Other(e) == IF e = Client THEN Server ELSE Client

ASSUME WebSocketAssumption ==
  /\ Client # Server /\ Fragmenting \subseteq End
  /\ Messages \in [End -> Nat] /\ Controls \in [End -> Nat]
  /\ Lengths \subseteq Nat \ {0}
  /\ HeaderLen \in Nat \ {0} /\ RecvSize \in Nat \ {0} /\ MaxFragment \in Nat

VARIABLES
  hello,      \* the opening handshake: <<>>, then the Upgrade and Connection
              \* fields of the request, and at last how it came out
  state,      \* [End -> States]: conn->state, "none" before cwh_ws_conn_new
  wire,       \* [End -> Seq(Frame)]: see above
  queued,     \* [End -> Nat]: units in the end's socket, not received yet
  recv_len,   \* [End -> Nat]: conn->recv_buffer_len
  fragment,   \* [End -> Seq(Message)]: fragment_opcode and fragment_buffer,
              \* <<>> while the buffer is NULL
  part,       \* [End -> Seq(unit)]: what is left of a message begun in fragments
  alive,      \* [End -> BOOLEAN]: the end's program runs and has the socket open
  controls,   \* [End -> Nat]: see Controls
  sent,       \* [End -> Seq(Message)]: the messages the program has begun to send
  events,     \* [End -> Seq(Event)]: the callbacks the program has had
  starved     \* [End -> BOOLEAN]: malloc or realloc has failed

connVars == <<state, recv_len, fragment, events, starved>>
peerVars == <<part, alive, controls, sent>>
netVars  == <<wire, queued>>
vars     == <<hello, connVars, peerVars, netVars>>

States == {"none", "OPEN", "CLOSING", "CLOSED"}
Codes  == {"none", "NORMAL", "NO_STATUS", "ABNORMAL"}
\* `code' is the status code of a CLOSE frame, "none" when there is no payload.
Frame(fin, op, data)  == [fin |-> fin, op |-> op, data |-> data, code |-> "none"]
Close(code)           == [fin |-> TRUE, op |-> "CLOSE", data |-> <<>>, code |-> code]
Message(op, data)     == [op |-> op, data |-> data]
Size(f)               == HeaderLen + Len(f.data)

\* Text and binary messages take turns; the units of a message tell its number
\* and their place.
Kind(i)    == IF i % 2 = 1 THEN "TEXT" ELSE "BINARY"
Data(i, n) == [k \in 1 .. n |-> <<i, k>>]

Init ==
  /\ hello = <<>>
  /\ state = [e \in End |-> "none"] /\ wire = [e \in End |-> <<>>]
  /\ queued = [e \in End |-> 0]
  /\ recv_len = [e \in End |-> 0]
  /\ fragment = [e \in End |-> <<>>] /\ part = [e \in End |-> <<>>]
  /\ alive = [e \in End |-> TRUE] /\ controls = [e \in End |-> 0]
  /\ sent = [e \in End |-> <<>>] /\ events = [e \in End |-> <<>>]
  /\ starved = [e \in End |-> FALSE]

-----------------------------------------------------------------------------
(* The opening handshake.                                                  *)

\* The fields as programs send them: browsers add keep-alive.
Hellos == {"websocket", "WebSocket"} \X {"Upgrade", "upgrade", "keep-alive, Upgrade"}

\* cwh_ws_is_upgrade_request looks for the fields in these spellings only.
cwh_ws_is_upgrade_request(h) ==
  /\ h[1] \in {"websocket", "WebSocket"}
  /\ h[2] \in {"Upgrade", "upgrade"}

cwh_ws_conn_new(e) == state' = [state EXCEPT ![e] = "OPEN"]

Handshake == UNCHANGED <<recv_len, fragment, events, starved, peerVars, netVars>>

cwh_ws_client_handshake ==
  /\ hello = <<>>
  /\ hello' \in Hellos
  /\ UNCHANGED state /\ Handshake

\* The server's connection is there once its answer is sent.
cwh_ws_server_handshake ==
  /\ hello \in Hellos /\ cwh_ws_is_upgrade_request(hello)
  /\ hello' = <<"answered">>
  /\ cwh_ws_conn_new(Server)
  /\ Handshake

ServerRefuses ==
  /\ hello \in Hellos /\ ~cwh_ws_is_upgrade_request(hello)
  /\ hello' = <<"refused">>
  /\ UNCHANGED state /\ Handshake

\* The answer carries the key the client expects: nobody else has answered.
cwh_ws_client_validate_handshake ==
  /\ hello = <<"answered">>
  /\ hello' = <<"done">>
  /\ cwh_ws_conn_new(Client)
  /\ Handshake

-----------------------------------------------------------------------------
(* Sending.                                                                *)

\* ws_send_frame: one blocking send; lost when the other end has gone.
ws_send_frame(e, f) ==
  LET o == Other(e) IN
  IF alive[o] THEN /\ wire' = [wire EXCEPT ![o] = Append(@, f)]
                   /\ queued' = [queued EXCEPT ![o] = @ + Size(f)]
              ELSE UNCHANGED netVars

\* The program sends while its connection is open, in a callback or not.
MaySend(e) == alive[e] /\ state[e] = "OPEN"

\* cwh_ws_send_text and cwh_ws_send_binary.
SendMessage(e) ==
  /\ MaySend(e) /\ part[e] = <<>> /\ Len(sent[e]) < Messages[e]
  /\ \E n \in Lengths :
       LET m == Message(Kind(Len(sent[e]) + 1), Data(Len(sent[e]) + 1, n)) IN
       /\ ws_send_frame(e, Frame(TRUE, m.op, m.data))
       /\ sent' = [sent EXCEPT ![e] = Append(@, m)]
  /\ UNCHANGED <<hello, connVars, part, alive, controls>>

\* Another implementation: the first frame of a message, and a later one.
SendFirst(e) ==
  /\ e \in Fragmenting
  /\ MaySend(e) /\ part[e] = <<>> /\ Len(sent[e]) < Messages[e]
  /\ \E n \in Lengths \ {1} :
       LET m == Message(Kind(Len(sent[e]) + 1), Data(Len(sent[e]) + 1, n)) IN
       \E k \in 1 .. n - 1 :
         /\ ws_send_frame(e, Frame(FALSE, m.op, SubSeq(m.data, 1, k)))
         /\ part' = [part EXCEPT ![e] = SubSeq(m.data, k + 1, n)]
         /\ sent' = [sent EXCEPT ![e] = Append(@, m)]
  /\ UNCHANGED <<hello, connVars, alive, controls>>

SendNext(e) ==
  /\ MaySend(e) /\ part[e] # <<>>
  /\ \E k \in 1 .. Len(part[e]) :
       /\ ws_send_frame(e, Frame(k = Len(part[e]), "CONTINUATION", SubSeq(part[e], 1, k)))
       /\ part' = [part EXCEPT ![e] = SubSeq(@, k + 1, Len(@))]
  /\ UNCHANGED <<hello, connVars, alive, controls, sent>>

\* cwh_ws_send_ping, or a frame of an opcode this library does not know.
SendControl(e) ==
  /\ MaySend(e) /\ controls[e] < Controls[e]
  /\ \E op \in {"PING", "RESERVED"} :
       /\ op = "RESERVED" => e \in Fragmenting
       /\ ws_send_frame(e, Frame(TRUE, op, <<>>))
  /\ controls' = [controls EXCEPT ![e] = @ + 1]
  /\ UNCHANGED <<hello, connVars, part, alive, sent>>

cwh_ws_send_close(e) ==
  /\ MaySend(e)
  /\ state' = [state EXCEPT ![e] = "CLOSING"]
  /\ \E code \in {"none", "NORMAL"} : ws_send_frame(e, Close(code))
  /\ UNCHANGED <<hello, recv_len, fragment, events, starved, peerVars>>

\* The program ends, or closes the socket and frees the connection.
Vanish(e) ==
  /\ alive[e] /\ state[e] # "none"
  /\ alive' = [alive EXCEPT ![e] = FALSE]
  /\ wire' = [wire EXCEPT ![e] = <<>>] /\ queued' = [queued EXCEPT ![e] = 0]
  /\ recv_len' = [recv_len EXCEPT ![e] = 0] /\ fragment' = [fragment EXCEPT ![e] = <<>>]
  /\ part' = [part EXCEPT ![e] = <<>>]
  /\ UNCHANGED <<hello, state, events, starved, controls, sent>>

-----------------------------------------------------------------------------
(* cwh_ws_process.                                                         *)

Callback(e, event) == events' = [events EXCEPT ![e] = Append(@, event)]
OnMessage(op, data) == [callback |-> "on_message", op |-> op, data |-> data]
OnClose(code)       == [callback |-> "on_close", code |-> code]
OnError             == [callback |-> "on_error"]

\* (Variant: one unit too many.)
RoomAndOne(e) == RecvSize - recv_len[e] + 1
Room(e) == RecvSize - recv_len[e]

\* The first frame in the buffer, when all of it is there: the loop goes on for
\* as long as there is one.
WholeFrame(e) == wire[e] # <<>> /\ recv_len[e] >= Size(Head(wire[e]))

\* cwh_ws_process does nothing on a closed connection.  (Variant: it does not
\* look at the state.)
MayProcessAny(e) == alive[e] /\ state[e] # "none" /\ ~WholeFrame(e)
MayProcess(e) == alive[e] /\ state[e] \in {"OPEN", "CLOSING"} /\ ~WholeFrame(e)

\* recv returns as much as has arrived, at most what the buffer has room for.
Receive(e) ==
  /\ MayProcess(e)
  /\ \E n \in 1 .. (IF queued[e] < Room(e) THEN queued[e] ELSE Room(e)) :
       /\ recv_len' = [recv_len EXCEPT ![e] = @ + n]
       /\ queued' = [queued EXCEPT ![e] = @ - n]
  /\ UNCHANGED <<hello, state, fragment, events, starved, peerVars, wire>>

\* recv returns 0, at the end of the stream or when there is no room at all,
\* or fails, when the other end has gone and its data with it.
\* (Variant: nothing there yet is taken for the end.)
NothingYet(e) == Room(e) = 0 \/ queued[e] = 0
NoRoom(e) == Room(e) = 0
ReceiveFails(e) ==
  /\ MayProcess(e)
  /\ NoRoom(e) \/ ~alive[Other(e)]
  /\ Callback(e, OnClose("ABNORMAL"))
  /\ state' = [state EXCEPT ![e] = "CLOSED"]
  /\ UNCHANGED <<hello, recv_len, fragment, starved, peerVars, netVars>>

\* The frame handled is moved out of the buffer, and what it is answered with
\* goes to the other end.
Remaining(e, f) == recv_len[e] - Size(f)
Handled(e, f, reply) ==
  LET o  == Other(e)
      to == IF alive[o] THEN reply ELSE <<>>
  IN  /\ recv_len' = [recv_len EXCEPT ![e] = Remaining(e, f)]
      /\ wire' = [wire EXCEPT ![e] = Tail(@), ![o] = @ \o to]
      /\ queued' = [queued EXCEPT ![o] = @ + (IF to = <<>> THEN 0 ELSE Size(to[1]))]

\* fragment_buffer.  Whether malloc and realloc succeed is a choice; they fail
\* once at most.
MayFail(e) == {TRUE, starved[e]}
Fragment(e, value) == fragment' = [fragment EXCEPT ![e] = value]
Allocates(e, ok)   == starved' = [starved EXCEPT ![e] = @ \/ ~ok]

\* The first of several frames: an old fragment_buffer is overwritten.
OnFirst(e, f) ==
  /\ f.op \in {"TEXT", "BINARY"} /\ ~f.fin
  /\ \E ok \in MayFail(e) :
       /\ Fragment(e, IF ok THEN <<Message(f.op, f.data)>> ELSE <<>>)
       /\ Allocates(e, ok)
  /\ UNCHANGED <<state, events>>

\* A message in one frame; it is dropped, together with the fragments, if
\* there are any.
OnWhole(e, f) ==
  /\ f.op \in {"TEXT", "BINARY"} /\ f.fin
  /\ IF fragment[e] # <<>>
     THEN Fragment(e, <<>>) /\ UNCHANGED events
     ELSE Callback(e, OnMessage(f.op, f.data)) /\ UNCHANGED fragment
  /\ UNCHANGED <<state, starved>>

\* What fragment_buffer holds once the message is complete.  (Variant: it is
\* not reset.)
NotReset(e, m) == <<m>>
AfterFin(e, m) == <<>>

\* A later frame: without a fragment_buffer, beyond the limit or when realloc
\* fails it is passed over, whether or not it is the last one.
OnContinuation(e, f) ==
  /\ f.op = "CONTINUATION"
  /\ LET fits == fragment[e] # <<>> /\ Len(fragment[e][1].data) + Len(f.data) < MaxFragment
         m    == Message(fragment[e][1].op, fragment[e][1].data \o f.data)
     IN  IF ~fits THEN UNCHANGED <<fragment, events, starved>>
         ELSE \E ok \in MayFail(e) :
                /\ Allocates(e, ok)
                /\ IF ok /\ f.fin
                   THEN Callback(e, OnMessage(m.op, m.data)) /\ Fragment(e, AfterFin(e, m))
                   ELSE /\ Fragment(e, IF ok THEN <<m>> ELSE fragment[e])
                        /\ UNCHANGED events
  /\ UNCHANGED state

\* The callback may send a CLOSE itself, and then it is not echoed: one goes
\* out in either case, unless one has already.
close_code(f) == IF f.code = "none" THEN "NO_STATUS" ELSE f.code

OnCloseFrame(e, f) ==
  /\ f.op = "CLOSE"
  /\ Callback(e, OnClose(close_code(f)))
  /\ state' = [state EXCEPT ![e] = "CLOSED"]
  /\ UNCHANGED <<fragment, starved>>

\* (Variant: only a CLOSE that this end has asked for is answered.)
EchoesWhenClosing(e) == state[e] = "CLOSING"
Echoes(e) == state[e] # "CLOSING"
Reply(e, f) ==
  CASE f.op = "CLOSE" /\ Echoes(e) -> <<Close(close_code(f))>>
    [] f.op = "PING"               -> <<Frame(TRUE, "PONG", f.data)>>
    [] OTHER                       -> <<>>

OnControl(e, f) ==
  /\ f.op \in {"PING", "PONG", "RESERVED"}
  /\ IF f.op = "RESERVED" THEN Callback(e, OnError) ELSE UNCHANGED events
  /\ UNCHANGED <<state, fragment, starved>>

\* One round of the loop.
HandleFrame(e) ==
  /\ alive[e] /\ WholeFrame(e)
  /\ LET f == Head(wire[e]) IN
       /\ OnFirst(e, f) \/ OnWhole(e, f) \/ OnContinuation(e, f)
          \/ OnCloseFrame(e, f) \/ OnControl(e, f)
       /\ Handled(e, f, Reply(e, f))
  /\ UNCHANGED <<hello, peerVars>>

Process(e) == Receive(e) \/ ReceiveFails(e) \/ HandleFrame(e)

-----------------------------------------------------------------------------
Program(e) == \/ SendMessage(e)
              \/ SendFirst(e)
              \/ SendNext(e)
              \/ SendControl(e)
              \/ cwh_ws_send_close(e)
              \/ Vanish(e)

Next == \/ cwh_ws_client_handshake
        \/ cwh_ws_server_handshake
        \/ ServerRefuses
        \/ cwh_ws_client_validate_handshake
        \/ \E e \in End : Program(e) \/ Process(e)

Spec == Init /\ [][Next]_vars

\* A program calls cwh_ws_process whenever its socket is readable, and its
\* callbacks return; the opening handshake goes on.
FairSpec == /\ Spec
            /\ WF_vars(cwh_ws_client_validate_handshake)
            /\ \A e \in End : WF_vars(Process(e))

-----------------------------------------------------------------------------
(* Properties.                                                             *)

\* Every variable stays in its range.
Unit     == Nat \X Nat
Ops      == {"TEXT", "BINARY", "CONTINUATION", "CLOSE", "PING", "PONG", "RESERVED"}
Msg      == [op : {"TEXT", "BINARY"}, data : Seq(Unit)]
Event    == [callback : {"on_message"}, op : {"TEXT", "BINARY"}, data : Seq(Unit)]
            \cup [callback : {"on_close"}, code : Codes]
            \cup [callback : {"on_error"}]
TypeOK ==
  /\ hello \in Hellos \cup {<<>>, <<"answered">>, <<"refused">>, <<"done">>}
  /\ state \in [End -> States]
  /\ wire \in [End -> Seq([fin : BOOLEAN, op : Ops, data : Seq(Unit), code : Codes])]
  /\ queued \in [End -> Nat] /\ recv_len \in [End -> 0 .. RecvSize]
  /\ fragment \in [End -> Seq(Msg)] /\ \A e \in End : Len(fragment[e]) <= 1
  /\ part \in [End -> Seq(Unit)]
  /\ alive \in [End -> BOOLEAN] /\ controls \in [End -> Nat]
  /\ sent \in [End -> Seq(Msg)] /\ events \in [End -> Seq(Event)]
  /\ starved \in [End -> BOOLEAN]

\* The messages among the first i of an end's callbacks.
IsMessage(v)    == v.callback = "on_message"
Count(calls, i) == Cardinality({j \in 1 .. i : IsMessage(calls[j])})
Whole(e) == \A i \in 1 .. Len(sent[e]) : Len(sent[e][i].data) < MaxFragment

\* A program gets the messages of the other one, each whole, of its own kind,
\* once and in the order they were sent, however they were cut into frames
\* and into packets and whatever control frames came in between, and none is
\* lost on an open connection; as long as none is longer than the limit and
\* memory does not run out.
UnderWay(e) == wire[e] # <<>> \/ part[Other(e)] # <<>>
InOrder(e) ==
  \A i \in 1 .. Len(events[e]) : IsMessage(events[e][i]) =>
    LET n == Count(events[e], i) IN
    /\ n <= Len(sent[Other(e)])
    /\ Message(events[e][i].op, events[e][i].data) = sent[Other(e)][n]
NoneLost(e) ==
  state[e] = "OPEN" /\ alive[e] /\ alive[Other(e)] /\ ~UnderWay(e) =>
    Count(events[e], Len(events[e])) = Len(sent[Other(e)])
MessagesInOrder ==
  \A e \in End : Whole(Other(e)) /\ ~starved[e] => InOrder(e) /\ NoneLost(e)

\* on_close is called once, in the state CLOSED, and no callback follows it.
ClosedOnce ==
  \A e \in End : \A i \in 1 .. Len(events[e]) :
    events[e][i].callback = "on_close" => i = Len(events[e]) /\ state[e] = "CLOSED"

\* A connection ends abnormally only when the other program has gone, or has
\* sent a frame that no receive buffer holds.
TooLong(e) == wire[e] # <<>> /\ Size(Head(wire[e])) > RecvSize
AbnormalForCause ==
  [][\A e \in End : events'[e] # events[e] /\ events'[e][Len(events'[e])] = OnClose("ABNORMAL")
       => ~alive[Other(e)] \/ TooLong(e)]_vars

\* A closing handshake ends: also when both ends start it at once, and with
\* messages and pings on the way in both directions; unless the other end has
\* already dropped the connection over a frame it could not hold.
Abnormal(e) == \E i \in 1 .. Len(events[e]) : events[e][i] = OnClose("ABNORMAL")
CloseAnswered ==
  \A e \in End :
    state[e] = "CLOSING"
      ~> (state[e] = "CLOSED" \/ ~alive[e] \/ Abnormal(Other(e)))

=============================================================================
