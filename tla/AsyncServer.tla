----------------------------- MODULE AsyncServer -----------------------------
(***************************************************************************)
(* The asynchronous HTTP server, src/src/async/server.c, over the epoll    *)
(* loop: one thread runs the callbacks, and the clients and the kernel act *)
(* between any two of them (and between two accept calls of one).          *)
(*                                                                         *)
(* A request travels as three pieces, in order: "start" (the request line  *)
(* without its CRLF), "line" (the CRLF) and "head" (the header fields and  *)
(* the blank line); in an overlong one the second piece is more of the     *)
(* line.  TCP may deliver any prefix of what was sent.                     *)
(***************************************************************************)
EXTENDS EventLoop, Sequences

CONSTANTS
  Client,          \* clients; each opens at most one connection
  Listener,        \* the listening socket
  MaxConnections,  \* server->max_connections
  MaxRequest,      \* bound: requests one client sends
  Requests,        \* [Client -> 0..MaxRequest]: those it sends at most
  ConnectionField, \* [1..MaxRequest -> Seq(STRING)]: what follows "Connection: "
  Outcome,         \* what a route's handler may do: subset of Outcomes
  RecvCap,         \* sizeof(recv_buf) - 1, in pieces
  AnswerLen,       \* [1..MaxRequest -> Nat \ {0}]: units of the answer to a
                   \* request, head and body as the head announces them
  SendRoom,        \* sizeof(send_buf), in units
  SndCap,          \* the kernel's send buffer, in units
  IdleTimeout      \* timeout_ms / 1000

Outcomes == {"respond", "silent", "stop"}

ASSUME ServerAssumption ==
  /\ IsFiniteSet(Client) /\ Listener \notin Client
  /\ NoFile \notin Client \cup {Listener}
  /\ MaxConnections \in Nat \ {0} /\ MaxRequest \in Nat
  /\ Requests \in [Client -> 0 .. MaxRequest]
  /\ ConnectionField \in [1 .. MaxRequest -> Seq(STRING)]
  /\ Outcome \subseteq Outcomes
  /\ AnswerLen \in [1 .. MaxRequest -> Nat \ {0}]
  /\ RecvCap \in Nat \ {0} /\ SendRoom \in Nat \ {0}
  /\ SndCap \in Nat \ {0} /\ IdleTimeout \in Nat

VARIABLES
  running, listen_fd, connections, conn_count,  \* fields of the server
  conn,       \* [Client -> Conn]: the connection object of each client
  idle,       \* [Client -> Nat]: now - last_activity, up to IdleTimeout + 1
  accepting,  \* TRUE while the listen callback is in its accept loop
  backlog,    \* established connections waiting in the kernel for accept
  link,       \* [Client -> Links]: the client's end of the connection
  inq,        \* [Client -> Seq(Piece)]: the server socket's receive buffer
  outq,       \* [Client -> Seq(Unit)]: its send buffer
  sent,       \* [Client -> Nat]: pieces the client has sent
  got         \* [Client -> Seq(Unit)]: units the client has read

serverVars == <<running, listen_fd, connections, conn_count, conn, idle, accepting>>
netVars    == <<backlog, link, inq, outq, sent, got>>
vars       == <<loopVars, serverVars, netVars>>

Links  == {"none", "up", "fin", "reset", "closed"}
Parts  == <<{"start"}, {"line", "start"}, {"head"}>>
Piece  == [req : 1 .. MaxRequest, part : {"start", "line", "head"}]
Unit   == [req : 1 .. MaxRequest, nth : 1 .. SendRoom]   \* the nth of an answer
States == {"READING_REQUEST", "PROCESSING", "WRITING_RESPONSE"}
Conn   == [fd : Fd \cup {-1}, state : States, recv_buf : Seq(Piece),
           keep_alive : BOOLEAN, send_buf : Seq(Unit)]

\* calloc's zeroes and what create_connection sets, with state READING_REQUEST
\* because the server has no TLS context.
NewConn(fd) == [fd |-> fd, state |-> "READING_REQUEST", recv_buf |-> <<>>,
                keep_alive |-> FALSE, send_buf |-> <<>>]

\* cwh_async_server_new and a successful cwh_async_listen.
Init ==
  /\ file = [fd \in Fd |-> IF fd = 0 THEN Listener ELSE NoFile]
  /\ interest = [fd \in Fd |-> IF fd = 0 THEN {READ} ELSE {}]
  /\ handlers = {Entry(0, {READ}, Listener)}
  /\ batch = {}
  /\ running = TRUE /\ listen_fd = 0 /\ accepting = FALSE
  /\ connections = {} /\ conn_count = 0
  /\ conn = [c \in Client |-> NewConn(-1)] /\ idle = [c \in Client |-> 0]
  /\ backlog = <<>>
  /\ link = [c \in Client |-> "none"]
  /\ inq = [c \in Client |-> <<>>] /\ outq = [c \in Client |-> <<>>]
  /\ sent = [c \in Client |-> 0] /\ got = [c \in Client |-> <<>>]

-----------------------------------------------------------------------------
(* The kernel and the clients.                                             *)

Readable(s) == IF s = Listener THEN backlog # <<>>
                               ELSE inq[s] # <<>> \/ link[s] \in {"fin", "reset"}
Writable(s) == s # Listener /\ (Len(outq[s]) < SndCap \/ link[s] = "reset")
Hung(s)     == s # Listener /\ link[s] = "reset"

\* The events that hold on each open descriptor.
Level ==
  [fd \in Fd |-> IF file[fd] = NoFile THEN {}
                 ELSE {ev \in Events : \/ ev = READ  /\ Readable(file[fd])
                                       \/ ev = WRITE /\ Writable(file[fd])
                                       \/ ev = ERROR /\ Hung(file[fd])}]

NextPieces(c) == [req : {(sent[c] \div 3) + 1}, part : Parts[(sent[c] % 3) + 1]]

Connect(c) ==
  /\ link[c] = "none" /\ listen_fd # -1
  /\ link' = [link EXCEPT ![c] = "up"]
  /\ backlog' = Append(backlog, c)
  /\ UNCHANGED <<loopVars, serverVars, inq, outq, sent, got>>

\* Requests may be pipelined: the client does not wait for an answer.
Send(c) ==
  /\ link[c] = "up" /\ sent[c] < 3 * Requests[c]
  /\ \E piece \in NextPieces(c) : inq' = [inq EXCEPT ![c] = Append(@, piece)]
  /\ sent' = [sent EXCEPT ![c] = @ + 1]
  /\ UNCHANGED <<loopVars, serverVars, backlog, link, outq, got>>

Receive(c) ==
  /\ link[c] \in {"up", "closed"} /\ outq[c] # <<>>
  /\ got' = [got EXCEPT ![c] = Append(@, Head(outq[c]))]
  /\ outq' = [outq EXCEPT ![c] = Tail(@)]
  /\ UNCHANGED <<loopVars, serverVars, backlog, link, inq, sent>>

ClientClose(c) ==
  /\ link[c] = "up"
  /\ link' = [link EXCEPT ![c] = "fin"]
  /\ UNCHANGED <<loopVars, serverVars, backlog, inq, outq, sent, got>>

ClientReset(c) ==
  /\ link[c] \in {"up", "fin"}
  /\ link' = [link EXCEPT ![c] = "reset"]
  /\ inq' = [inq EXCEPT ![c] = <<>>] /\ outq' = [outq EXCEPT ![c] = <<>>]
  /\ UNCHANGED <<loopVars, serverVars, backlog, sent, got>>

\* A second passes.
Tick ==
  /\ \E c \in connections : idle[c] <= IdleTimeout
  /\ idle' = [c \in Client |-> IF c \in connections /\ idle[c] <= IdleTimeout
                               THEN idle[c] + 1 ELSE idle[c]]
  /\ UNCHANGED <<loopVars, running, listen_fd, connections, conn_count, conn,
                 accepting, netVars>>

-----------------------------------------------------------------------------
(* Connection management.                                                  *)

FdsOf(C) == {conn[c].fd : c \in C}

\* What closing a server-side socket does to the client's end.
Hangup(C) ==
  /\ link' = [c \in Client |-> IF c \in C THEN "closed" ELSE link[c]]
  /\ inq'  = [c \in Client |-> IF c \in C THEN <<>> ELSE inq[c]]

\* conn_count after close_connection on each connection of a set.
\* (Variants: it goes down once per sweep, or twice per connection.)
CountOncePerSweep(C) == IF C = {} THEN conn_count ELSE conn_count - 1
CountTwice(C) == conn_count - 2 * Cardinality(C)
CountWithout(C) == conn_count - Cardinality(C)

\* Unlinking and freeing them.
Drop(C) ==
  /\ connections' = connections \ C
  /\ conn_count' = CountWithout(C)
  /\ conn' = [c \in Client |-> IF c \in C THEN NewConn(-1) ELSE conn[c]]

close_connection(C) ==
  /\ DelAndClose(FdsOf(C))
  /\ Drop(C)
  /\ Hangup(C)
  /\ UNCHANGED <<running, listen_fd, accepting, backlog, outq, sent, got>>

\* cwh_async_server_stop: the listening socket goes first, with the
\* connections the kernel still holds for it.
server_stop ==
  /\ running' = FALSE
  /\ listen_fd' = -1
  /\ DelAndClose({listen_fd} \cup FdsOf(connections))
  /\ Drop(connections)
  /\ Hangup(connections \cup {c \in Client : \E i \in 1 .. Len(backlog) : backlog[i] = c})
  /\ backlog' = <<>>
  /\ UNCHANGED <<accepting, outq, sent, got>>

\* (Variant: only a response under way times out.)
ExpiredWriting(c) == idle[c] > IdleTimeout /\ conn[c].state = "WRITING_RESPONSE"
Expired(c) == idle[c] > IdleTimeout

\* listen_event_handler up to its loop: check_and_close_idle_connections.
ListenEvent ==
  /\ ~accepting
  /\ \E e \in batch : Delivers(e, Listener) /\ Consume(e)
  /\ accepting' = TRUE
  /\ LET C == {c \in connections : Expired(c)} IN
       DelAndClose(FdsOf(C)) /\ Drop(C) /\ Hangup(C)
  /\ UNCHANGED <<running, listen_fd, idle, backlog, outq, sent, got>>

\* (Variant: the limit is not looked at again in the loop.)
AcceptUnlimited == accepting /\ running
MayAccept == accepting /\ running /\ conn_count < MaxConnections

\* One round of the accept loop: accept, create_connection, cwh_loop_add.
Accept ==
  /\ MayAccept /\ backlog # <<>>
  /\ LET c == Head(backlog) IN
       \E fd \in Fd :
         /\ IsNextFd(fd) /\ CanAdd(fd)
         /\ file' = [file EXCEPT ![fd] = c]
         /\ cwh_loop_add(fd, {READ}, c)
         /\ connections' = connections \cup {c}
         /\ conn_count' = conn_count + 1
         /\ conn' = [conn EXCEPT ![c] = NewConn(fd)]
         /\ idle' = [idle EXCEPT ![c] = 0]
  /\ backlog' = Tail(backlog)
  /\ UNCHANGED <<batch, running, listen_fd, accepting, link, inq, outq, sent, got>>

\* A later step of the round fails (fcntl, calloc, epoll_ctl): what it had
\* built is taken down again and the socket closed.
AcceptThenFail ==
  /\ MayAccept /\ backlog # <<>> /\ Free # {}
  /\ Hangup({Head(backlog)})
  /\ backlog' = Tail(backlog)
  /\ UNCHANGED <<loopVars, serverVars, outq, sent, got>>

\* accept itself fails other than by EAGAIN (no descriptor is free, here or in
\* the system, or no memory): `continue; // Error, try next`.
AcceptError ==
  /\ MayAccept /\ backlog # <<>>
  /\ UNCHANGED vars

\* Nothing to accept, the limit is reached or the server has been stopped.
AcceptDone ==
  /\ accepting
  /\ ~MayAccept \/ backlog = <<>>
  /\ accepting' = FALSE
  /\ UNCHANGED <<loopVars, running, listen_fd, connections, conn_count, conn, idle, netVars>>

-----------------------------------------------------------------------------
(* connection_event_handler.                                               *)

Touch(c) == idle' = [idle EXCEPT ![c] = 0]

Stay == UNCHANGED <<file, interest, handlers, running, listen_fd, connections,
                    conn_count, accepting>>

\* A C string that starts in a receive buffer ends at the first NUL.
CString(bytes) ==
  LET ends == {i \in 1 .. Len(bytes) : bytes[i] = "NUL"}
  IN  IF ends = {} THEN bytes
      ELSE SubSeq(bytes, 1, (CHOOSE i \in ends : \A j \in ends : i <= j) - 1)

\* cwh_parse_req accepts once it has seen a whole request line.
cwh_parse_req(buf) ==
  /\ Len(buf) >= 2
  /\ buf[1].part = "start" /\ buf[2].part = "line"

\* cwh_get_header(req, "connection") points into the receive buffer, whose
\* lines nobody cuts: the string compared runs on through the CRLF.
AsksKeepAlive(buf) ==
  /\ Len(buf) >= 3 /\ buf[3].part = "head"
  /\ CString(ConnectionField[buf[1].req] \o <<"CRLF", "CRLF">>) = <<"keep-alive">>

\* The head is written first and announces the whole body; of the body, as
\* much is copied as the rest of send_buf has room for.
Copied(r) == IF AnswerLen[r] < SendRoom THEN AnswerLen[r] ELSE SendRoom
Response(r) == [i \in 1 .. Copied(r) |-> [req |-> r, nth |-> i]]

\* recv: what is there, as far as the buffer has room.
Received(c) == LET n == IF Len(inq[c]) < RecvCap - Len(conn[c].recv_buf)
                        THEN Len(inq[c]) ELSE RecvCap - Len(conn[c].recv_buf)
               IN  SubSeq(inq[c], 1, n)

\* An error closes the connection, whatever its state.
OnError(c, e) ==
  /\ ERROR \in e.events
  /\ close_connection({c})

ReadEvent(c, e) ==
  /\ ERROR \notin e.events /\ READ \in e.events
  /\ conn[c].state = "READING_REQUEST"

\* recv returns 0.  (Variant: EAGAIN taken for it.)
NothingThere(c) == inq[c] = <<>>
EndOfFile(c) == inq[c] = <<>> /\ link[c] = "fin"

\* read_request gets nothing for good: a reset, no room left (recv with length
\* 0 returns 0 too), or the end of the stream.
ReadFails(c) ==
  \/ link[c] = "reset"
  \/ Len(conn[c].recv_buf) = RecvCap
  \/ EndOfFile(c)

OnReadFailure(c, e) ==
  /\ ReadEvent(c, e) /\ ReadFails(c)
  /\ close_connection({c})

\* Nothing to read (EAGAIN), or not a whole request line yet.
OnReadMore(c, e) ==
  /\ ReadEvent(c, e) /\ ~ReadFails(c)
  /\ LET more == Received(c) IN
       /\ ~(more # <<>> /\ cwh_parse_req(conn[c].recv_buf \o more))
       /\ conn' = [conn EXCEPT ![c].recv_buf = @ \o more]
       /\ inq' = [inq EXCEPT ![c] = SubSeq(@, Len(more) + 1, Len(@))]
  /\ Stay
  /\ UNCHANGED <<backlog, link, outq, sent, got>>

\* A request line is there: process_request calls the route's handler.
OnRequest(c, e) ==
  /\ ReadEvent(c, e) /\ ~ReadFails(c)
  /\ LET more == Received(c)
         buf  == conn[c].recv_buf \o more
         ka   == conn[c].keep_alive \/ AsksKeepAlive(buf)
         read == [conn[c] EXCEPT !.recv_buf = buf, !.keep_alive = ka]
     IN  /\ more # <<>> /\ cwh_parse_req(buf)
         /\ \/ \* the handler, or the 404, calls cwh_async_send_response
               /\ "respond" \in Outcome
               /\ conn' = [conn EXCEPT ![c] = [read EXCEPT
                             !.state = "WRITING_RESPONSE",
                             !.send_buf = Response(buf[1].req)]]
               /\ inq' = [inq EXCEPT ![c] = SubSeq(@, Len(more) + 1, Len(@))]
               /\ cwh_loop_mod(conn[c].fd, {WRITE})
               /\ UNCHANGED <<file, running, listen_fd, connections, conn_count,
                              accepting, backlog, link, outq, sent, got>>
            \/ \* it does not, or the response's head exceeds send_buf
               /\ "silent" \in Outcome
               /\ conn' = [conn EXCEPT ![c] = [read EXCEPT !.state = "PROCESSING"]]
               /\ inq' = [inq EXCEPT ![c] = SubSeq(@, Len(more) + 1, Len(@))]
               /\ Stay /\ UNCHANGED <<backlog, link, outq, sent, got>>
            \/ "stop" \in Outcome /\ server_stop

WriteEvent(c, e) ==
  /\ ERROR \notin e.events /\ WRITE \in e.events
  /\ conn[c].state = "WRITING_RESPONSE"

OnWriteFailure(c, e) ==
  /\ WriteEvent(c, e) /\ link[c] = "reset"
  /\ close_connection({c})

\* The units that fit; none is EAGAIN.
Fits(c) == IF Len(conn[c].send_buf) < SndCap - Len(outq[c])
           THEN Len(conn[c].send_buf) ELSE SndCap - Len(outq[c])

Written(c) == /\ outq' = [outq EXCEPT ![c] = @ \o SubSeq(conn[c].send_buf, 1, Fits(c))]
              /\ UNCHANGED <<sent, got>>

OnWriteMore(c, e) ==
  /\ WriteEvent(c, e) /\ link[c] # "reset"
  /\ Fits(c) < Len(conn[c].send_buf)
  /\ Written(c)
  /\ conn' = [conn EXCEPT ![c].send_buf = SubSeq(@, Fits(c) + 1, Len(@))]
  /\ Stay
  /\ UNCHANGED <<backlog, link, inq>>

\* Ready for the next request; what the buffer held beyond the request just
\* answered is gone.  (Variant: the input is not reset.)
ResetKeepingInput(r) == [r EXCEPT !.state = "READING_REQUEST", !.send_buf = <<>>]
ResetForNext(r) == [r EXCEPT !.state = "READING_REQUEST", !.recv_buf = <<>>, !.send_buf = <<>>]

\* All sent, keep_alive.
OnWriteKeepAlive(c, e) ==
  /\ WriteEvent(c, e) /\ link[c] # "reset"
  /\ Fits(c) = Len(conn[c].send_buf) /\ conn[c].keep_alive
  /\ Written(c)
  /\ conn' = [conn EXCEPT ![c] = ResetForNext(@)]
  /\ cwh_loop_mod(conn[c].fd, {READ})
  /\ UNCHANGED <<file, running, listen_fd, connections, conn_count, accepting,
                 backlog, link, inq>>

OnWriteClose(c, e) ==
  /\ WriteEvent(c, e) /\ link[c] # "reset"
  /\ Fits(c) = Len(conn[c].send_buf) /\ ~conn[c].keep_alive
  /\ Written(c)
  /\ DelAndClose({conn[c].fd}) /\ Drop({c}) /\ Hangup({c})
  /\ UNCHANGED <<running, listen_fd, accepting, backlog>>

\* The state has no use for the event.
OnIgnored(c, e) ==
  /\ ERROR \notin e.events
  /\ ~ReadEvent(c, e) /\ ~WriteEvent(c, e)
  /\ Stay /\ UNCHANGED <<conn, netVars>>

-----------------------------------------------------------------------------
\* cwh_async_server_stop from outside the callbacks (a signal handler, as in
\* examples/async_server.c).
Stop ==
  /\ "stop" \in Outcome /\ running
  /\ server_stop
  /\ UNCHANGED <<batch, idle>>

Wait == ~accepting /\ epoll_wait(Level) /\ UNCHANGED <<serverVars, netVars>>

Skip == /\ ~accepting
        /\ \E e \in batch : DispatchNone(e)
        /\ UNCHANGED <<serverVars, netVars>>

Callback(c) ==
  /\ ~accepting
  /\ \E e \in batch :
       /\ Delivers(e, c) /\ Consume(e) /\ Touch(c)
       /\ \/ OnError(c, e)
          \/ OnReadFailure(c, e)
          \/ OnReadMore(c, e)
          \/ OnRequest(c, e)
          \/ OnWriteFailure(c, e)
          \/ OnWriteMore(c, e)
          \/ OnWriteKeepAlive(c, e)
          \/ OnWriteClose(c, e)
          \/ OnIgnored(c, e)

LoopStep ==
  \/ Wait
  \/ Skip
  \/ ListenEvent
  \/ Accept
  \/ AcceptThenFail
  \/ AcceptError
  \/ AcceptDone
  \/ \E c \in Client : Callback(c)

Environment ==
  \/ Tick
  \/ \E c \in Client : \/ Connect(c)
                       \/ Send(c)
                       \/ Receive(c)
                       \/ ClientClose(c)
                       \/ ClientReset(c)

Next == LoopStep \/ Stop \/ Environment

Spec == Init /\ [][Next]_vars

-----------------------------------------------------------------------------
(* Fairness: the loop's thread keeps running and time passes; for liveness *)
(* a client whose connection stands keeps reading what it is sent.         *)

FairSpec ==
  /\ Spec
  /\ WF_vars(LoopStep)
  /\ WF_vars(Tick)
  /\ \A c \in Client : WF_vars(Receive(c))

-----------------------------------------------------------------------------
(* Properties.                                                             *)

\* Every variable stays in its range.
TypeOK ==
  /\ file \in [Fd -> Client \cup {Listener, NoFile}]
  /\ interest \in [Fd -> SUBSET Events]
  /\ handlers \subseteq [fd : Fd, events : SUBSET Events, data : Client \cup {Listener}]
  /\ batch \subseteq [fd : Fd, events : SUBSET Events,
                      sock : Client \cup {Listener, NoFile}]
  /\ running \in BOOLEAN /\ listen_fd \in Fd \cup {-1} /\ accepting \in BOOLEAN
  /\ connections \subseteq Client /\ conn_count \in Nat
  /\ conn \in [Client -> Conn] /\ idle \in [Client -> 0 .. IdleTimeout + 1]
  /\ backlog \in Seq(Client)
  /\ link \in [Client -> Links]
  /\ inq \in [Client -> Seq(Piece)] /\ outq \in [Client -> Seq(Unit)]
  /\ sent \in [Client -> 0 .. 3 * MaxRequest]
  /\ got \in [Client -> Seq(Unit)]

\* The events a connection waits for in its state.
Awaited(c) == IF conn[c].state = "WRITING_RESPONSE" THEN {WRITE} ELSE {READ}

\* The callbacks the loop may call are those of the listening socket and of
\* the connections that exist, each under the descriptor its connection has
\* now and with the events its state waits for, and the kernel's epoll set
\* agrees: no callback gets a freed connection, and none waits for the wrong
\* event (close_connection, create_connection and every cwh_loop_mod).
CallbacksLive ==
  /\ handlers = {Entry(conn[c].fd, Awaited(c), c) : c \in connections}
                \cup (IF listen_fd = -1 THEN {} ELSE {Entry(listen_fd, {READ}, Listener)})
  /\ \A fd \in Fd : interest[fd] = UNION {h.events : h \in find_handler(fd)}

\* The descriptors open are the listening socket's and one for each existing
\* connection: none leaks when a connection ends, and none is closed twice.
DescriptorsOwned ==
  \A fd \in Fd :
    /\ file[fd] = Listener <=> fd = listen_fd
    /\ \A c \in Client : file[fd] = c <=> c \in connections /\ conn[c].fd = fd

\* conn_count, which bounds acceptance, is the length of the connection list
\* through every way a connection ends, and stays within max_connections.
CountsAgree ==
  conn_count = Cardinality(connections) /\ conn_count <= MaxConnections

Ended == {c \in Client : /\ link[c] # "none" /\ c \notin connections
                          /\ \A i \in DOMAIN backlog : backlog[i] # c}
Service == INSTANCE ServerService WITH
  Limit <- MaxConnections, Request <- MaxRequest, Announced <- AnswerLen, Room <- SendRoom,
  up <- running, waiting <- backlog, open <- connections, over <- Ended, read <- got

\* What a client reads, what is under way to it and what is still to be sent
\* are answers to ever later requests, one after another, each from its first
\* unit to its last, or to the last that send_buf has room for: none is
\* interrupted, answered twice or overtaken, although requests may be
\* pipelined and both buffers are shared by successive requests.
Stream(c) == IF link[c] = "reset" THEN got[c] ELSE got[c] \o outq[c] \o conn[c].send_buf
AnswersInOrder == \A c \in Client : Service!InOrder(Stream(c))

\* When the next answer begins, all that the head of the one before announced
\* has come: a client that goes by Content-Length never takes one answer for
\* the rest of another (examples/static_file_server.c hands files of up to ten
\* megabytes to cwh_async_send_response).
AnswersComplete ==
  \A c \in Client : \A i \in DOMAIN Stream(c) :
    i > 1 /\ Stream(c)[i].nth = 1 => Stream(c)[i - 1].nth = AnswerLen[Stream(c)[i - 1].req]

\* A connection ends only when its peer has gone, it was idle too long, its
\* buffer is full without a request line, its last response is all sent, or
\* the server stops; or else when an error reported for a connection closed
\* since reaches the one that has its descriptor now.
Overdue(c) == \E e \in batch : Delivers(e, c) /\ e.sock # c /\ ERROR \in e.events
MayEnd(c) ==
  \/ link[c] \in {"fin", "reset"}
  \/ Expired(c)
  \/ Len(conn[c].recv_buf) = RecvCap /\ ~cwh_parse_req(conn[c].recv_buf)
  \/ conn[c].state = "WRITING_RESPONSE" /\ ~conn[c].keep_alive /\ Fits(c) = Len(conn[c].send_buf)
  \/ Overdue(c)
NoWrongfulClose ==
  [][\A c \in connections : c \notin connections' => MayEnd(c) \/ (running /\ ~running')]_vars

\* A client waiting in the kernel's queue is eventually taken off it, also
\* when the server is at its limit with connections that say nothing.
BacklogServed ==
  \A c \in Client : (\E i \in DOMAIN backlog : backlog[i] = c)
                      ~> ~(\E i \in DOMAIN backlog : backlog[i] = c)

\* What a client has sent does not stay unread: the server reads it or ends
\* the connection, whatever response it was writing when the data came.
InputNotStranded ==
  \A c \in Client : (c \in connections /\ inq[c] # <<>> /\ link[c] = "up")
                      ~> (inq[c] = <<>> \/ link[c] # "up")

\* A response begun is finished, to a client that stays and reads.
ResponseFinished ==
  \A c \in Client : (conn[c].state = "WRITING_RESPONSE" /\ link[c] = "up")
                      ~> (conn[c].state # "WRITING_RESPONSE" \/ link[c] # "up")

\* A connection idle beyond its timeout is closed, or becomes active again.
IdleClosed ==
  \A c \in Client : (c \in connections /\ Expired(c))
                      ~> ~(c \in connections /\ Expired(c))

\* The server implements the service it promises (ServerService): sessions are
\* admitted in arrival order within the limit and never after a stop, end once,
\* and what their clients read is answers in request order, each whole unless
\* it is longer than send_buf.
ServiceSpec == Service!SSpec

=============================================================================
