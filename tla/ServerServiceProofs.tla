-------------------------- MODULE ServerServiceProofs --------------------------
(***************************************************************************)
(* Proofs about what the clients of AsyncServer get, for every number of   *)
(* clients, requests and descriptors and every size of the buffers: that   *)
(* no connection is closed wrongly, that answers come in order and as far  *)
(* as send_buf holds them, and with these that the server implements       *)
(* ServerService.                                                          *)
(***************************************************************************)
EXTENDS AsyncServerProofs, SequenceTheorems

-----------------------------------------------------------------------------
(* Where clients are, and what the events and the buffers of their         *)
(* connections mean.                                                       *)

InBacklog(c) == \E i \in DOMAIN backlog : backlog[i] = c

\* A stopped server has no socket, no queue and no connections; a connection
\* on the list or in the queue has not been closed; a client without one has a
\* fresh object, and unless it has been on the list nothing was sent to it.
Places ==
  /\ running <=> listen_fd # -1
  /\ ~running => connections = {} /\ backlog = <<>>
  /\ \A c \in Client : c \in connections \/ InBacklog(c) => link[c] # "closed"
  /\ \A c \in Client : c \notin connections => conn[c] = NewConn(-1)
  /\ \A c \in Client : outq[c] # <<>> => link[c] # "none" /\ ~InBacklog(c)

\* An error is reported for a reset only, and a reset is for good.
ErrorsReal ==
  \A e \in batch : ERROR \in e.events => e.sock \in Client /\ link[e.sock] \in {"reset", "closed"}

\* A request line that is there has been seen.
NothingParses ==
  \A c \in Client : conn[c].state = "READING_REQUEST" => ~cwh_parse_req(conn[c].recv_buf)

PlaceInv == IInv /\ Places /\ ErrorsReal /\ NothingParses

\* The ways a client's connection, or its place in the queue, is lost.
Lost(C) ==
  /\ link' = [c \in Client |-> IF c \in C THEN "closed" ELSE link[c]]
  /\ inq' = [c \in Client |-> IF c \in C THEN <<>> ELSE inq[c]]
  /\ conn' = [c \in Client |-> IF c \in C THEN NewConn(-1) ELSE conn[c]]
  /\ connections' = connections \ C

LEMMA BufferOfNew ==
  ASSUME NEW fd
  PROVE  /\ NewConn(fd).state = "READING_REQUEST" /\ NewConn(fd).recv_buf = <<>>
         /\ NewConn(fd).send_buf = <<>> /\ ~cwh_parse_req(NewConn(fd).recv_buf)
BY DEF NewConn, cwh_parse_req

\* Every callback of a connection that takes place is one of these.
LEMMA CallbackOf ==
  ASSUME IInv, NEW c \in Client, Callback(c)
  PROVE  /\ c \in connections
         /\ \E e \in batch :
              /\ Delivers(e, c) /\ Consume(e) /\ Touch(c)
              /\ \/ OnError(c, e) \/ OnReadFailure(c, e) \/ OnReadMore(c, e)
                 \/ OnRequest(c, e) \/ OnWriteFailure(c, e) \/ OnWriteMore(c, e)
                 \/ OnWriteKeepAlive(c, e) \/ OnWriteClose(c, e) \/ OnIgnored(c, e)
BY DeliveredIsConnected DEF Callback

\* What the callbacks that keep the connection do to the places.
LEMMA StaysInPlace ==
  ASSUME PlaceInv, NEW c \in connections, NEW r,
         conn' = [conn EXCEPT ![c] = r],
         r.state = "READING_REQUEST" => ~cwh_parse_req(r.recv_buf),
         batch' \subseteq batch, UNCHANGED <<running, listen_fd, connections, backlog, link>>,
         \A d \in Client : d # c => outq'[d] = outq[d]
  PROVE  Places' /\ ErrorsReal' /\ NothingParses'
<1>1. connections \subseteq Client /\ conn \in [Client -> Conn] /\ c \in Client
  BY DEF PlaceInv, IInv, TypeOK
<1>2. link[c] # "none" /\ ~InBacklog(c)
  BY DEF PlaceInv, IInv, QueueApart, InBacklog
<1>3. Places'
  BY <1>1, <1>2 DEF PlaceInv, Places, InBacklog
<1>4. ErrorsReal'
  BY DEF PlaceInv, ErrorsReal
<1>5. NothingParses'
  BY <1>1 DEF PlaceInv, NothingParses
<1> QED
  BY <1>3, <1>4, <1>5

LEMMA LosesPlace ==
  ASSUME PlaceInv, NEW C \in SUBSET Client, Lost(C),
         batch' \subseteq batch,
         \/ UNCHANGED <<running, listen_fd>>
         \/ running' = FALSE /\ listen_fd' = -1 /\ connections' = {} /\ backlog' = <<>>,
         \A c \in Client : InBacklog(c)' => InBacklog(c) /\ c \notin C,
         backlog = <<>> => backlog' = <<>>,
         \A d \in Client : d \notin connections => outq'[d] = outq[d]
  PROVE  Places' /\ ErrorsReal' /\ NothingParses'
<1>1. connections \subseteq Client /\ conn \in [Client -> Conn] /\ link \in [Client -> Links]
  BY DEF PlaceInv, IInv, TypeOK
<1>2. Places'
  <2>1. running' <=> listen_fd' # -1
    BY DEF PlaceInv, Places
  <2>2. ~running' => connections' = {} /\ backlog' = <<>>
    BY DEF PlaceInv, Places, Lost
  <2>3. \A c \in Client : c \in connections' \/ InBacklog(c)' => link'[c] # "closed"
    BY <1>1 DEF PlaceInv, Places, Lost
  <2>5. \A c \in Client : c \notin connections' => conn'[c] = NewConn(-1)
    BY <1>1 DEF PlaceInv, Places, Lost
  <2>4. ASSUME NEW c \in Client, outq'[c] # <<>> PROVE link'[c] # "none" /\ ~InBacklog(c)'
    <3>1. link[c] # "none" /\ ~InBacklog(c)
      <4>1. CASE c \in connections
        BY <4>1 DEF PlaceInv, IInv, QueueApart, InBacklog
      <4>2. CASE c \notin connections
        BY <2>4, <4>2 DEF PlaceInv, Places
      <4> QED
        BY <4>1, <4>2
    <3> QED
      BY <3>1 DEF Lost
  <2> QED
    BY <2>1, <2>2, <2>3, <2>4, <2>5 DEF Places
<1>3. ErrorsReal'
  BY DEF PlaceInv, ErrorsReal, Lost
<1>4. NothingParses'
  BY <1>1, BufferOfNew DEF PlaceInv, NothingParses, Lost
<1> QED
  BY <1>2, <1>3, <1>4

\* close_connection and cwh_async_server_stop lose connections this way.
LEMMA ClosingLoses ==
  ASSUME IInv, NEW C \in SUBSET Client, Drop(C), Hangup(C)
  PROVE  Lost(C)
BY DEF Drop, Hangup, Lost

LEMMA StoppingLoses ==
  ASSUME PlaceInv, server_stop
  PROVE  \E C \in SUBSET Client : Lost(C) /\ C = connections \cup {c \in Client : InBacklog(c)}
<1> DEFINE C == connections \cup {c \in Client : InBacklog(c)}
<1>1. connections \subseteq Client /\ conn \in [Client -> Conn] /\ backlog \in Seq(Client)
  BY DEF PlaceInv, IInv, TypeOK
<1>2. C = connections \cup {c \in Client : \E i \in 1 .. Len(backlog) : backlog[i] = c}
  BY <1>1 DEF InBacklog
<1>3. link' = [c \in Client |-> IF c \in C THEN "closed" ELSE link[c]]
      /\ inq' = [c \in Client |-> IF c \in C THEN <<>> ELSE inq[c]]
  BY <1>2 DEF server_stop, Hangup
<1>4. connections' = connections \ C
  BY DEF server_stop, Drop
<1>5. conn' = [c \in Client |-> IF c \in C THEN NewConn(-1) ELSE conn[c]]
  BY DEF server_stop, Drop, PlaceInv, Places
<1> QED
  BY <1>1, <1>3, <1>4, <1>5 DEF Lost

LEMMA InitPlaces == Init => Places /\ ErrorsReal /\ NothingParses
<1> SUFFICES ASSUME Init PROVE Places /\ ErrorsReal /\ NothingParses
  OBVIOUS
<1>1. Places
  BY DEF Init, Places, InBacklog
<1>2. NothingParses
  BY BufferOfNew DEF Init, NothingParses
<1> QED
  BY <1>1, <1>2 DEF Init, ErrorsReal

\* The client taken off the queue, and who is left in it.
LEMMA HeadOfQueue ==
  ASSUME IInv, backlog # <<>>, backlog' = Tail(backlog)
  PROVE  /\ Head(backlog) \in Client /\ InBacklog(Head(backlog))
         /\ Head(backlog) \notin connections
         /\ \A c \in Client : InBacklog(c)' <=> InBacklog(c) /\ c # Head(backlog)
<1>1. backlog \in Seq(Client)
  BY DEF IInv, TypeOK
<1>2. PICK h : h = Head(backlog) /\ h = backlog[1] /\ 1 \in DOMAIN backlog
  BY <1>1
<1>3. h \in Client /\ h \notin connections
  BY <1>1, <1>2 DEF IInv, QueueApart
<1>4. /\ \A i \in DOMAIN backlog' : i + 1 \in DOMAIN backlog /\ i + 1 # 1 /\ backlog'[i] = backlog[i + 1]
      /\ \A i \in DOMAIN backlog : i # 1 => i - 1 \in DOMAIN backlog' /\ backlog'[i - 1] = backlog[i]
  BY <1>1
<1>5. \A i \in DOMAIN backlog' : backlog'[i] # h
  BY <1>2, <1>4 DEF IInv, QueueApart
<1>6. ASSUME NEW c \in Client PROVE InBacklog(c)' <=> InBacklog(c) /\ c # h
  <2>1. InBacklog(c)' => InBacklog(c) /\ c # h
    BY <1>4, <1>5 DEF InBacklog
  <2>2. ASSUME NEW i \in DOMAIN backlog, backlog[i] = c, c # h PROVE InBacklog(c)'
    <3>1. i # 1
      BY <1>2, <2>2
    <3> QED
      BY <1>4, <2>2, <3>1 DEF InBacklog
  <2> QED
    BY <2>1, <2>2 DEF InBacklog
<1> QED
  BY <1>2, <1>3, <1>6 DEF InBacklog

LEMMA LoopPlaces ==
  ASSUME PlaceInv, Wait \/ Skip \/ ListenEvent \/ Accept \/ AcceptThenFail \/ AcceptError \/ AcceptDone
  PROVE  Places' /\ ErrorsReal' /\ NothingParses'
<1>0. /\ connections \subseteq Client /\ conn \in [Client -> Conn] /\ link \in [Client -> Links]
      /\ file \in [Fd -> Client \cup {Listener, NoFile}]
  BY DEF PlaceInv, IInv, TypeOK
<1>1. CASE Wait
  <2>1. UNCHANGED <<running, listen_fd, connections, conn, backlog, link, outq>>
    BY <1>1 DEF Wait, serverVars, netVars
  <2>2. ErrorsReal'
    <3>1. ASSUME NEW e \in batch', ERROR \in e.events PROVE e.sock \in Client /\ link[e.sock] = "reset"
      <4>1. PICK fd \in Fd : e = Report(fd, Due(Level, fd))
        BY <1>1 DEF Wait, epoll_wait, Ready
      <4>2. ERROR \in Level[fd] /\ e.sock = file[fd]
        BY <3>1, <4>1 DEF Report, Due
      <4>3. file[fd] # NoFile /\ Hung(file[fd])
        BY <4>2 DEF Level, READ, WRITE, ERROR
      <4> QED
        BY <1>0, <4>2, <4>3 DEF Hung
    <3> QED
      BY <2>1, <3>1 DEF ErrorsReal
  <2> QED
    BY <2>1, <2>2 DEF PlaceInv, Places, NothingParses, InBacklog
<1>2. CASE Skip
  BY <1>2 DEF Skip, DispatchNone, Consume, serverVars, netVars,
              PlaceInv, Places, ErrorsReal, NothingParses, InBacklog
<1>3. CASE ListenEvent
  <2>1. PICK C : C = {c \in connections : Expired(c)}
    OBVIOUS
  <2>2. /\ C \in SUBSET Client /\ C \subseteq connections /\ Drop(C) /\ Hangup(C) /\ batch' \subseteq batch
        /\ UNCHANGED <<running, listen_fd, backlog, outq>>
    BY <1>0, <1>3, <2>1 DEF ListenEvent, Consume
  <2>3. \A c \in Client : InBacklog(c)' => InBacklog(c) /\ c \notin C
    BY <2>2 DEF PlaceInv, IInv, QueueApart, InBacklog
  <2>4. Lost(C)
    BY <2>2, ClosingLoses DEF PlaceInv
  <2> QED
    BY <2>2, <2>3, <2>4, LosesPlace
<1>4. CASE Accept
  <2>1. PICK c : c = Head(backlog)
    OBVIOUS
  <2>2. PICK fd \in Fd : conn' = [conn EXCEPT ![c] = NewConn(fd)]
    BY <1>4, <2>1 DEF Accept
  <2>3. /\ c \in Client /\ InBacklog(c) /\ c \notin connections
        /\ \A d \in Client : InBacklog(d)' => InBacklog(d) /\ d # c
    BY <1>4, <2>1, HeadOfQueue DEF Accept, PlaceInv
  <2>4. /\ connections' = connections \cup {c} /\ backlog # <<>>
        /\ UNCHANGED <<batch, running, listen_fd, link, outq>>
    BY <1>4, <2>1 DEF Accept
  <2>5. ~running' => connections' = {} /\ backlog' = <<>>
    BY <2>4 DEF PlaceInv, Places
  <2>6. Places'
    BY <1>0, <2>2, <2>3, <2>4, <2>5 DEF PlaceInv, Places
  <2>7. ErrorsReal' /\ NothingParses'
    BY <1>0, <2>2, <2>3, <2>4, BufferOfNew DEF PlaceInv, ErrorsReal, NothingParses
  <2> QED
    BY <2>6, <2>7
<1>5. CASE AcceptThenFail
  <2>1. PICK c : c = Head(backlog)
    OBVIOUS
  <2>2. /\ c \in Client /\ InBacklog(c) /\ c \notin connections
        /\ \A d \in Client : InBacklog(d)' => InBacklog(d) /\ d # c
    BY <1>5, <2>1, HeadOfQueue DEF AcceptThenFail, PlaceInv
  <2>3. /\ Hangup({c}) /\ backlog # <<>>
        /\ UNCHANGED <<batch, running, listen_fd, connections, conn, outq>>
    BY <1>5, <2>1 DEF AcceptThenFail, loopVars, serverVars
  <2>4. Lost({c})
    BY <1>0, <2>2, <2>3 DEF Hangup, Lost, PlaceInv, Places
  <2> QED
    BY <2>2, <2>3, <2>4, LosesPlace
<1>6. CASE AcceptError \/ AcceptDone
  BY <1>6 DEF AcceptError, AcceptDone, vars, loopVars, serverVars, netVars,
              PlaceInv, Places, ErrorsReal, NothingParses, InBacklog
<1> QED
  BY <1>1, <1>2, <1>3, <1>4, <1>5, <1>6

LEMMA StopPlaces ==
  ASSUME PlaceInv, server_stop, batch' \subseteq batch
  PROVE  Places' /\ ErrorsReal' /\ NothingParses'
<1>1. PICK C \in SUBSET Client : Lost(C)
  BY StoppingLoses
<1>2. /\ running' = FALSE /\ listen_fd' = -1 /\ connections' = {} /\ backlog' = <<>>
      /\ UNCHANGED outq
  BY DEF server_stop, Drop
<1>3. \A c \in Client : ~InBacklog(c)'
  BY <1>2 DEF InBacklog
<1> QED
  BY <1>1, <1>2, <1>3, LosesPlace

LEMMA CallbackPlaces ==
  ASSUME PlaceInv, NEW c \in Client, Callback(c)
  PROVE  Places' /\ ErrorsReal' /\ NothingParses'
<1>1. PICK e \in batch :
        /\ Delivers(e, c) /\ Consume(e)
        /\ \/ OnError(c, e) \/ OnReadFailure(c, e) \/ OnReadMore(c, e)
           \/ OnRequest(c, e) \/ OnWriteFailure(c, e) \/ OnWriteMore(c, e)
           \/ OnWriteKeepAlive(c, e) \/ OnWriteClose(c, e) \/ OnIgnored(c, e)
  BY CallbackOf DEF PlaceInv
<1>2. c \in connections /\ batch' \subseteq batch
  BY <1>1, CallbackOf DEF PlaceInv, Consume
<1>3. conn \in [Client -> Conn] /\ conn[c] \in Conn /\ outq \in [Client -> Seq(Unit)]
  BY DEF PlaceInv, IInv, TypeOK
<1>4. ASSUME Drop({c}), Hangup({c}), UNCHANGED <<running, listen_fd, backlog>>,
             \A d \in Client : d # c => outq'[d] = outq[d]
      PROVE  Places' /\ ErrorsReal' /\ NothingParses'
  <2>1. {c} \in SUBSET Client /\ Lost({c})
    BY <1>4, ClosingLoses DEF PlaceInv
  <2>2. \A d \in Client : InBacklog(d)' => InBacklog(d) /\ d \notin {c}
    BY <1>2, <1>4 DEF PlaceInv, IInv, QueueApart, InBacklog
  <2>3. \A d \in Client : d \notin connections => outq'[d] = outq[d]
    BY <1>2, <1>4
  <2> QED
    BY <1>2, <1>4, <2>1, <2>2, <2>3, LosesPlace
<1>5. CASE OnError(c, e) \/ OnReadFailure(c, e) \/ OnWriteFailure(c, e)
  BY <1>4, <1>5 DEF OnError, OnReadFailure, OnWriteFailure, close_connection
<1>6. CASE OnReadMore(c, e)
  <2>1. PICK r : r = [conn[c] EXCEPT !.recv_buf = @ \o Received(c)]
    OBVIOUS
  <2>2. /\ conn' = [conn EXCEPT ![c] = r] /\ UNCHANGED <<running, listen_fd, connections, backlog, link, outq>>
        /\ conn[c].state = "READING_REQUEST"
        /\ ~(Received(c) # <<>> /\ cwh_parse_req(conn[c].recv_buf \o Received(c)))
    BY <1>3, <1>6, <2>1 DEF OnReadMore, ReadEvent, Stay
  <2>3. r.recv_buf = conn[c].recv_buf \o Received(c)
    BY <1>3, <2>1 DEF Conn
  <2>4. ~cwh_parse_req(r.recv_buf)
    <3>1. CASE Received(c) # <<>>
      BY <2>2, <2>3, <3>1
    <3>2. CASE Received(c) = <<>>
      <4>1. r.recv_buf = conn[c].recv_buf
        <5>1. conn[c].recv_buf \in Seq(Piece)
          BY <1>3 DEF Conn
        <5> QED
          BY <2>3, <3>2, <5>1
      <4> QED
        BY <2>2, <4>1 DEF PlaceInv, NothingParses
    <3> QED
      BY <3>1, <3>2
  <2> QED
    BY <1>2, <2>2, <2>4, StaysInPlace
<1>7. CASE OnRequest(c, e)
  <2>1. CASE server_stop
    BY <1>2, <2>1, StopPlaces
  <2>2. CASE ~server_stop
    <3>1. PICK buf, ka, read :
            /\ buf = conn[c].recv_buf \o Received(c)
            /\ ka = (conn[c].keep_alive \/ AsksKeepAlive(buf))
            /\ read = [conn[c] EXCEPT !.recv_buf = buf, !.keep_alive = ka]
      OBVIOUS
    <3>2. PICK r : /\ conn' = [conn EXCEPT ![c] = r]
                   /\ \/ r = [read EXCEPT !.state = "WRITING_RESPONSE",
                                          !.send_buf = Response(buf[1].req)]
                      \/ r = [read EXCEPT !.state = "PROCESSING"]
      BY <1>7, <2>2, <3>1 DEF OnRequest
    <3>3. r.state # "READING_REQUEST"
      BY <1>3, <3>1, <3>2 DEF Conn
    <3>4. UNCHANGED <<running, listen_fd, connections, backlog, link, outq>>
      BY <1>7, <2>2 DEF OnRequest, Stay
    <3> QED
      BY <1>2, <3>2, <3>3, <3>4, StaysInPlace
  <2> QED
    BY <2>1, <2>2
<1>8. ASSUME Written(c) PROVE \A d \in Client : d # c => outq'[d] = outq[d]
  BY <1>3, <1>8 DEF Written
<1>9. CASE OnWriteMore(c, e)
  <2>1. PICK r : r = [conn[c] EXCEPT !.send_buf = SubSeq(@, Fits(c) + 1, Len(@))]
    OBVIOUS
  <2>2. r.state = "WRITING_RESPONSE"
    BY <1>3, <1>9, <2>1 DEF OnWriteMore, WriteEvent, Conn
  <2>3. conn' = [conn EXCEPT ![c] = r] /\ UNCHANGED <<running, listen_fd, connections, backlog, link>>
    BY <1>3, <1>9, <2>1 DEF OnWriteMore, Stay
  <2> QED
    BY <1>2, <1>8, <1>9, <2>2, <2>3, StaysInPlace DEF OnWriteMore
<1>10. CASE OnWriteKeepAlive(c, e)
  <2>1. PICK r : r = ResetForNext(conn[c])
    OBVIOUS
  <2>2. r.recv_buf = <<>>
    BY <1>3, <2>1 DEF ResetForNext, Conn
  <2>3. conn' = [conn EXCEPT ![c] = r] /\ UNCHANGED <<running, listen_fd, connections, backlog, link>>
    BY <1>3, <1>10, <2>1 DEF OnWriteKeepAlive
  <2>4. ~cwh_parse_req(r.recv_buf)
    BY <2>2 DEF cwh_parse_req
  <2> QED
    BY <1>2, <1>8, <1>10, <2>3, <2>4, StaysInPlace DEF OnWriteKeepAlive
<1>11. CASE OnWriteClose(c, e)
  BY <1>4, <1>8, <1>11 DEF OnWriteClose
<1>12. CASE OnIgnored(c, e)
  BY <1>2, <1>12 DEF OnIgnored, Stay, netVars, PlaceInv, Places, ErrorsReal, NothingParses, InBacklog
<1> QED
  BY <1>1, <1>5, <1>6, <1>7, <1>9, <1>10, <1>11, <1>12

LEMMA EnvironmentPlaces ==
  ASSUME PlaceInv, Environment
  PROVE  Places' /\ ErrorsReal' /\ NothingParses'
<1>0. /\ connections \subseteq Client /\ conn \in [Client -> Conn] /\ link \in [Client -> Links]
      /\ backlog \in Seq(Client) /\ outq \in [Client -> Seq(Unit)]
  BY DEF PlaceInv, IInv, TypeOK
<1>1. UNCHANGED <<batch, running, listen_fd, connections, conn>>
  BY DEF Environment, Tick, Connect, Send, Receive, ClientClose, ClientReset, loopVars, serverVars
<1>2. NothingParses'
  BY <1>1 DEF PlaceInv, NothingParses
<1>3. ErrorsReal'
  <2>1. \A c \in Client : link[c] \in {"reset", "closed"} => link'[c] = link[c]
    BY <1>0 DEF Environment, Tick, Connect, Send, Receive, ClientClose, ClientReset, netVars
  <2> QED
    BY <1>1, <2>1 DEF PlaceInv, ErrorsReal
<1>4. ASSUME NEW c \in Client, Connect(c) PROVE Places'
  <2>1. /\ link[c] = "none" /\ listen_fd # -1 /\ link' = [link EXCEPT ![c] = "up"]
        /\ backlog' = Append(backlog, c) /\ UNCHANGED outq
    BY <1>4 DEF Connect
  <2>2. \A d \in Client : InBacklog(d)' => InBacklog(d) \/ d = c
    <3>1. \A i \in DOMAIN backlog' : backlog'[i] = c \/ (i \in DOMAIN backlog /\ backlog'[i] = backlog[i])
      BY <1>0, <2>1
    <3> QED
      BY <3>1 DEF InBacklog
  <2> QED
    BY <1>0, <1>1, <2>1, <2>2 DEF PlaceInv, Places
<1>5. ASSUME ~\E c \in Client : Connect(c) PROVE Places'
  <2>1. UNCHANGED backlog
    BY <1>5 DEF Environment, Tick, Send, Receive, ClientClose, ClientReset, netVars
  <2>2. \A c \in Client : /\ link[c] # "none" => link'[c] # "none"
                          /\ link[c] # "closed" => link'[c] # "closed"
    BY <1>0, <1>5 DEF Environment, Tick, Send, Receive, ClientClose, ClientReset, netVars
  <2>3. \A c \in Client : outq'[c] # <<>> => outq[c] # <<>>
    BY <1>0, <1>5 DEF Environment, Tick, Send, Receive, ClientClose, ClientReset, netVars
  <2> QED
    BY <1>1, <2>1, <2>2, <2>3 DEF PlaceInv, Places, InBacklog
<1> QED
  BY <1>2, <1>3, <1>4, <1>5

LEMMA NextPlaces == PlaceInv /\ [Next]_vars => PlaceInv'
<1> SUFFICES ASSUME PlaceInv, [Next]_vars PROVE Places' /\ ErrorsReal' /\ NothingParses'
  BY NextInv DEF PlaceInv
<1>1. CASE LoopStep
  BY <1>1, LoopPlaces, CallbackPlaces DEF LoopStep
<1>2. CASE Stop
  BY <1>2, StopPlaces DEF Stop
<1>3. CASE Environment
  BY <1>3, EnvironmentPlaces
<1>4. CASE UNCHANGED vars
  BY <1>4 DEF vars, loopVars, serverVars, netVars, PlaceInv, Places, ErrorsReal, NothingParses, InBacklog
<1> QED
  BY <1>1, <1>2, <1>3, <1>4 DEF Next

LEMMA PlaceInvariance == Spec => []PlaceInv
<1>1. Init => PlaceInv
  BY InitInv, InitPlaces DEF PlaceInv
<1> QED
  BY <1>1, NextPlaces, PTL DEF Spec

-----------------------------------------------------------------------------
(* Wrongful closes.                                                        *)

\* NoWrongfulClose: in listen_event_handler, connection_event_handler and
\* cwh_async_server_stop no connection goes from the list without a cause of
\* its own, other than an error its descriptor had before it was its own.
THEOREM ClosedForCause == Spec => NoWrongfulClose
<1> DEFINE Caused == \A c \in connections : c \notin connections' => MayEnd(c) \/ (running /\ ~running')
<1>1. PlaceInv /\ [Next]_vars => [Caused]_vars
  <2> SUFFICES ASSUME PlaceInv, Next, NEW c \in connections, c \notin connections', ~(running /\ ~running')
               PROVE  MayEnd(c)
    OBVIOUS
  <2>1. c \in Client /\ running
    BY DEF PlaceInv, IInv, TypeOK, Places
  <2>2. ~server_stop
    BY <2>1 DEF server_stop
  <2>3. CASE ListenEvent
    BY <2>3 DEF ListenEvent, Drop, MayEnd
  <2>4. ASSUME NEW d \in Client, Callback(d) PROVE MayEnd(c)
    <3>1. PICK e \in batch :
            /\ Delivers(e, d)
            /\ \/ OnError(d, e) \/ OnReadFailure(d, e) \/ OnReadMore(d, e)
               \/ OnRequest(d, e) \/ OnWriteFailure(d, e) \/ OnWriteMore(d, e)
               \/ OnWriteKeepAlive(d, e) \/ OnWriteClose(d, e) \/ OnIgnored(d, e)
      BY <2>4, CallbackOf DEF PlaceInv
    <3>2. \/ OnError(d, e) \/ OnReadFailure(d, e) \/ OnWriteFailure(d, e) \/ OnWriteClose(d, e)
      BY <2>2, <3>1 DEF OnReadMore, OnRequest, OnWriteMore, OnWriteKeepAlive, OnIgnored, Stay
    <3>3. d = c
      BY <3>2 DEF OnError, OnReadFailure, OnWriteFailure, OnWriteClose, close_connection, Drop
    <3>4. CASE OnError(c, e)
      <4>1. CASE e.sock = c
        BY <2>1, <3>4, <4>1 DEF OnError, PlaceInv, Places, ErrorsReal, MayEnd
      <4>2. CASE e.sock # c
        BY <3>1, <3>3, <3>4, <4>2 DEF OnError, MayEnd, Overdue
      <4> QED
        BY <4>1, <4>2
    <3>5. CASE OnReadFailure(c, e)
      BY <2>1, <3>5 DEF OnReadFailure, ReadEvent, ReadFails, EndOfFile, PlaceInv, NothingParses, MayEnd
    <3>6. CASE OnWriteFailure(c, e)
      BY <3>6 DEF OnWriteFailure, MayEnd
    <3>7. CASE OnWriteClose(c, e)
      BY <3>7 DEF OnWriteClose, WriteEvent, MayEnd
    <3> QED
      BY <3>2, <3>3, <3>4, <3>5, <3>6, <3>7
  <2>5. CASE Wait \/ Skip \/ Accept \/ AcceptThenFail \/ AcceptError \/ AcceptDone
    BY <2>5 DEF Wait, Skip, Accept, AcceptThenFail, AcceptError, AcceptDone, vars, serverVars
  <2>6. CASE Environment
    BY <2>6 DEF Environment, Tick, Connect, Send, Receive, ClientClose, ClientReset, serverVars
  <2> QED
    BY <2>2, <2>3, <2>4, <2>5, <2>6 DEF Next, LoopStep, Stop
<1>2. NoWrongfulClose <=> [][Caused]_vars
  BY DEF NoWrongfulClose
<1> HIDE DEF Caused
<1> QED
  BY <1>1, <1>2, PlaceInvariance, PTL DEF Spec

-----------------------------------------------------------------------------
(* Sequences that buffers share.                                           *)

\* The units of a client: read by it, under way, and still to be sent.
Behind(b, m) == b \o m
Joined(g, o, b) == g \o o \o b

LEMMA JoinedTyped ==
  ASSUME NEW S, NEW g \in Seq(S), NEW o \in Seq(S), NEW b \in Seq(S)
  PROVE  Joined(g, o, b) \in Seq(S)
BY DEF Joined

LEMMA JoinedEmpty ==
  ASSUME NEW S, NEW g \in Seq(S)
  PROVE  Joined(g, <<>>, <<>>) = g
BY DEF Joined

LEMMA JoinedEnd ==
  ASSUME NEW S, NEW g \in Seq(S), NEW o \in Seq(S), NEW b \in Seq(S)
  PROVE  Behind(Joined(g, o, <<>>), b) = Joined(g, o, b)
BY DEF Joined, Behind

\* What is read goes from the second sequence to the first.
LEMMA JoinedRead ==
  ASSUME NEW S, NEW g \in Seq(S), NEW o \in Seq(S), NEW b \in Seq(S), o # <<>>
  PROVE  Joined(Append(g, Head(o)), Tail(o), b) = Joined(g, o, b)
<1>1. Append(g, Head(o)) \o Tail(o) = g \o o
  OBVIOUS
<1> QED
  BY <1>1 DEF Joined

LEMMA SplitSeq ==
  ASSUME NEW S, NEW u \in Seq(S), NEW n \in 0 .. Len(u)
  PROVE  SubSeq(u, 1, n) \o SubSeq(u, n + 1, Len(u)) = u
<1>1. Len(u) \in Nat
  BY LenProperties
<1>2. 1 \in 1 .. Len(u) + 1 /\ n \in 0 .. Len(u) /\ Len(u) \in n .. Len(u)
  BY <1>1
<1>3. SubSeq(u, 1, n) \o SubSeq(u, n + 1, Len(u)) = SubSeq(u, 1, Len(u))
  <2>1. n \in (1 - 1) .. Len(u)
    BY <1>1
  <2> QED
    BY <1>2, <2>1, ConcatAdjacentSubSeq
<1> QED
  BY <1>3, SubSeqFull

\* What is written goes from the third sequence to the second.
LEMMA JoinedWritten ==
  ASSUME NEW S, NEW g \in Seq(S), NEW o \in Seq(S), NEW b \in Seq(S), NEW n \in 0 .. Len(b)
  PROVE  Joined(g, o \o SubSeq(b, 1, n), SubSeq(b, n + 1, Len(b))) = Joined(g, o, b)
<1>1. PICK h \in Seq(S), t \in Seq(S) :
        h = SubSeq(b, 1, n) /\ t = SubSeq(b, n + 1, Len(b)) /\ h \o t = b
  <2>1. SubSeq(b, 1, n) \in Seq(S) /\ SubSeq(b, n + 1, Len(b)) \in Seq(S)
    BY SubSeqTyped
  <2>2. SubSeq(b, 1, n) \o SubSeq(b, n + 1, Len(b)) = b
    BY SplitSeq
  <2> QED
    BY <2>1, <2>2
<1>2. (g \o (o \o h)) \o t = (g \o o) \o (h \o t)
  BY SMTT(30)
<1> QED
  BY <1>1, <1>2 DEF Joined

-----------------------------------------------------------------------------
(* Answers one after another.                                              *)

\* Service!InOrder, of the answers as the server copies them.
Blocks(u) ==
  \A i \in DOMAIN u :
    \/ /\ u[i].nth = 1
       /\ i > 1 => u[i - 1].req < u[i].req /\ u[i - 1].nth = Copied(u[i - 1].req)
    \/ /\ i > 1
       /\ u[i].req = u[i - 1].req /\ u[i].nth = u[i - 1].nth + 1

LEMMA BlocksOrdered ==
  ASSUME NEW u
  PROVE  Service!InOrder(u) <=> Blocks(u)
BY DEF Service!InOrder, Service!Given, Blocks, Copied

\* All of the last answer is there.
Complete(u) == u # <<>> => u[Len(u)].nth = Copied(u[Len(u)].req)

LEMMA BlocksPrefix ==
  ASSUME NEW S, NEW u \in Seq(S), NEW v \in Seq(S), Blocks(v), Len(u) <= Len(v),
         \A i \in 1 .. Len(u) : u[i] = v[i]
  PROVE  Blocks(u)
<1>1. /\ DOMAIN u = 1 .. Len(u) /\ DOMAIN v = 1 .. Len(v)
      /\ Len(u) \in Nat /\ Len(v) \in Nat
  OBVIOUS
<1>2. \A i \in DOMAIN u : i \in DOMAIN v /\ u[i] = v[i] /\ (i > 1 => u[i - 1] = v[i - 1])
  BY <1>1
<1> QED
  BY <1>2 DEF Blocks

\* What is left when the third sequence is gone, or the other two.
LEMMA BlocksCut ==
  ASSUME NEW S, NEW g \in Seq(S), NEW o \in Seq(S), NEW b \in Seq(S), Blocks(Joined(g, o, b))
  PROVE  Blocks(Joined(g, o, <<>>)) /\ Blocks(g)
<1>1. PICK u, v : u = Joined(g, o, <<>>) /\ v = Joined(g, o, b)
  OBVIOUS
<1>2. /\ u \in Seq(S) /\ v \in Seq(S) /\ Len(u) <= Len(v) /\ Len(g) <= Len(v)
      /\ \A i \in 1 .. Len(u) : u[i] = v[i]
      /\ \A i \in 1 .. Len(g) : g[i] = v[i]
  BY <1>1 DEF Joined
<1>3. Blocks(v)
  BY <1>1
<1>4. Blocks(u) /\ Blocks(g)
  BY <1>2, <1>3, BlocksPrefix
<1> QED
  BY <1>1, <1>4

\* An answer to a later request put behind complete ones.
LEMMA BlocksThen ==
  ASSUME NEW u \in Seq(Unit), Complete(u), Blocks(u), NEW r \in 1 .. MaxRequest,
         \A i \in DOMAIN u : u[i].req < r
  PROVE  Blocks(u \o Response(r)) /\ Complete(u \o Response(r))
<1>1. /\ Copied(r) \in Nat \ {0} /\ Response(r) \in Seq(Unit) /\ Len(Response(r)) = Copied(r)
      /\ \A i \in 1 .. Copied(r) : Response(r)[i] = [req |-> r, nth |-> i]
  BY ResponseTyped, ServerAssumption
<1>2. PICK w, n, k : w = u \o Response(r) /\ n = Len(u) /\ k = Copied(r)
  OBVIOUS
<1>3. /\ w \in Seq(Unit) /\ n \in Nat /\ k \in Nat \ {0} /\ Len(w) = n + k
      /\ DOMAIN w = 1 .. n + k /\ DOMAIN u = 1 .. n
  <2>1. n \in Nat /\ DOMAIN u = 1 .. n /\ k \in Nat \ {0}
    BY <1>1, <1>2, LenProperties
  <2>2. w \in Seq(Unit) /\ Len(w) = n + k
    BY <1>1, <1>2, ConcatProperties
  <2>3. DOMAIN w = 1 .. n + k
    BY <2>2, LenProperties
  <2> QED
    BY <2>1, <2>2, <2>3
<1>4. /\ \A i \in 1 .. n : w[i] = u[i]
      /\ \A i \in 1 .. k : w[n + i] = [req |-> r, nth |-> i]
  <2>1. \A i \in 1 .. n : w[i] = u[i]
    BY <1>1, <1>2
  <2>2. \A i \in 1 .. k : w[n + i] = Response(r)[i]
    BY <1>1, <1>2
  <2> QED
    BY <1>1, <1>2, <2>1, <2>2
<1>5. ASSUME NEW i \in DOMAIN w
      PROVE  \/ /\ w[i].nth = 1
                /\ i > 1 => w[i - 1].req < w[i].req /\ w[i - 1].nth = Copied(w[i - 1].req)
             \/ /\ i > 1
                /\ w[i].req = w[i - 1].req /\ w[i].nth = w[i - 1].nth + 1
  <2>1. CASE i <= n
    <3>1. i \in DOMAIN u /\ w[i] = u[i] /\ (i > 1 => w[i - 1] = u[i - 1])
      BY <1>3, <1>4, <2>1
    <3> QED
      BY <3>1 DEF Blocks
  <2>2. CASE i = n + 1
    <3>1. w[i].nth = 1 /\ w[i].req = r
      <4>1. 1 \in 1 .. k
        BY <1>3
      <4>2. w[n + 1] = [req |-> r, nth |-> 1]
        BY <1>4, <4>1
      <4> QED
        BY <2>2, <4>2
    <3>2. ASSUME i > 1 PROVE w[i - 1].req < r /\ w[i - 1].nth = Copied(w[i - 1].req)
      <4>1. i - 1 = n /\ n \in 1 .. n /\ n \in DOMAIN u
        BY <1>3, <2>2, <3>2
      <4>2. w[i - 1] = u[n] /\ u # <<>>
        BY <1>2, <1>3, <1>4, <4>1
      <4>3. u[n].nth = Copied(u[n].req)
        BY <1>2, <4>2 DEF Complete
      <4> QED
        BY <4>1, <4>2, <4>3
    <3> QED
      BY <3>1, <3>2
  <2>3. CASE i > n + 1
    <3>0. i \in Nat /\ i <= n + k /\ n \in Nat /\ k \in Nat
      BY <1>3
    <3>1. PICK j \in Nat : j = (i - n) - 1
      BY <2>3, <3>0
    <3>2. j + 1 \in 1 .. k /\ j \in 1 .. k /\ i = n + (j + 1) /\ i - 1 = n + j /\ i > 1
      BY <2>3, <3>0, <3>1
    <3>3. w[i] = [req |-> r, nth |-> j + 1] /\ w[i - 1] = [req |-> r, nth |-> j]
      BY <1>4, <3>2
    <3> QED
      BY <3>2, <3>3
  <2> QED
    BY <1>3, <2>1, <2>2, <2>3
<1>6. Blocks(w)
  BY <1>5 DEF Blocks
<1>7. Complete(w)
  <2>1. w[n + k] = [req |-> r, nth |-> k]
    BY <1>3, <1>4
  <2> QED
    BY <1>2, <1>3, <2>1 DEF Complete
<1> QED
  BY <1>2, <1>6, <1>7

-----------------------------------------------------------------------------
(* What is in the buffers: pieces of requests as they were sent, from      *)
(* where the server has got to, and answers to earlier requests.           *)

\* x is the k-th piece a client has sent.
IsPiece(x, k) == x.req = ((k - 1) \div 3) + 1 /\ x.part \in Parts[((k - 1) % 3) + 1]

\* The pieces a client sent next after its first k.
Follow(pieces, k) == \A i \in DOMAIN pieces : IsPiece(pieces[i], k + i)

\* Pieces the server has taken from the kernel, and those of them that are not
\* in recv_buf any more.
Taken(c) == sent[c] - Len(inq[c])
Base(c)  == Taken(c) - Len(conn[c].recv_buf)

PiecesOf(c) ==
  /\ Taken(c) \in Nat
  /\ Follow(inq[c], Taken(c))
  /\ link[c] # "reset" => Base(c) \in Nat /\ Follow(conn[c].recv_buf, Base(c))

\* What is left of a request when its answer is written is dropped with it.
Done(c) == IF conn[c].state = "WRITING_RESPONSE" THEN Taken(c) ELSE Base(c)

Standing(c) == link[c] \in {"none", "up", "fin"}

\* The requests answered are behind the server: of each, at least the line has
\* been taken and, unless its answer is being written, dropped.
AnswersOf(c) ==
  /\ Blocks(Stream(c))
  /\ Standing(c) => /\ Complete(Stream(c))
                    /\ \A i \in DOMAIN Stream(c) : 3 * Stream(c)[i].req - 1 <= Done(c)
  /\ conn[c].state # "WRITING_RESPONSE" => conn[c].send_buf = <<>>
  /\ link[c] = "reset" => outq[c] = <<>>

FlowInv == \A c \in Client : PiecesOf(c) /\ AnswersOf(c)

LEMMA StreamJoined ==
  ASSUME NEW c
  PROVE  Stream(c) = IF link[c] = "reset" THEN got[c] ELSE Joined(got[c], outq[c], conn[c].send_buf)
BY DEF Stream, Joined

LEMMA FlowTypes ==
  ASSUME IInv, NEW c \in Client
  PROVE  /\ conn[c] \in Conn /\ conn[c].recv_buf \in Seq(Piece) /\ conn[c].send_buf \in Seq(Unit)
         /\ inq[c] \in Seq(Piece) /\ outq[c] \in Seq(Unit) /\ got[c] \in Seq(Unit)
         /\ sent[c] \in Nat /\ Len(inq[c]) \in Nat /\ Len(conn[c].recv_buf) \in Nat
         /\ Stream(c) \in Seq(Unit)
<1>1. /\ conn[c] \in Conn /\ conn[c].recv_buf \in Seq(Piece) /\ conn[c].send_buf \in Seq(Unit)
      /\ inq[c] \in Seq(Piece) /\ outq[c] \in Seq(Unit) /\ got[c] \in Seq(Unit)
  BY DEF IInv, TypeOK, Conn
<1>2. sent[c] \in Nat
  BY ServerAssumption DEF IInv, TypeOK
<1>3. Len(inq[c]) \in Nat /\ Len(conn[c].recv_buf) \in Nat
  BY <1>1
<1>4. Stream(c) \in Seq(Unit)
  BY <1>1 DEF Stream
<1> QED
  BY <1>1, <1>2, <1>3, <1>4

\* A client none of whose buffers changes.
LEMMA FlowSame ==
  ASSUME NEW c, PiecesOf(c), AnswersOf(c),
         UNCHANGED <<inq[c], outq[c], sent[c], got[c]>>,
         UNCHANGED <<conn[c].recv_buf, conn[c].send_buf, conn[c].state>>,
         link'[c] = link[c] \/ (Standing(c) /\ Standing(c)')
  PROVE  PiecesOf(c)' /\ AnswersOf(c)'
<1>1. (link'[c] = "reset" <=> link[c] = "reset") /\ (Standing(c)' => Standing(c))
  BY DEF Standing
<1>2. Taken(c)' = Taken(c) /\ Base(c)' = Base(c) /\ Done(c)' = Done(c)
  BY DEF Taken, Base, Done
<1>3. Stream(c)' = Stream(c)
  BY <1>1 DEF Stream
<1>4. PiecesOf(c)'
  BY <1>1, <1>2 DEF PiecesOf
<1>5. AnswersOf(c)'
  BY <1>1, <1>2, <1>3 DEF AnswersOf, Blocks, Complete, Copied
<1> QED
  BY <1>4, <1>5

\* A client whose connection is closed, or never made, by the server.
LEMMA FlowLost ==
  ASSUME IInv, NEW c \in Client, PiecesOf(c), AnswersOf(c),
         link'[c] = "closed", inq'[c] = <<>>, conn'[c] = NewConn(-1),
         UNCHANGED <<sent[c], got[c]>>,
         \/ outq'[c] = outq[c]
         \/ /\ link[c] # "reset"
            /\ outq'[c] = outq[c] \o SubSeq(conn[c].send_buf, 1, Fits(c))
  PROVE  PiecesOf(c)' /\ AnswersOf(c)'
<1>1. /\ conn[c].send_buf \in Seq(Unit) /\ outq[c] \in Seq(Unit) /\ got[c] \in Seq(Unit)
      /\ sent[c] \in Nat /\ Stream(c) \in Seq(Unit)
  BY FlowTypes
<1>2. /\ conn'[c].recv_buf = <<>> /\ conn'[c].send_buf = <<>>
      /\ conn'[c].state = "READING_REQUEST"
  BY BufferOfNew
<1>3. PiecesOf(c)'
  BY <1>1, <1>2 DEF PiecesOf, Taken, Base, Follow
<1>4. Stream(c)' = Joined(got[c], outq'[c], <<>>)
  BY <1>2 DEF Stream, Joined
<1>5. Blocks(Stream(c)) /\ (link[c] = "reset" => outq[c] = <<>>)
  BY DEF AnswersOf
<1>6. ASSUME link[c] = "reset", outq'[c] = outq[c] PROVE Blocks(Stream(c)')
  <2>1. outq'[c] = <<>> /\ Stream(c)' = Joined(got[c], <<>>, <<>>)
    BY <1>4, <1>5, <1>6
  <2>2. Joined(got[c], <<>>, <<>>) = got[c]
    BY <1>1, JoinedEmpty
  <2>3. Blocks(got[c])
    BY <1>5, <1>6, StreamJoined
  <2> QED
    BY <2>1, <2>2, <2>3
<1>7. ASSUME link[c] # "reset", outq'[c] = outq[c] PROVE Blocks(Stream(c)')
  BY <1>1, <1>4, <1>5, <1>7, StreamJoined, BlocksCut
<1>8. ASSUME link[c] # "reset", outq'[c] = outq[c] \o SubSeq(conn[c].send_buf, 1, Fits(c))
      PROVE  Blocks(Stream(c)')
  <2>1. PICK n \in 0 .. Len(conn[c].send_buf) : n = Fits(c)
    BY WrittenFits
  <2>2. PICK o, t : /\ o = outq[c] \o SubSeq(conn[c].send_buf, 1, n)
                    /\ t = SubSeq(conn[c].send_buf, n + 1, Len(conn[c].send_buf))
    OBVIOUS
  <2>3. o \in Seq(Unit) /\ t \in Seq(Unit)
    BY <2>1, <2>2, WrittenFits
  <2>4. Joined(got[c], o, t) = Joined(got[c], outq[c], conn[c].send_buf)
    BY <1>1, <2>1, <2>2, JoinedWritten, SMTT(30)
  <2>5. Blocks(Joined(got[c], o, t))
    BY <1>5, <1>8, <2>4, StreamJoined
  <2>6. Blocks(Joined(got[c], o, <<>>))
    BY <1>1, <2>3, <2>5, BlocksCut
  <2> QED
    BY <1>4, <1>8, <2>1, <2>2, <2>6
<1>9. AnswersOf(c)'
  <2>1. ~Standing(c)'
    BY DEF Standing
  <2>2. Blocks(Stream(c))'
    BY <1>6, <1>7, <1>8 DEF Blocks, Copied
  <2> QED
    BY <1>2, <2>1, <2>2 DEF AnswersOf
<1> QED
  BY <1>3, <1>9

\* A client whose connection is reset.
LEMMA FlowReset ==
  ASSUME IInv, NEW c \in Client, PiecesOf(c), AnswersOf(c),
         link[c] \in {"up", "fin"}, link'[c] = "reset", inq'[c] = <<>>, outq'[c] = <<>>,
         UNCHANGED <<sent[c], got[c], conn[c]>>
  PROVE  PiecesOf(c)' /\ AnswersOf(c)'
<1>1. /\ conn[c].send_buf \in Seq(Unit) /\ outq[c] \in Seq(Unit) /\ got[c] \in Seq(Unit)
      /\ sent[c] \in Nat
  BY FlowTypes
<1>2. PiecesOf(c)'
  BY <1>1 DEF PiecesOf, Taken, Follow
<1>3. Stream(c)' = got[c] /\ ~Standing(c)'
  BY DEF Stream, Standing
<1>4. Blocks(Joined(got[c], outq[c], conn[c].send_buf))
  BY StreamJoined DEF AnswersOf
<1>5. Blocks(got[c])
  BY <1>1, <1>4, BlocksCut
<1>6. Blocks(Stream(c))'
  BY <1>3, <1>5 DEF Blocks, Copied
<1>7. conn'[c].state # "WRITING_RESPONSE" => conn'[c].send_buf = <<>>
  BY DEF AnswersOf
<1> QED
  BY <1>2, <1>3, <1>6, <1>7 DEF AnswersOf

\* A client that sends its next piece.
LEMMA FlowSend ==
  ASSUME IInv, NEW c \in Client, PiecesOf(c), AnswersOf(c),
         NEW piece \in NextPieces(c), piece \in Piece,
         inq'[c] = Append(inq[c], piece), sent'[c] = sent[c] + 1,
         UNCHANGED <<link[c], outq[c], got[c], conn[c]>>
  PROVE  PiecesOf(c)' /\ AnswersOf(c)'
<1>1. sent[c] \in Nat /\ inq[c] \in Seq(Piece) /\ Len(inq[c]) \in Nat /\ Len(conn[c].recv_buf) \in Nat
  BY FlowTypes
<1>2. /\ Len(inq'[c]) = Len(inq[c]) + 1 /\ DOMAIN inq'[c] = 1 .. Len(inq[c]) + 1
      /\ inq'[c][Len(inq[c]) + 1] = piece
      /\ \A i \in 1 .. Len(inq[c]) : i \in DOMAIN inq[c] /\ inq'[c][i] = inq[c][i]
  BY <1>1
<1>3. Taken(c)' = Taken(c) /\ Base(c)' = Base(c) /\ Done(c)' = Done(c)
  BY <1>1, <1>2, SMTT(30) DEF Taken, Base, Done
<1>4. IsPiece(piece, sent[c] + 1)
  <2>1. (sent[c] + 1) - 1 = sent[c]
    BY <1>1
  <2>2. piece.req = (sent[c] \div 3) + 1 /\ piece.part \in Parts[(sent[c] % 3) + 1]
    BY DEF NextPieces
  <2> QED
    BY <2>1, <2>2 DEF IsPiece
<1>5. ASSUME NEW i \in DOMAIN inq'[c] PROVE IsPiece(inq'[c][i], Taken(c) + i)
  <2>1. CASE i = Len(inq[c]) + 1
    <3>1. Taken(c) + i = sent[c] + 1
      BY <1>1, <2>1 DEF Taken
    <3> QED
      BY <1>2, <1>4, <2>1, <3>1
  <2>2. CASE i # Len(inq[c]) + 1
    <3>1. i \in 1 .. Len(inq[c])
      BY <1>1, <1>2, <2>2
    <3> QED
      BY <1>2, <3>1 DEF PiecesOf, Follow
  <2> QED
    BY <2>1, <2>2
<1>6. PiecesOf(c)'
  BY <1>3, <1>5 DEF PiecesOf, Follow, IsPiece
<1>7. Stream(c)' = Stream(c) /\ (Standing(c)' <=> Standing(c))
  BY DEF Stream, Standing
<1>8. AnswersOf(c)'
  BY <1>3, <1>7 DEF AnswersOf, Blocks, Complete, Copied
<1> QED
  BY <1>6, <1>8

\* A client that reads a unit of what was sent to it.
LEMMA FlowReceive ==
  ASSUME IInv, NEW c \in Client, PiecesOf(c), AnswersOf(c),
         link[c] \in {"up", "closed"}, outq[c] # <<>>,
         got'[c] = Append(got[c], Head(outq[c])), outq'[c] = Tail(outq[c]),
         UNCHANGED <<link[c], inq[c], sent[c], conn[c]>>
  PROVE  PiecesOf(c)' /\ AnswersOf(c)'
<1>1. conn[c].send_buf \in Seq(Unit) /\ outq[c] \in Seq(Unit) /\ got[c] \in Seq(Unit)
  BY FlowTypes
<1>2. Joined(Append(got[c], Head(outq[c])), Tail(outq[c]), conn[c].send_buf)
        = Joined(got[c], outq[c], conn[c].send_buf)
  BY <1>1, JoinedRead
<1>3. Stream(c)' = Stream(c)
  <2>1. Stream(c) = Joined(got[c], outq[c], conn[c].send_buf)
    BY StreamJoined
  <2>2. Stream(c)' = Joined(Append(got[c], Head(outq[c])), Tail(outq[c]), conn[c].send_buf)
    BY DEF Stream, Joined
  <2> QED
    BY <1>2, <2>1, <2>2
<1>4. Taken(c)' = Taken(c) /\ Base(c)' = Base(c) /\ Done(c)' = Done(c) /\ (Standing(c)' <=> Standing(c))
  BY DEF Taken, Base, Done, Standing
<1>5. PiecesOf(c)'
  BY <1>4 DEF PiecesOf
<1>6. AnswersOf(c)'
  BY <1>3, <1>4 DEF AnswersOf, Blocks, Complete, Copied
<1> QED
  BY <1>5, <1>6

-----------------------------------------------------------------------------
(* What the callbacks read and write.                                      *)

Upto(q, n)   == SubSeq(q, 1, n)
After(q, n)  == SubSeq(q, n + 1, Len(q))

LEMMA CutIs ==
  ASSUME NEW S, NEW q \in Seq(S), NEW n \in 0 .. Len(q)
  PROVE  /\ Upto(q, n) \in Seq(S) /\ Len(Upto(q, n)) = n
         /\ \A i \in 1 .. n : i \in DOMAIN q /\ Upto(q, n)[i] = q[i]
         /\ After(q, n) \in Seq(S) /\ Len(After(q, n)) = Len(q) - n
         /\ DOMAIN After(q, n) = 1 .. Len(q) - n
         /\ \A i \in 1 .. Len(q) - n : n + i \in DOMAIN q /\ After(q, n)[i] = q[n + i]
<1>1. Len(q) \in Nat /\ n \in Nat /\ n <= Len(q)
  OBVIOUS
<1>2. PICK u : u = SubSeq(q, 1, n)
  OBVIOUS
<1>3. u \in Seq(S) /\ Len(u) = n /\ \A i \in 1 .. n : i \in DOMAIN q /\ u[i] = q[i]
  BY <1>1, <1>2
<1>4. PICK v : v = SubSeq(q, n + 1, Len(q))
  OBVIOUS
<1>5. /\ v \in Seq(S) /\ Len(v) = Len(q) - n /\ DOMAIN v = 1 .. Len(q) - n
      /\ \A i \in 1 .. Len(q) - n : n + i \in DOMAIN q /\ v[i] = q[n + i]
  BY <1>1, <1>4
<1>6. Upto(q, n) = u /\ After(q, n) = v
  BY <1>2, <1>4 DEF Upto, After
<1> QED
  BY <1>3, <1>5, <1>6

LEMMA BehindIs ==
  ASSUME NEW S, NEW b \in Seq(S), NEW m \in Seq(S)
  PROVE  /\ Len(Behind(b, m)) = Len(b) + Len(m) /\ DOMAIN Behind(b, m) = 1 .. Len(b) + Len(m)
         /\ \A i \in 1 .. Len(b) : i \in DOMAIN b /\ Behind(b, m)[i] = b[i]
         /\ \A i \in 1 .. Len(m) : Behind(b, m)[Len(b) + i] = m[i]
<1>1. Len(b) \in Nat /\ Len(m) \in Nat /\ DOMAIN b = 1 .. Len(b)
  BY LenProperties
<1>2. b \o m \in Seq(S) /\ Len(b \o m) = Len(b) + Len(m)
  BY ConcatProperties
<1>3. DOMAIN (b \o m) = 1 .. Len(b) + Len(m)
  BY <1>2, LenProperties
<1>4. \A i \in 1 .. Len(b) : (b \o m)[i] = b[i]
  OBVIOUS
<1>5. \A i \in 1 .. Len(m) : (b \o m)[Len(b) + i] = m[i]
  OBVIOUS
<1> QED
  BY <1>1, <1>2, <1>3, <1>4, <1>5 DEF Behind

LEMMA BehindAt ==
  ASSUME NEW S, NEW b \in Seq(S), NEW m \in Seq(S), NEW i \in 1 .. Len(m)
  PROVE  Behind(b, m)[Len(b) + i] = m[i]
BY BehindIs

\* recv moves pieces from the kernel's buffer to the connection's.
LEMMA LeftOf ==
  ASSUME NEW S, NEW q \in Seq(S), NEW n \in 0 .. Len(q), NEW t \in Nat, Follow(q, t)
  PROVE  Follow(After(q, n), t + n)
<1>1. Len(q) \in Nat /\ n \in Nat /\ n <= Len(q)
  OBVIOUS
<1>2. SUFFICES ASSUME NEW i \in DOMAIN After(q, n) PROVE IsPiece(After(q, n)[i], t + n + i)
  BY DEF Follow
<1>3. i \in 1 .. Len(q) - n
  BY CutIs
<1>4. n + i \in DOMAIN q /\ After(q, n)[i] = q[n + i]
  BY <1>3, CutIs
<1>5. IsPiece(q[n + i], t + (n + i))
  BY <1>4 DEF Follow
<1>6. t + (n + i) = t + n + i
  BY <1>1, <1>3
<1> QED
  BY <1>4, <1>5, <1>6

LEMMA TakenBehind ==
  ASSUME NEW S, NEW q \in Seq(S), NEW b \in Seq(S), NEW n \in 0 .. Len(q),
         NEW t \in Nat, NEW k \in Nat, k + Len(b) = t, Follow(q, t), Follow(b, k)
  PROVE  Follow(Behind(b, Upto(q, n)), k)
<1>1. Len(b) \in Nat /\ n \in Nat
  OBVIOUS
<1>2. PICK more \in Seq(S) : more = Upto(q, n)
  BY CutIs
<1>3. Len(more) = n
  BY <1>2, CutIs
<1>4. SUFFICES ASSUME NEW i \in DOMAIN Behind(b, more) PROVE IsPiece(Behind(b, more)[i], k + i)
  BY <1>2 DEF Follow
<1>5. i \in 1 .. Len(b) + n
  BY <1>3, BehindIs
<1>6. CASE i <= Len(b)
  <2>1. i \in 1 .. Len(b)
    BY <1>1, <1>5, <1>6
  <2>2. i \in DOMAIN b /\ Behind(b, more)[i] = b[i]
    BY <2>1, BehindIs
  <2> QED
    BY <2>2 DEF Follow
<1>7. CASE i > Len(b)
  <2>1. PICK j : j = i - Len(b)
    OBVIOUS
  <2>2. j \in 1 .. n /\ i = Len(b) + j /\ k + i = t + j
    BY <1>1, <1>5, <1>7, <2>1
  <2>3. Behind(b, more)[i] = more[j]
    BY <1>3, <2>2, BehindAt
  <2>4. j \in DOMAIN q /\ more[j] = q[j]
    BY <1>2, <2>2, CutIs
  <2> QED
    BY <2>2, <2>3, <2>4 DEF Follow
<1> QED
  BY <1>1, <1>5, <1>6, <1>7

\* What recv takes: as many pieces as there are or fit.
LEMMA ReceivedIs ==
  ASSUME IInv, NEW c \in Client
  PROVE  \E n \in 0 .. Len(inq[c]) : Received(c) = Upto(inq[c], n)
<1>1. Len(inq[c]) \in Nat /\ Len(conn[c].recv_buf) \in Nat
  BY FlowTypes
<1>2. Len(conn[c].recv_buf) <= RecvCap /\ RecvCap \in Nat
  BY ServerAssumption DEF IInv, BuffersBounded
<1> QED
  BY <1>1, <1>2, RoomLeft DEF Received, Upto

\* The pieces of a connection after recv, whatever becomes of the request.
LEMMA FlowRead ==
  ASSUME IInv, NEW c \in Client, PiecesOf(c), link[c] # "reset",
         NEW more, more = Received(c), NEW buf, buf = Behind(conn[c].recv_buf, more),
         conn'[c].recv_buf = buf, inq'[c] = After(inq[c], Len(more)),
         UNCHANGED <<link[c], sent[c]>>
  PROVE  /\ PiecesOf(c)'
         /\ Base(c)' = Base(c) /\ Base(c) \in Nat /\ Taken(c)' = Base(c) + Len(buf)
         /\ Len(buf) \in Nat /\ Follow(buf, Base(c))
<1>1. /\ sent[c] \in Nat /\ inq[c] \in Seq(Piece) /\ conn[c].recv_buf \in Seq(Piece)
      /\ Len(inq[c]) \in Nat /\ Len(conn[c].recv_buf) \in Nat
  BY FlowTypes
<1>2. PICK n \in 0 .. Len(inq[c]) : more = Upto(inq[c], n)
  BY ReceivedIs
<1>3. Len(more) = n /\ more \in Seq(Piece) /\ inq'[c] = After(inq[c], n)
  BY <1>1, <1>2, CutIs
<1>4. Len(inq'[c]) = Len(inq[c]) - n /\ Len(buf) = Len(conn[c].recv_buf) + n
  <2>1. Len(inq'[c]) = Len(inq[c]) - n
    <3>1. PICK q \in Seq(Piece) : q = inq[c]
      BY <1>1
    <3>2. Len(After(q, n)) = Len(q) - n
      <4>1. q \in Seq(Piece) /\ n \in 0 .. Len(q)
        BY <3>1
      <4> QED
        BY <4>1, CutIs
    <3> QED
      BY <1>3, <3>1, <3>2
  <2>2. Len(buf) = Len(conn[c].recv_buf) + Len(more)
    <3>1. PICK b \in Seq(Piece) : b = conn[c].recv_buf
      BY <1>1
    <3>2. Len(Behind(b, more)) = Len(b) + Len(more)
      BY <1>3, BehindIs
    <3> QED
      BY <3>1, <3>2
  <2> QED
    BY <1>3, <2>1, <2>2
<1>5. /\ Taken(c) \in Nat /\ Base(c) \in Nat
      /\ Follow(inq[c], Taken(c)) /\ Follow(conn[c].recv_buf, Base(c))
  BY DEF PiecesOf
<1>6. /\ Base(c) + Len(conn[c].recv_buf) = Taken(c)
      /\ Taken(c)' = Taken(c) + n /\ Base(c)' = Base(c) /\ Taken(c)' = Base(c) + Len(buf)
      /\ Len(buf) \in Nat
  <2>1. PICK s, q, b : s = sent[c] /\ q = Len(inq[c]) /\ b = Len(conn[c].recv_buf)
    OBVIOUS
  <2>2. s \in Nat /\ q \in Nat /\ b \in Nat /\ n \in Nat
    BY <1>1, <2>1
  <2>3. /\ Taken(c) = s - q /\ Base(c) = (s - q) - b
        /\ Taken(c)' = s - (q - n) /\ Base(c)' = (s - (q - n)) - (b + n)
    BY <1>4, <2>1 DEF Taken, Base
  <2>4. Len(buf) = b + n /\ b + n \in Nat
    BY <1>4, <2>1, <2>2
  <2>5. ((s - q) - b) + b = s - q /\ s - (q - n) = (s - q) + n
    BY <2>2
  <2>6. (s - (q - n)) - (b + n) = (s - q) - b /\ s - (q - n) = ((s - q) - b) + (b + n)
    BY <2>2
  <2> QED
    BY <2>1, <2>3, <2>4, <2>5, <2>6
<1>7. Follow(inq'[c], Taken(c)')
  BY <1>1, <1>3, <1>5, <1>6, LeftOf
<1>8. Follow(buf, Base(c))
  <2>1. Follow(Behind(conn[c].recv_buf, Upto(inq[c], n)), Base(c))
    BY <1>1, <1>5, <1>6, TakenBehind
  <2> QED
    BY <1>2, <2>1
<1>9. PiecesOf(c)'
  <2>1. Taken(c)' \in Nat /\ Base(c)' \in Nat
    BY <1>5, <1>6
  <2> QED
    BY <1>6, <1>7, <1>8, <2>1 DEF PiecesOf, Follow, IsPiece
<1> QED
  BY <1>5, <1>6, <1>8, <1>9

\* A request line at the front of the buffer is a whole one, and the server is
\* where its request begins.
LEMMA StartOfRequest ==
  ASSUME NEW k \in Nat, NEW x, NEW y, IsPiece(x, k + 1), IsPiece(y, k + 2),
         x.part = "start", y.part = "line"
  PROVE  x.req \in Nat /\ k = 3 * (x.req - 1)
<1>1. (k + 1) - 1 = k /\ (k + 2) - 1 = k + 1
  OBVIOUS
<1>2. /\ x.req = (k \div 3) + 1 /\ "start" \in Parts[(k % 3) + 1]
      /\ "line" \in Parts[((k + 1) % 3) + 1]
  BY <1>1 DEF IsPiece
<1>3. k % 3 \in 0 .. 2 /\ (k + 1) % 3 \in 0 .. 2
  OBVIOUS
<1>4. k % 3 # 2
  BY <1>2 DEF Parts
<1>5. (k + 1) % 3 # 2
  BY <1>2 DEF Parts
<1>6. k % 3 = 0
  BY <1>3, <1>4, <1>5
<1>7. k \div 3 \in Nat /\ k = 3 * (k \div 3)
  BY <1>6
<1> QED
  BY <1>2, <1>7

\* Reading without answering: not a whole request line yet, or a handler that
\* sends nothing.
LEMMA FlowReadMore ==
  ASSUME IInv, NEW c \in Client, PiecesOf(c), AnswersOf(c), link[c] # "reset",
         conn[c].state = "READING_REQUEST", conn'[c].state # "WRITING_RESPONSE",
         conn'[c].recv_buf = Behind(conn[c].recv_buf, Received(c)),
         inq'[c] = After(inq[c], Len(Received(c))),
         UNCHANGED <<link[c], outq[c], sent[c], got[c], conn[c].send_buf>>
  PROVE  PiecesOf(c)' /\ AnswersOf(c)'
<1>1. PiecesOf(c)' /\ Base(c)' = Base(c)
  BY FlowRead
<1>2. Stream(c)' = Stream(c) /\ (Standing(c)' <=> Standing(c)) /\ Done(c)' = Done(c)
  BY <1>1 DEF Stream, Standing, Done
<1>3. AnswersOf(c)'
  BY <1>2 DEF AnswersOf, Blocks, Complete, Copied
<1> QED
  BY <1>1, <1>3

\* The handler answers the request at the front of the buffer: its answer goes
\* behind those to earlier requests.
LEMMA FlowAnswer ==
  ASSUME IInv, NEW c \in Client, PiecesOf(c), AnswersOf(c), link[c] \in {"up", "fin"},
         conn[c].state = "READING_REQUEST", conn'[c].state = "WRITING_RESPONSE",
         NEW buf, buf = Behind(conn[c].recv_buf, Received(c)), buf \in Seq(Piece),
         cwh_parse_req(buf),
         conn'[c].recv_buf = buf, conn'[c].send_buf = Response(buf[1].req),
         inq'[c] = After(inq[c], Len(Received(c))),
         UNCHANGED <<link[c], outq[c], sent[c], got[c]>>
  PROVE  PiecesOf(c)' /\ AnswersOf(c)'
<1>1. /\ PiecesOf(c)' /\ Base(c) \in Nat /\ Taken(c)' = Base(c) + Len(buf)
      /\ Len(buf) \in Nat /\ Follow(buf, Base(c))
  BY FlowRead
<1>2. PICK r : r = buf[1].req
  OBVIOUS
<1>3. /\ Len(buf) >= 2 /\ buf[1].part = "start" /\ buf[2].part = "line"
      /\ 1 \in DOMAIN buf /\ 2 \in DOMAIN buf /\ r \in 1 .. MaxRequest
  <2>1. Len(buf) >= 2 /\ buf[1].part = "start" /\ buf[2].part = "line"
    BY DEF cwh_parse_req
  <2>2. 1 \in DOMAIN buf /\ 2 \in DOMAIN buf
    BY <1>1, <2>1
  <2>3. buf[1] \in Piece
    BY <2>2
  <2> QED
    BY <1>2, <2>1, <2>2, <2>3 DEF Piece
<1>4. r \in Nat /\ Base(c) = 3 * (r - 1)
  <2>1. IsPiece(buf[1], Base(c) + 1) /\ IsPiece(buf[2], Base(c) + 2)
    BY <1>1, <1>3 DEF Follow
  <2> QED
    BY <1>1, <1>2, <1>3, <2>1, StartOfRequest
<1>5. got[c] \in Seq(Unit) /\ outq[c] \in Seq(Unit) /\ Stream(c) \in Seq(Unit)
  BY FlowTypes
<1>6. PICK u : u = Stream(c)
  OBVIOUS
<1>7. /\ u \in Seq(Unit) /\ Blocks(u) /\ Complete(u)
      /\ \A i \in DOMAIN u : 3 * u[i].req - 1 <= Base(c)
  BY <1>5, <1>6 DEF AnswersOf, Standing, Done
<1>8. \A i \in DOMAIN u : u[i].req \in Nat /\ u[i].req < r
  <2> SUFFICES ASSUME NEW i \in DOMAIN u PROVE u[i].req \in Nat /\ u[i].req < r
    OBVIOUS
  <2>1. u[i] \in Unit
    BY <1>7
  <2>2. u[i].req \in Nat /\ 3 * u[i].req - 1 <= 3 * (r - 1)
    BY <1>4, <1>7, <2>1, ServerAssumption DEF Unit
  <2> QED
    BY <1>4, <2>2
<1>9. PICK w : w = Behind(u, Response(r))
  OBVIOUS
<1>10. Blocks(w) /\ Complete(w)
  BY <1>3, <1>7, <1>8, <1>9, BlocksThen DEF Behind
<1>11. Stream(c)' = w
  <2>1. Response(r) \in Seq(Unit)
    BY <1>3, ResponseTyped
  <2>2. u = Joined(got[c], outq[c], <<>>)
    BY <1>6, StreamJoined DEF AnswersOf
  <2>3. Behind(u, Response(r)) = Joined(got[c], outq[c], Response(r))
    BY <1>5, <2>1, <2>2, JoinedEnd
  <2>4. Stream(c)' = Joined(got[c], outq[c], Response(r))
    BY <1>2 DEF Stream, Joined
  <2> QED
    BY <1>9, <2>3, <2>4
<1>12. \A i \in DOMAIN w : w[i].req \in Nat /\ 3 * w[i].req - 1 <= Taken(c)'
  <2>1. \A i \in DOMAIN w : (i \in DOMAIN u /\ w[i] = u[i]) \/ w[i].req = r
    <3>1. PICK v \in Seq(Unit) : v = Response(r) /\ \A j \in 1 .. Len(v) : v[j].req = r
      <4>1. /\ Response(r) \in Seq(Unit) /\ Len(Response(r)) = Copied(r)
            /\ \A j \in 1 .. Copied(r) : Response(r)[j] = [req |-> r, nth |-> j]
        BY <1>3, ResponseTyped
      <4>2. \A j \in 1 .. Len(Response(r)) : Response(r)[j].req = r
        BY <4>1
      <4> QED
        BY <4>1, <4>2
    <3>2. Len(u) \in Nat /\ Len(v) \in Nat /\ DOMAIN w = 1 .. Len(u) + Len(v)
      BY <1>7, <1>9, <3>1, BehindIs, LenProperties
    <3>3. ASSUME NEW i \in DOMAIN w PROVE (i \in DOMAIN u /\ w[i] = u[i]) \/ w[i].req = r
      <4>1. CASE i <= Len(u)
        <5>1. i \in 1 .. Len(u)
          BY <3>2, <4>1
        <5> QED
          BY <1>7, <1>9, <3>1, <5>1, BehindIs
      <4>2. CASE i > Len(u)
        <5>1. PICK j : j = i - Len(u)
          OBVIOUS
        <5>2. j \in 1 .. Len(v) /\ i = Len(u) + j
          BY <3>2, <4>2, <5>1
        <5>3. w[i] = v[j]
          <6>1. Behind(u, v)[Len(u) + j] = v[j]
            <7>1. u \in Seq(Unit)
              BY <1>7
            <7>2. v \in Seq(Unit) /\ j \in 1 .. Len(v)
              BY <5>2
            <7> QED
              BY <7>1, <7>2, BehindAt
          <6> QED
            BY <1>9, <3>1, <5>2, <6>1
        <5> QED
          BY <3>1, <5>2, <5>3
      <4> QED
        BY <3>2, <4>1, <4>2
    <3> QED
      BY <3>3
  <2>2. \A i \in DOMAIN w : w[i].req \in Nat /\ w[i].req <= r
    BY <1>4, <1>8, <2>1
  <2>3. 3 * r - 1 <= Taken(c)' /\ Taken(c)' \in Nat
    BY <1>1, <1>3, <1>4
  <2> QED
    BY <1>4, <2>2, <2>3
<1>13. Done(c)' = Taken(c)' /\ link'[c] # "reset"
  BY DEF Done
<1>14. AnswersOf(c)'
  <2>1. Blocks(Stream(c))'
    BY <1>10, <1>11 DEF Blocks, Copied
  <2>2. Complete(Stream(c))'
    BY <1>10, <1>11 DEF Complete, Copied
  <2>3. (\A i \in DOMAIN Stream(c) : 3 * Stream(c)[i].req - 1 <= Done(c))'
    BY <1>11, <1>12, <1>13
  <2> QED
    BY <1>13, <2>1, <2>2, <2>3 DEF AnswersOf
<1> QED
  BY <1>1, <1>14

\* send moves units to the kernel's buffer; when the answer is all there and
\* the connection is kept, what the receive buffer holds is dropped.
LEMMA FlowWritten ==
  ASSUME IInv, NEW c \in Client, PiecesOf(c), AnswersOf(c), link[c] # "reset",
         conn[c].state = "WRITING_RESPONSE",
         outq'[c] = outq[c] \o SubSeq(conn[c].send_buf, 1, Fits(c)),
         conn'[c].send_buf = SubSeq(conn[c].send_buf, Fits(c) + 1, Len(conn[c].send_buf)),
         \/ conn'[c].state = "WRITING_RESPONSE" /\ conn'[c].recv_buf = conn[c].recv_buf
         \/ /\ conn'[c].state = "READING_REQUEST" /\ conn'[c].recv_buf = <<>>
            /\ conn'[c].send_buf = <<>>,
         UNCHANGED <<link[c], inq[c], sent[c], got[c]>>
  PROVE  PiecesOf(c)' /\ AnswersOf(c)'
<1>1. /\ conn[c].send_buf \in Seq(Unit) /\ outq[c] \in Seq(Unit) /\ got[c] \in Seq(Unit)
  BY FlowTypes
<1>2. Stream(c)' = Stream(c)
  <2>1. PICK n \in 0 .. Len(conn[c].send_buf) : n = Fits(c)
    BY WrittenFits
  <2>2. Joined(got[c], outq[c] \o SubSeq(conn[c].send_buf, 1, n),
               SubSeq(conn[c].send_buf, n + 1, Len(conn[c].send_buf)))
          = Joined(got[c], outq[c], conn[c].send_buf)
    BY <1>1, JoinedWritten
  <2>3. Stream(c)' = Joined(got'[c], outq'[c], conn'[c].send_buf)
    BY DEF Stream, Joined
  <2> QED
    BY <2>1, <2>2, <2>3, StreamJoined
<1>3. Taken(c)' = Taken(c)
  BY DEF Taken
<1>4. /\ Done(c)' = Done(c) /\ Base(c)' \in Nat
      /\ Follow(conn'[c].recv_buf, Base(c)')
  <2>1. Taken(c) \in Nat /\ Base(c) \in Nat /\ Follow(conn[c].recv_buf, Base(c))
    BY DEF PiecesOf
  <2>2. CASE conn'[c].state = "WRITING_RESPONSE" /\ conn'[c].recv_buf = conn[c].recv_buf
    BY <1>3, <2>1, <2>2 DEF Done, Base
  <2>3. CASE conn'[c].state = "READING_REQUEST" /\ conn'[c].recv_buf = <<>>
    <3>1. Base(c)' = Taken(c)
      BY <1>3, <2>1, <2>3 DEF Base
    <3> QED
      BY <2>1, <2>3, <3>1 DEF Done, Follow
  <2> QED
    BY <2>2, <2>3
<1>5. PiecesOf(c)'
  BY <1>3, <1>4 DEF PiecesOf, Follow, IsPiece
<1>6. Standing(c)' <=> Standing(c)
  BY DEF Standing
<1>7. AnswersOf(c)'
  BY <1>2, <1>4, <1>6 DEF AnswersOf, Blocks, Complete, Copied
<1> QED
  BY <1>5, <1>7

-----------------------------------------------------------------------------
(* Every step keeps the flow.                                              *)

\* Clients that lose their connection or their place, and the others.
LEMMA FlowClosing ==
  ASSUME IInv, FlowInv, NEW C \in SUBSET Client, Lost(C), UNCHANGED <<sent, got>>,
         \A d \in Client : \/ outq'[d] = outq[d]
                           \/ /\ d \in C /\ link[d] # "reset"
                              /\ outq'[d] = outq[d] \o SubSeq(conn[d].send_buf, 1, Fits(d))
  PROVE  FlowInv'
<1> SUFFICES ASSUME NEW d \in Client PROVE PiecesOf(d)' /\ AnswersOf(d)'
  BY DEF FlowInv
<1>1. PiecesOf(d) /\ AnswersOf(d)
  BY DEF FlowInv
<1>2. CASE d \in C
  <2>1. link'[d] = "closed" /\ inq'[d] = <<>> /\ conn'[d] = NewConn(-1)
    BY <1>2 DEF Lost
  <2> QED
    BY <1>1, <2>1, FlowLost
<1>3. CASE d \notin C
  <2>1. link'[d] = link[d] /\ inq'[d] = inq[d] /\ conn'[d] = conn[d] /\ outq'[d] = outq[d]
    BY <1>3 DEF Lost
  <2> QED
    BY <1>1, <2>1, FlowSame
<1> QED
  BY <1>2, <1>3

\* One client's buffers change.
LEMMA FlowOthers ==
  ASSUME IInv, FlowInv, NEW c \in Client, PiecesOf(c)', AnswersOf(c)',
         \A d \in Client : d # c => UNCHANGED <<link[d], inq[d], outq[d], sent[d], got[d], conn[d]>>
  PROVE  FlowInv'
<1>1. ASSUME NEW d \in Client, d # c PROVE PiecesOf(d)' /\ AnswersOf(d)'
  <2>1. PiecesOf(d) /\ AnswersOf(d)
    BY DEF FlowInv
  <2>2. UNCHANGED <<link[d], inq[d], outq[d], sent[d], got[d], conn[d]>>
    BY <1>1
  <2> QED
    BY <2>1, <2>2, FlowSame
<1> QED
  BY <1>1 DEF FlowInv

\* No client's buffers change.
LEMMA FlowUnchanged ==
  ASSUME FlowInv, UNCHANGED <<link, inq, outq, sent, got, conn>>
  PROVE  FlowInv'
<1> SUFFICES ASSUME NEW d \in Client PROVE PiecesOf(d)' /\ AnswersOf(d)'
  BY DEF FlowInv
<1>1. PiecesOf(d) /\ AnswersOf(d)
  BY DEF FlowInv
<1> QED
  BY <1>1, FlowSame

LEMMA StopFlow ==
  ASSUME PlaceInv, FlowInv, server_stop
  PROVE  FlowInv'
<1>1. PICK C \in SUBSET Client : Lost(C)
  BY StoppingLoses
<1>2. UNCHANGED <<outq, sent, got>>
  BY DEF server_stop
<1> QED
  BY <1>1, <1>2, FlowClosing DEF PlaceInv

LEMMA LoopFlow ==
  ASSUME PlaceInv, FlowInv,
         Wait \/ Skip \/ ListenEvent \/ Accept \/ AcceptThenFail \/ AcceptError \/ AcceptDone
  PROVE  FlowInv'
<1>0. connections \subseteq Client /\ conn \in [Client -> Conn] /\ link \in [Client -> Links]
  BY DEF PlaceInv, IInv, TypeOK
<1>1. CASE Wait \/ Skip \/ AcceptError \/ AcceptDone
  <2>1. UNCHANGED <<link, inq, outq, sent, got, conn>>
    BY <1>1 DEF Wait, Skip, AcceptError, AcceptDone, vars, serverVars, netVars
  <2> QED
    BY <2>1, FlowUnchanged
<1>2. CASE ListenEvent
  <2>1. PICK C : C = {c \in connections : Expired(c)}
    OBVIOUS
  <2>2. C \in SUBSET Client /\ Drop(C) /\ Hangup(C) /\ UNCHANGED <<outq, sent, got>>
    BY <1>0, <1>2, <2>1 DEF ListenEvent
  <2>3. Lost(C)
    BY <2>2, ClosingLoses DEF PlaceInv
  <2> QED
    BY <2>2, <2>3, FlowClosing DEF PlaceInv
<1>3. CASE Accept
  <2>1. PICK c : c = Head(backlog)
    OBVIOUS
  <2>2. PICK fd \in Fd : conn' = [conn EXCEPT ![c] = NewConn(fd)]
    BY <1>3, <2>1 DEF Accept
  <2>3. c \in Client /\ c \notin connections
    BY <1>3, <2>1, HeadOfQueue DEF Accept, PlaceInv
  <2>4. UNCHANGED <<link, inq, outq, sent, got>>
    BY <1>3 DEF Accept
  <2>5. conn[c] = NewConn(-1) /\ conn'[c] = NewConn(fd)
    BY <1>0, <2>2, <2>3 DEF PlaceInv, Places
  <2>6. UNCHANGED <<conn[c].recv_buf, conn[c].send_buf, conn[c].state>>
    BY <2>5 DEF NewConn
  <2>7. PiecesOf(c)' /\ AnswersOf(c)'
    BY <2>3, <2>4, <2>6, FlowSame DEF FlowInv
  <2>8. \A d \in Client : d # c => conn'[d] = conn[d]
    BY <1>0, <2>2, <2>3
  <2> QED
    BY <2>3, <2>4, <2>7, <2>8, FlowOthers DEF PlaceInv
<1>4. CASE AcceptThenFail
  <2>1. PICK c : c = Head(backlog)
    OBVIOUS
  <2>2. c \in Client /\ c \notin connections
    BY <1>4, <2>1, HeadOfQueue DEF AcceptThenFail, PlaceInv
  <2>3. Hangup({c}) /\ UNCHANGED <<connections, conn, outq, sent, got>>
    BY <1>4, <2>1 DEF AcceptThenFail, serverVars
  <2>4. Lost({c})
    BY <1>0, <2>2, <2>3 DEF Hangup, Lost, PlaceInv, Places
  <2> QED
    BY <2>2, <2>3, <2>4, FlowClosing DEF PlaceInv
<1> QED
  BY <1>1, <1>2, <1>3, <1>4

LEMMA EnvironmentFlow ==
  ASSUME PlaceInv, FlowInv, Environment
  PROVE  FlowInv'
<1>0. /\ conn \in [Client -> Conn] /\ link \in [Client -> Links]
      /\ inq \in [Client -> Seq(Piece)] /\ outq \in [Client -> Seq(Unit)]
      /\ sent \in [Client -> 0 .. 3 * MaxRequest] /\ got \in [Client -> Seq(Unit)]
      /\ IInv /\ \A c \in Client : PiecesOf(c) /\ AnswersOf(c)
  BY DEF PlaceInv, FlowInv, IInv, TypeOK
<1>1. CASE Tick
  BY <1>1, FlowUnchanged DEF Tick, netVars
<1>2. ASSUME NEW c \in Client, Connect(c) PROVE FlowInv'
  <2>1. /\ link' = [link EXCEPT ![c] = "up"] /\ link[c] = "none"
        /\ UNCHANGED <<inq, outq, sent, got, conn>>
    BY <1>2 DEF Connect, serverVars
  <2>2. link'[c] = "up" /\ \A d \in Client : d # c => link'[d] = link[d]
    BY <1>0, <2>1
  <2>3. Standing(c) /\ Standing(c)'
    BY <2>1, <2>2 DEF Standing
  <2>4. PiecesOf(c)' /\ AnswersOf(c)'
    BY <1>0, <2>1, <2>3, FlowSame
  <2> QED
    BY <1>0, <2>1, <2>2, <2>4, FlowOthers
<1>3. ASSUME NEW c \in Client, Send(c) PROVE FlowInv'
  <2>1. PICK piece \in NextPieces(c) : inq' = [inq EXCEPT ![c] = Append(@, piece)]
    BY <1>3 DEF Send
  <2>2. /\ sent' = [sent EXCEPT ![c] = @ + 1] /\ UNCHANGED <<link, outq, got, conn>>
    BY <1>3 DEF Send, serverVars
  <2>3. piece \in Piece
    <3>1. sent[c] \in Nat /\ Requests[c] \in 0 .. MaxRequest /\ sent[c] < 3 * Requests[c]
      <4>1. sent[c] \in 0 .. 3 * MaxRequest
        BY <1>0
      <4>2. Requests[c] \in 0 .. MaxRequest
        BY ServerAssumption
      <4> QED
        BY <1>3, <4>1, <4>2 DEF Send
    <3>2. sent[c] < 3 * MaxRequest /\ MaxRequest \in Nat
      BY <3>1, ServerAssumption
    <3>3. (sent[c] \div 3) + 1 \in 1 .. MaxRequest /\ (sent[c] % 3) + 1 \in 1 .. 3
      BY <3>1, <3>2, PieceIndex
    <3>4. Parts[(sent[c] % 3) + 1] \subseteq {"start", "line", "head"}
      BY <3>3 DEF Parts
    <3> QED
      BY <2>1, <3>3, <3>4 DEF NextPieces, Piece
  <2>4. inq'[c] = Append(inq[c], piece) /\ sent'[c] = sent[c] + 1
    BY <1>0, <2>1, <2>2
  <2>5. PiecesOf(c)' /\ AnswersOf(c)'
    BY <1>0, <2>2, <2>3, <2>4, FlowSend
  <2>6. \A d \in Client : d # c => inq'[d] = inq[d] /\ sent'[d] = sent[d]
    BY <1>0, <2>1, <2>2
  <2> QED
    BY <1>0, <2>2, <2>5, <2>6, FlowOthers
<1>4. ASSUME NEW c \in Client, Receive(c) PROVE FlowInv'
  <2>1. /\ link[c] \in {"up", "closed"} /\ outq[c] # <<>>
        /\ got' = [got EXCEPT ![c] = Append(@, Head(outq[c]))]
        /\ outq' = [outq EXCEPT ![c] = Tail(@)]
        /\ UNCHANGED <<link, inq, sent, conn>>
    BY <1>4 DEF Receive, serverVars
  <2>2. got'[c] = Append(got[c], Head(outq[c])) /\ outq'[c] = Tail(outq[c])
    BY <1>0, <2>1
  <2>3. PiecesOf(c)' /\ AnswersOf(c)'
    BY <1>0, <2>1, <2>2, FlowReceive
  <2>4. \A d \in Client : d # c => got'[d] = got[d] /\ outq'[d] = outq[d]
    BY <1>0, <2>1
  <2> QED
    BY <1>0, <2>1, <2>3, <2>4, FlowOthers
<1>5. ASSUME NEW c \in Client, ClientClose(c) PROVE FlowInv'
  <2>1. /\ link' = [link EXCEPT ![c] = "fin"] /\ link[c] = "up"
        /\ UNCHANGED <<inq, outq, sent, got, conn>>
    BY <1>5 DEF ClientClose, serverVars
  <2>2. link'[c] = "fin" /\ \A d \in Client : d # c => link'[d] = link[d]
    BY <1>0, <2>1
  <2>3. Standing(c) /\ Standing(c)'
    BY <2>1, <2>2 DEF Standing
  <2>4. PiecesOf(c)' /\ AnswersOf(c)'
    BY <1>0, <2>1, <2>3, FlowSame
  <2> QED
    BY <1>0, <2>1, <2>2, <2>4, FlowOthers
<1>6. ASSUME NEW c \in Client, ClientReset(c) PROVE FlowInv'
  <2>1. /\ link[c] \in {"up", "fin"} /\ link' = [link EXCEPT ![c] = "reset"]
        /\ inq' = [inq EXCEPT ![c] = <<>>] /\ outq' = [outq EXCEPT ![c] = <<>>]
        /\ UNCHANGED <<sent, got, conn>>
    BY <1>6 DEF ClientReset, serverVars
  <2>2. link'[c] = "reset" /\ inq'[c] = <<>> /\ outq'[c] = <<>>
    BY <1>0, <2>1
  <2>3. PiecesOf(c)' /\ AnswersOf(c)'
    BY <1>0, <2>1, <2>2, FlowReset
  <2>4. \A d \in Client : d # c => link'[d] = link[d] /\ inq'[d] = inq[d] /\ outq'[d] = outq[d]
    BY <1>0, <2>1
  <2> QED
    BY <1>0, <2>1, <2>3, <2>4, FlowOthers
<1> QED
  BY <1>1, <1>2, <1>3, <1>4, <1>5, <1>6 DEF Environment

LEMMA CallbackFlow ==
  ASSUME PlaceInv, FlowInv, NEW c \in Client, Callback(c)
  PROVE  FlowInv'
<1>1. PICK e \in batch :
        /\ Delivers(e, c)
        /\ \/ OnError(c, e) \/ OnReadFailure(c, e) \/ OnReadMore(c, e)
           \/ OnRequest(c, e) \/ OnWriteFailure(c, e) \/ OnWriteMore(c, e)
           \/ OnWriteKeepAlive(c, e) \/ OnWriteClose(c, e) \/ OnIgnored(c, e)
  BY CallbackOf DEF PlaceInv
<1>2. /\ c \in connections /\ conn \in [Client -> Conn] /\ conn[c] \in Conn
      /\ link \in [Client -> Links]
      /\ inq \in [Client -> Seq(Piece)] /\ outq \in [Client -> Seq(Unit)]
      /\ IInv /\ PiecesOf(c) /\ AnswersOf(c)
  BY CallbackOf DEF PlaceInv, FlowInv, IInv, TypeOK
<1>3. link[c] # "closed" /\ link[c] # "none" /\ link[c] \in Links
  BY <1>2 DEF PlaceInv, Places, IInv, QueueApart
<1>4. ASSUME Drop({c}), Hangup({c}), UNCHANGED <<sent, got>>,
             outq' = outq \/ (link[c] # "reset" /\ Written(c))
      PROVE  FlowInv'
  <2>1. {c} \in SUBSET Client /\ Lost({c})
    BY <1>2, <1>4, ClosingLoses
  <2>2. ASSUME NEW d \in Client
        PROVE  \/ outq'[d] = outq[d]
               \/ /\ d \in {c} /\ link[d] # "reset"
                  /\ outq'[d] = outq[d] \o SubSeq(conn[d].send_buf, 1, Fits(d))
    <3>1. CASE outq' = outq
      BY <3>1
    <3>2. CASE outq' # outq /\ d = c
      BY <1>2, <1>4, <3>2 DEF Written
    <3>3. CASE outq' # outq /\ d # c
      BY <1>2, <1>4, <3>3 DEF Written
    <3> QED
      BY <3>1, <3>2, <3>3
  <2> QED
    BY <1>2, <1>4, <2>1, <2>2, FlowClosing
<1>5. CASE OnError(c, e) \/ OnReadFailure(c, e) \/ OnWriteFailure(c, e)
  BY <1>4, <1>5 DEF OnError, OnReadFailure, OnWriteFailure, close_connection
<1>6. CASE OnWriteClose(c, e)
  BY <1>4, <1>6 DEF OnWriteClose, Written
<1>7. CASE OnIgnored(c, e)
  BY <1>7, FlowUnchanged DEF OnIgnored, netVars
<1>8. CASE OnReadMore(c, e)
  <2>1. PICK r : r = [conn[c] EXCEPT !.recv_buf = Behind(conn[c].recv_buf, Received(c))]
    OBVIOUS
  <2>2. /\ r.recv_buf = Behind(conn[c].recv_buf, Received(c))
        /\ r.state = conn[c].state /\ r.send_buf = conn[c].send_buf
    BY <1>2, <2>1 DEF Conn
  <2>3. conn' = [conn EXCEPT ![c] = r]
    BY <1>2, <1>8, <2>1 DEF OnReadMore, Behind
  <2>4. /\ inq' = [inq EXCEPT ![c] = After(inq[c], Len(Received(c)))]
        /\ UNCHANGED <<link, outq, sent, got>>
    BY <1>2, <1>8 DEF OnReadMore, After
  <2>5. conn[c].state = "READING_REQUEST" /\ link[c] # "reset"
    BY <1>8 DEF OnReadMore, ReadEvent, ReadFails
  <2>6. conn'[c] = r /\ inq'[c] = After(inq[c], Len(Received(c)))
    BY <1>2, <2>3, <2>4
  <2>7. \A d \in Client : d # c => conn'[d] = conn[d] /\ inq'[d] = inq[d]
    BY <1>2, <2>3, <2>4
  <2>8. PiecesOf(c)' /\ AnswersOf(c)'
    BY <1>2, <2>2, <2>4, <2>5, <2>6, FlowReadMore
  <2> QED
    BY <1>2, <2>4, <2>7, <2>8, FlowOthers
<1>9. CASE OnRequest(c, e)
  <2>1. CASE server_stop
    BY <2>1, StopFlow
  <2>2. CASE ~server_stop
    <3>1. PICK buf, ka, read :
            /\ buf = Behind(conn[c].recv_buf, Received(c))
            /\ ka = (conn[c].keep_alive \/ AsksKeepAlive(buf))
            /\ read = [conn[c] EXCEPT !.recv_buf = buf, !.keep_alive = ka]
      OBVIOUS
    <3>2. PICK r : /\ conn' = [conn EXCEPT ![c] = r]
                   /\ \/ r = [read EXCEPT !.state = "WRITING_RESPONSE",
                                          !.send_buf = Response(buf[1].req)]
                      \/ r = [read EXCEPT !.state = "PROCESSING"]
      BY <1>9, <2>2, <3>1 DEF OnRequest, Behind
    <3>3. /\ r.recv_buf = buf
          /\ \/ r.state = "WRITING_RESPONSE" /\ r.send_buf = Response(buf[1].req)
             \/ r.state = "PROCESSING" /\ r.send_buf = conn[c].send_buf
      BY <1>2, <3>1, <3>2 DEF Conn
    <3>4. /\ inq' = [inq EXCEPT ![c] = After(inq[c], Len(Received(c)))]
          /\ UNCHANGED <<link, outq, sent, got>>
      BY <1>2, <1>9, <2>2 DEF OnRequest, After
    <3>5. /\ conn[c].state = "READING_REQUEST" /\ link[c] # "reset"
          /\ cwh_parse_req(buf)
      BY <1>9, <3>1 DEF OnRequest, ReadEvent, ReadFails, Behind
    <3>6. conn'[c] = r /\ inq'[c] = After(inq[c], Len(Received(c)))
      BY <1>2, <3>2, <3>4
    <3>7. \A d \in Client : d # c => conn'[d] = conn[d] /\ inq'[d] = inq[d]
      BY <1>2, <3>2, <3>4
    <3>8. buf \in Seq(Piece) /\ link[c] \in {"up", "fin"}
      BY <1>2, <1>3, <3>1, <3>5, ReceivedFits DEF Behind, Links
    <3>9. CASE r.state = "WRITING_RESPONSE" /\ r.send_buf = Response(buf[1].req)
      <4>1. PiecesOf(c)' /\ AnswersOf(c)'
        BY <1>2, <3>1, <3>3, <3>4, <3>5, <3>6, <3>8, <3>9, FlowAnswer
      <4> QED
        BY <1>2, <3>4, <3>7, <4>1, FlowOthers
    <3>10. CASE r.state = "PROCESSING" /\ r.send_buf = conn[c].send_buf
      <4>1. PiecesOf(c)' /\ AnswersOf(c)'
        BY <1>2, <3>1, <3>3, <3>4, <3>5, <3>6, <3>10, FlowReadMore
      <4> QED
        BY <1>2, <3>4, <3>7, <4>1, FlowOthers
    <3> QED
      BY <3>3, <3>9, <3>10
  <2> QED
    BY <2>1, <2>2
<1>10. CASE OnWriteMore(c, e) \/ OnWriteKeepAlive(c, e)
  <2>1. /\ conn[c].state = "WRITING_RESPONSE" /\ link[c] # "reset"
        /\ outq' = [outq EXCEPT ![c] = @ \o SubSeq(conn[c].send_buf, 1, Fits(c))]
        /\ UNCHANGED <<link, inq, sent, got>>
    BY <1>10 DEF OnWriteMore, OnWriteKeepAlive, WriteEvent, Written
  <2>2. PICK r : /\ conn' = [conn EXCEPT ![c] = r]
                 /\ \/ r = [conn[c] EXCEPT !.send_buf = SubSeq(conn[c].send_buf, Fits(c) + 1, Len(conn[c].send_buf))]
                    \/ r = ResetForNext(conn[c]) /\ Fits(c) = Len(conn[c].send_buf)
    BY <1>2, <1>10 DEF OnWriteMore, OnWriteKeepAlive
  <2>3. SubSeq(conn[c].send_buf, Len(conn[c].send_buf) + 1, Len(conn[c].send_buf)) = <<>>
    <3>1. PICK b \in Seq(Unit) : b = conn[c].send_buf
      BY <1>2, FlowTypes
    <3>2. SubSeq(b, Len(b) + 1, Len(b)) = <<>>
      OBVIOUS
    <3> QED
      BY <3>1, <3>2
  <2>4. /\ r.send_buf = SubSeq(conn[c].send_buf, Fits(c) + 1, Len(conn[c].send_buf))
        /\ \/ r.state = "WRITING_RESPONSE" /\ r.recv_buf = conn[c].recv_buf
           \/ r.state = "READING_REQUEST" /\ r.recv_buf = <<>> /\ r.send_buf = <<>>
    <3>1. CASE r = [conn[c] EXCEPT !.send_buf = SubSeq(conn[c].send_buf, Fits(c) + 1, Len(conn[c].send_buf))]
      BY <1>2, <2>1, <3>1 DEF Conn
    <3>2. CASE r = ResetForNext(conn[c]) /\ Fits(c) = Len(conn[c].send_buf)
      <4>1. r.state = "READING_REQUEST" /\ r.recv_buf = <<>> /\ r.send_buf = <<>>
        BY <1>2, <3>2 DEF Conn, ResetForNext
      <4> QED
        BY <2>3, <3>2, <4>1
    <3> QED
      BY <2>2, <3>1, <3>2
  <2>5. /\ conn'[c] = r
        /\ outq'[c] = outq[c] \o SubSeq(conn[c].send_buf, 1, Fits(c))
    BY <1>2, <2>1, <2>2
  <2>6. PiecesOf(c)' /\ AnswersOf(c)'
    BY <1>2, <2>1, <2>4, <2>5, FlowWritten
  <2>7. \A d \in Client : d # c => conn'[d] = conn[d] /\ outq'[d] = outq[d]
    BY <1>2, <2>1, <2>2
  <2> QED
    BY <1>2, <2>1, <2>6, <2>7, FlowOthers
<1> QED
  BY <1>1, <1>5, <1>6, <1>7, <1>8, <1>9, <1>10

LEMMA InitFlow == Init => FlowInv
<1> SUFFICES ASSUME Init, NEW c \in Client PROVE PiecesOf(c) /\ AnswersOf(c)
  BY DEF FlowInv
<1>1. /\ inq[c] = <<>> /\ outq[c] = <<>> /\ got[c] = <<>> /\ sent[c] = 0 /\ link[c] = "none"
      /\ conn[c].recv_buf = <<>> /\ conn[c].send_buf = <<>>
      /\ conn[c].state = "READING_REQUEST"
  BY BufferOfNew DEF Init
<1>2. Stream(c) = <<>>
  BY <1>1 DEF Stream
<1>3. Taken(c) = 0 /\ Base(c) = 0
  <2>1. sent[c] = 0 /\ Len(inq[c]) = 0 /\ Len(conn[c].recv_buf) = 0
    BY <1>1
  <2>2. Taken(c) = 0
    BY <2>1 DEF Taken
  <2> QED
    BY <2>1, <2>2 DEF Base
<1>4. PiecesOf(c)
  BY <1>1, <1>3 DEF PiecesOf, Follow
<1>5. Blocks(Stream(c)) /\ \A i \in DOMAIN Stream(c) : 3 * Stream(c)[i].req - 1 <= Done(c)
  BY <1>2 DEF Blocks
<1>6. Complete(Stream(c))
  BY <1>2 DEF Complete
<1> QED
  BY <1>1, <1>4, <1>5, <1>6 DEF AnswersOf

LEMMA NextFlow == PlaceInv /\ FlowInv /\ [Next]_vars => FlowInv'
<1> SUFFICES ASSUME PlaceInv, FlowInv, [Next]_vars PROVE FlowInv'
  OBVIOUS
<1>1. CASE LoopStep
  BY <1>1, LoopFlow, CallbackFlow DEF LoopStep
<1>2. CASE Stop
  BY <1>2, StopFlow DEF Stop
<1>3. CASE Environment
  BY <1>3, EnvironmentFlow
<1>4. CASE UNCHANGED vars
  BY <1>4, FlowUnchanged DEF vars, serverVars, netVars
<1> QED
  BY <1>1, <1>2, <1>3, <1>4 DEF Next

LEMMA FlowInvariance == Spec => [](PlaceInv /\ FlowInv)
<1>1. Init => FlowInv
  BY InitFlow
<1>2. PlaceInv /\ FlowInv /\ [Next]_vars => FlowInv'
  BY NextFlow
<1> QED
  BY <1>1, <1>2, PlaceInvariance, PTL DEF Spec

\* AnswersInOrder: through read_request, process_request, write_response and
\* the reset for the next request, what a client has read, what is under way to
\* it and what is still to be sent are answers to ever later requests, each as
\* cwh_async_send_response has copied it: whole, unless it is longer than
\* send_buf.
THEOREM AnswersOrdered == Spec => []AnswersInOrder
<1>1. FlowInv => AnswersInOrder
  BY BlocksOrdered DEF FlowInv, AnswersOf, AnswersInOrder
<1> QED
  BY <1>1, FlowInvariance, PTL

-----------------------------------------------------------------------------
(* The service.                                                            *)

LEMMA InitService == Init => Service!SInit
BY DEF Init, Service!SInit, Ended

\* Who is where, seen as the service sees it.
LEMMA Apart ==
  ASSUME PlaceInv
  PROVE  /\ Service!Waiting = {c \in Client : InBacklog(c)}
         /\ connections \subseteq Client
         /\ \A c \in Client : c \in Ended <=> link[c] # "none" /\ c \notin connections /\ ~InBacklog(c)
<1>1. backlog \in Seq(Client) /\ connections \subseteq Client
  BY DEF PlaceInv, IInv, TypeOK
<1>2. Service!Waiting = {c \in Client : InBacklog(c)}
  BY <1>1 DEF Service!Waiting, InBacklog
<1> QED
  BY <1>1, <1>2 DEF Ended, InBacklog

\* Nothing the service speaks of changes.
LEMMA Stutters ==
  ASSUME UNCHANGED <<running, backlog, connections, got>>,
         \A c \in Client : link[c] = "none" <=> link'[c] = "none"
  PROVE  UNCHANGED Service!serviceVars
BY DEF Service!serviceVars, Ended

\* Some sessions end, or none does.
LEMMA SessionsEnd ==
  ASSUME PlaceInv, NEW C \in SUBSET Client, C \subseteq connections, Lost(C),
         UNCHANGED <<running, backlog, got>>
  PROVE  [Service!SNext]_(Service!serviceVars)
<1>1. \A c \in connections : link[c] # "none" /\ ~InBacklog(c)
  BY DEF PlaceInv, IInv, QueueApart, InBacklog
<1>2. \A c \in Client : InBacklog(c)' <=> InBacklog(c)
  BY DEF InBacklog
<1>3. connections' = connections \ C
  BY DEF Lost
<1>4. Ended' = Ended \cup C
  <2>1. \A c \in Client : link'[c] = IF c \in C THEN "closed" ELSE link[c]
    BY DEF Lost
  <2>2. \A c \in Client : (c \in Ended <=> link[c] # "none" /\ c \notin connections /\ ~InBacklog(c))
    BY DEF Ended, InBacklog
  <2>3. \A c \in Client : (c \in Ended' <=> link'[c] # "none" /\ c \notin connections' /\ ~InBacklog(c)')
    BY DEF Ended, InBacklog
  <2>4. \A c \in Client : c \in Ended' <=> c \in Ended \/ c \in C
    BY <1>1, <1>2, <1>3, <2>1, <2>2, <2>3
  <2>5. Ended \subseteq Client /\ Ended' \subseteq Client
    BY DEF Ended
  <2> QED
    BY <2>4, <2>5
<1>5. CASE C = {}
  BY <1>3, <1>4, <1>5 DEF Service!serviceVars
<1>6. CASE C # {}
  BY <1>3, <1>4, <1>6 DEF Service!SNext, Service!End
<1> QED
  BY <1>5, <1>6

LEMMA StopsService ==
  ASSUME PlaceInv, running, server_stop
  PROVE  Service!Shutdown
<1>1. PICK C \in SUBSET Client : Lost(C) /\ C = connections \cup {c \in Client : InBacklog(c)}
  BY StoppingLoses
<1>2. /\ running' = FALSE /\ connections' = {} /\ backlog' = <<>> /\ got' = got
  BY DEF server_stop, Drop
<1>3. \A c \in Client : ~InBacklog(c)'
  BY <1>2 DEF InBacklog
<1>4. \A c \in Client : link'[c] = IF c \in C THEN "closed" ELSE link[c]
  BY <1>1 DEF Lost
<1>5. /\ Ended \subseteq Client /\ Ended' \subseteq Client
      /\ \A c \in Client : (c \in Ended <=> link[c] # "none" /\ c \notin connections /\ ~InBacklog(c))
      /\ \A c \in Client : (c \in Ended' <=> link'[c] # "none" /\ c \notin connections' /\ ~InBacklog(c)')
  BY DEF Ended, InBacklog
<1>6. \A c \in Client : c \in C \/ link[c] = "none" \/ c \in Ended
  BY <1>1, <1>5
<1>7. Ended' = Ended \cup C
  BY <1>1, <1>2, <1>3, <1>4, <1>5, <1>6
<1>8. C = connections \cup Service!Waiting
  BY <1>1, Apart
<1> QED
  BY <1>2, <1>7, <1>8 DEF Service!Shutdown

LEMMA LoopService ==
  ASSUME PlaceInv,
         Wait \/ Skip \/ ListenEvent \/ Accept \/ AcceptThenFail \/ AcceptError \/ AcceptDone
  PROVE  [Service!SNext]_(Service!serviceVars)
<1>0. /\ connections \subseteq Client /\ conn \in [Client -> Conn] /\ link \in [Client -> Links]
      /\ IInv /\ conn_count = Cardinality(connections)
  BY DEF PlaceInv, IInv, TypeOK, CountsAgree
<1>1. CASE Wait \/ Skip \/ AcceptError \/ AcceptDone
  <2>1. UNCHANGED <<running, backlog, connections, got, link>>
    BY <1>1 DEF Wait, Skip, AcceptError, AcceptDone, vars, serverVars, netVars
  <2> QED
    BY <2>1, Stutters
<1>2. CASE ListenEvent
  <2>1. PICK C : C = {c \in connections : Expired(c)}
    OBVIOUS
  <2>2. /\ C \in SUBSET Client /\ C \subseteq connections /\ Drop(C) /\ Hangup(C)
        /\ UNCHANGED <<running, backlog, got>>
    BY <1>0, <1>2, <2>1 DEF ListenEvent
  <2>3. Lost(C)
    BY <1>0, <2>2, ClosingLoses
  <2> QED
    BY <2>2, <2>3, SessionsEnd
<1>3. CASE Accept \/ AcceptThenFail
  <2>1. PICK h : h = Head(backlog)
    OBVIOUS
  <2>2. backlog # <<>> /\ backlog' = Tail(backlog) /\ UNCHANGED <<running, got>> /\ running
    BY <1>3 DEF Accept, AcceptThenFail, MayAccept, serverVars
  <2>3. Service!Cardinality(connections) < MaxConnections
    <3>1. Cardinality(connections) < MaxConnections
      BY <1>0, <1>3 DEF Accept, AcceptThenFail, MayAccept
    <3>2. Service!Cardinality(connections) = Cardinality(connections)
      BY DEF Cardinality, Service!Cardinality
    <3> QED
      BY <3>1, <3>2
  <2>4. /\ h \in Client /\ InBacklog(h) /\ h \notin connections
        /\ \A d \in Client : InBacklog(d)' <=> InBacklog(d) /\ d # h
    BY <1>0, <2>1, <2>2, HeadOfQueue
  <2>5. link[h] # "none"
    BY <1>0, <2>4 DEF IInv, QueueApart, InBacklog
  <2>6. /\ Ended \subseteq Client /\ Ended' \subseteq Client
        /\ \A c \in Client : (c \in Ended <=> link[c] # "none" /\ c \notin connections /\ ~InBacklog(c))
        /\ \A c \in Client : (c \in Ended' <=> link'[c] # "none" /\ c \notin connections' /\ ~InBacklog(c)')
    BY DEF Ended, InBacklog
  <2>7. CASE Accept
    <3>1. connections' = connections \cup {h} /\ UNCHANGED link
      BY <2>1, <2>7 DEF Accept
    <3>2. \A c \in Client : c \in Ended' <=> c \in Ended
      BY <2>4, <2>6, <3>1
    <3>3. Ended' = Ended
      BY <2>6, <3>2
    <3>4. connections' = connections \cup {Head(backlog)}
      BY <2>1, <3>1
    <3>5. Service!Admit
      <4>1. UNCHANGED <<running, Ended, got>>
        BY <2>2, <3>3
      <4> QED
        BY <2>2, <2>3, <3>4, <4>1, Zenon DEF Service!Admit
    <3> QED
      BY <3>5 DEF Service!SNext
  <2>8. CASE AcceptThenFail
    <3>1. /\ connections' = connections
          /\ \A c \in Client : link'[c] = IF c = h THEN "closed" ELSE link[c]
      BY <1>0, <2>1, <2>8 DEF AcceptThenFail, Hangup, serverVars
    <3>2. \A c \in Client : c \in Ended' <=> c \in Ended \/ c = h
      BY <2>4, <2>6, <3>1
    <3>3. Ended' = Ended \cup {h}
      BY <2>4, <2>6, <3>2
    <3>4. Ended' = Ended \cup {Head(backlog)}
      BY <2>1, <3>3
    <3>5. Service!TurnAway
      <4>1. UNCHANGED <<running, connections, got>>
        BY <2>2, <3>1
      <4> QED
        BY <2>2, <2>3, <3>4, <4>1, Zenon DEF Service!TurnAway
    <3> QED
      BY <3>5 DEF Service!SNext
  <2> QED
    BY <1>3, <2>7, <2>8
<1> QED
  BY <1>1, <1>2, <1>3

LEMMA CallbackService ==
  ASSUME PlaceInv, NEW c \in Client, Callback(c)
  PROVE  [Service!SNext]_(Service!serviceVars)
<1>1. PICK e \in batch :
        /\ Delivers(e, c)
        /\ \/ OnError(c, e) \/ OnReadFailure(c, e) \/ OnReadMore(c, e)
           \/ OnRequest(c, e) \/ OnWriteFailure(c, e) \/ OnWriteMore(c, e)
           \/ OnWriteKeepAlive(c, e) \/ OnWriteClose(c, e) \/ OnIgnored(c, e)
  BY CallbackOf DEF PlaceInv
<1>2. c \in connections /\ IInv
  BY CallbackOf DEF PlaceInv
<1>3. CASE server_stop
  <2>1. running
    BY <1>2 DEF PlaceInv, Places
  <2> QED
    BY <1>3, <2>1, StopsService DEF Service!SNext
<1>4. CASE OnError(c, e) \/ OnReadFailure(c, e) \/ OnWriteFailure(c, e) \/ OnWriteClose(c, e)
  <2>1. Drop({c}) /\ Hangup({c}) /\ UNCHANGED <<running, backlog, got>>
    BY <1>4 DEF OnError, OnReadFailure, OnWriteFailure, OnWriteClose, close_connection, Written
  <2>2. {c} \in SUBSET Client /\ Lost({c})
    BY <1>2, <2>1, ClosingLoses
  <2> QED
    BY <1>2, <2>1, <2>2, SessionsEnd
<1>5. CASE /\ ~server_stop
           /\ \/ OnReadMore(c, e) \/ OnRequest(c, e) \/ OnWriteMore(c, e)
              \/ OnWriteKeepAlive(c, e) \/ OnIgnored(c, e)
  <2>1. UNCHANGED <<running, backlog, connections, got, link>>
    BY <1>5 DEF OnReadMore, OnRequest, OnWriteMore, OnWriteKeepAlive, OnIgnored, Stay, Written, netVars
  <2> QED
    BY <2>1, Stutters
<1> QED
  BY <1>1, <1>3, <1>4, <1>5

LEMMA EnvironmentService ==
  ASSUME PlaceInv, FlowInv, FlowInv', IInv', Environment
  PROVE  [Service!SNext]_(Service!serviceVars)
<1>0. /\ connections \subseteq Client /\ backlog \in Seq(Client) /\ link \in [Client -> Links]
      /\ outq \in [Client -> Seq(Unit)] /\ got \in [Client -> Seq(Unit)] /\ IInv
  BY DEF PlaceInv, IInv, TypeOK
<1>1. CASE Tick
  BY <1>1, Stutters DEF Tick, netVars
<1>2. ASSUME NEW c \in Client, Send(c) \/ ClientClose(c) \/ ClientReset(c)
      PROVE  [Service!SNext]_(Service!serviceVars)
  <2>1. UNCHANGED <<running, backlog, connections, got>>
    BY <1>2 DEF Send, ClientClose, ClientReset, serverVars
  <2>2. \A d \in Client : link[d] = "none" <=> link'[d] = "none"
    BY <1>0, <1>2 DEF Send, ClientClose, ClientReset
  <2> QED
    BY <2>1, <2>2, Stutters
<1>3. ASSUME NEW c \in Client, Connect(c) PROVE [Service!SNext]_(Service!serviceVars)
  <2>1. /\ link[c] = "none" /\ running /\ link' = [link EXCEPT ![c] = "up"]
        /\ backlog' = Append(backlog, c) /\ UNCHANGED <<running, connections, got>>
    BY <1>3 DEF Connect, serverVars, PlaceInv, Places
  <2>2. c \notin connections /\ ~InBacklog(c)
    BY <1>0, <2>1 DEF IInv, QueueApart, InBacklog
  <2>3. c \notin Service!Waiting \cup connections \cup Ended
    BY <2>1, <2>2, Apart
  <2>4. \A d \in Client : InBacklog(d)' <=> InBacklog(d) \/ d = c
    <3>1. /\ \A i \in DOMAIN backlog' : backlog'[i] = c \/ (i \in DOMAIN backlog /\ backlog'[i] = backlog[i])
          /\ \A i \in DOMAIN backlog : i \in DOMAIN backlog' /\ backlog'[i] = backlog[i]
          /\ Len(backlog) + 1 \in DOMAIN backlog' /\ backlog'[Len(backlog) + 1] = c
      BY <1>0, <2>1
    <3> QED
      BY <3>1 DEF InBacklog
  <2>5. /\ Ended \subseteq Client /\ Ended' \subseteq Client
        /\ \A d \in Client : (d \in Ended <=> link[d] # "none" /\ d \notin connections /\ ~InBacklog(d))
        /\ \A d \in Client : (d \in Ended' <=> link'[d] # "none" /\ d \notin connections' /\ ~InBacklog(d)')
    BY DEF Ended, InBacklog
  <2>6. \A d \in Client : d \in Ended' <=> d \in Ended
    BY <1>0, <2>1, <2>4, <2>5
  <2>7. Ended' = Ended
    BY <2>5, <2>6
  <2>8. Service!Arrive(c)
    BY <2>1, <2>3, <2>7 DEF Service!Arrive
  <2> QED
    BY <2>8 DEF Service!SNext
<1>4. ASSUME NEW c \in Client, Receive(c) PROVE [Service!SNext]_(Service!serviceVars)
  <2>1. /\ link[c] \in {"up", "closed"} /\ outq[c] # <<>>
        /\ got' = [got EXCEPT ![c] = Append(@, Head(outq[c]))]
        /\ UNCHANGED <<link, running, backlog, connections>>
    BY <1>4 DEF Receive, serverVars
  <2>2. PICK r : r = Head(outq[c])
    OBVIOUS
  <2>3. r \in Unit /\ got'[c] = Append(got[c], r)
    <3>1. PICK o \in Seq(Unit) : o = outq[c]
      BY <1>0
    <3>2. Head(o) \in Unit
      BY <2>1, <3>1
    <3> QED
      BY <1>0, <2>1, <2>2, <3>1, <3>2
  <2>4. c \in connections \cup Ended
    BY <2>1, Apart DEF PlaceInv, Places
  <2>5. Ended' = Ended
    BY <2>1 DEF Ended
  <2>6. Blocks(got'[c])
    <3>1. PICK g, o, b : g = got'[c] /\ o = outq'[c] /\ b = conn'[c].send_buf
      OBVIOUS
    <3>2. g \in Seq(Unit) /\ o \in Seq(Unit) /\ b \in Seq(Unit)
      BY <3>1 DEF IInv, TypeOK, Conn
    <3>3. Blocks(Stream(c)')
      BY DEF FlowInv, AnswersOf, Blocks, Copied
    <3>4. Stream(c)' = Joined(g, o, b)
      BY <2>1, <3>1 DEF Stream, Joined
    <3>5. Blocks(Joined(g, o, b))
      BY <3>3, <3>4
    <3> QED
      BY <3>1, <3>2, <3>5, BlocksCut
  <2>7. Service!InOrder(Append(got[c], r))
    BY <2>3, <2>6, BlocksOrdered
  <2>8. Service!Read(c, r)
    BY <2>1, <2>2, <2>4, <2>5, <2>7 DEF Service!Read
  <2> QED
    BY <2>3, <2>8 DEF Service!SNext, Service!Unit, Unit
<1> QED
  BY <1>1, <1>2, <1>3, <1>4 DEF Environment

\* ServiceSpec: the callbacks of server.c, whatever the kernel and the clients
\* do between them, are the service's own steps or invisible to it: sessions
\* are admitted in arrival order within max_connections and never after
\* cwh_async_server_stop, end once, and clients read answers in order, each
\* whole unless it is longer than send_buf.
THEOREM ServiceImplemented == Spec => ServiceSpec
<1>1. Init => Service!SInit
  BY InitService
<1>2. PlaceInv /\ FlowInv /\ [Next]_vars => [Service!SNext]_(Service!serviceVars)
  <2> SUFFICES ASSUME PlaceInv, FlowInv, [Next]_vars
               PROVE  [Service!SNext]_(Service!serviceVars)
    OBVIOUS
  <2>1. CASE LoopStep
    BY <2>1, LoopService, CallbackService DEF LoopStep
  <2>2. CASE Stop
    BY <2>2, StopsService DEF Stop, Service!SNext
  <2>3. CASE Environment
    <3>1. FlowInv' /\ IInv'
      BY NextFlow, NextPlaces DEF PlaceInv
    <3> QED
      BY <2>3, <3>1, EnvironmentService
  <2>4. CASE UNCHANGED vars
    BY <2>4, Stutters DEF vars, serverVars, netVars
  <2> QED
    BY <2>1, <2>2, <2>3, <2>4 DEF Next
<1> QED
  BY <1>1, <1>2, FlowInvariance, PTL DEF Spec, ServiceSpec, Service!SSpec

================================================================================
