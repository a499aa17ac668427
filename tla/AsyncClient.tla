----------------------------- MODULE AsyncClient -----------------------------
(***************************************************************************)
(* The asynchronous HTTP client, src/src/async/client.c, over the epoll    *)
(* loop: requests run side by side on one thread, and the user's code runs *)
(* in their callbacks, where it may start further requests, some of which  *)
(* fail before the call returns.  `stack' holds the callbacks in progress; *)
(* a callback and the code that follows it are two steps, and the servers  *)
(* may act between them.                                                   *)
(*                                                                         *)
(* A request is ReqLen units.  A response is at least two pieces: 1, the   *)
(* status line; 2, the header fields and the blank line; the rest, the     *)
(* body.  Where its end is, and where the code takes it to be, are two     *)
(* things: `Reply' has both.  Each request has its own socket, named after *)
(* it.                                                                     *)
(***************************************************************************)
EXTENDS EventLoop, Sequences

CONSTANTS
  Req,          \* requests the program may start, each once
  App,          \* a file the program opens for itself and keeps open
  Host,         \* [Req -> hosts]
  Reply,        \* [Req -> Replies]: the response each is given
  ReplyField,   \* [Req -> [name, value : Seq(STRING)]]: what stands in recv_buf
                \* from the name, and from the value, of "Connection" on
  MaxPool,      \* pool->max_connections
  ReqLen,       \* length of a request, in units
  SndCap,       \* the kernel's send buffer, in units
  RecvCap,      \* sizeof(recv_buf) - 1, in pieces
  MayConnectNow \* whether connect may succeed before it returns

\* whole: its pieces; framing: how it marks its end.  The rest is what
\* response_complete makes of its text up to the first NUL.  finds: the first
\* field it recognises, spelled as the code spells it, wherever in the head;
\* length: the pieces which the number behind that field asks for; marks: the
\* pieces with which a 0 CRLF CRLF behind the head is complete, which is where
\* the last chunk ends, where a chunk's data or a size that ends in 0 look like
\* it, and nowhere if there is a trailer, or a NUL before.
Replies == [whole : Nat \ {0, 1}, framing : {"sized", "chunked", "until_close"},
            finds : {"length", "chunked", "nothing"}, length : Nat, marks : SUBSET Nat]

ASSUME ClientAssumption ==
  /\ IsFiniteSet(Req) /\ App \notin Req /\ NoFile \notin Req \cup {App}
  /\ DOMAIN Host = Req
  /\ Reply \in [Req -> Replies]
  /\ ReplyField \in [Req -> [name : Seq(STRING), value : Seq(STRING)]]
  /\ MaxPool \in Nat /\ ReqLen \in Nat \ {0}
  /\ SndCap \in Nat \ {0} /\ RecvCap \in Nat \ {0}
  /\ MayConnectNow \in BOOLEAN

VARIABLES
  status,       \* [Req -> Statuses]: "active" while on the active_requests list
  req,          \* [Req -> Request]: the request objects
  pool,         \* global_pool->connections, entries [of, fd, in_use, expired];
                \* `of' is the request that opened the socket
  active_count, \* global_pool->active_count
  stack,        \* callbacks in progress, innermost first: [req, keep]
  called,       \* [Req -> Seq([err, pieces])]: the calls of each callback
  app_fd,       \* the descriptor of App, -1 when it is not open
  link,         \* [Req -> Links]: the connection as the server sees it
  outq,         \* [Req -> Nat]: units in the socket's send buffer
  seen,         \* [Req -> Nat]: units the server has read
  inq,          \* [Req -> Nat]: pieces in the socket's receive buffer
  replied       \* [Req -> Nat]: pieces the server has sent

clientVars == <<status, req, pool, active_count, stack, called, app_fd>>
netVars    == <<link, outq, seen, inq, replied>>
vars       == <<loopVars, clientVars, netVars>>

Statuses == {"unused", "active", "freed"}
Links    == {"none", "syn", "up", "fin", "reset", "closed"}
States   == {"IDLE", "CONNECTING", "SENDING", "RECEIVING"}
Errors   == {"OK", "NET", "PARSE"}

\* unsent: send_len - send_offset; recv_len in pieces.
Request  == [fd : Fd \cup {-1}, state : States, unsent : 0 .. ReqLen, recv_len : 0 .. RecvCap]

\* alloc_request.
NewRequest == [fd |-> -1, state |-> "IDLE", unsent |-> 0, recv_len |-> 0]

Init ==
  /\ file = [fd \in Fd |-> NoFile] /\ interest = [fd \in Fd |-> {}]
  /\ handlers = {} /\ batch = {}
  /\ status = [r \in Req |-> "unused"] /\ req = [r \in Req |-> NewRequest]
  /\ pool = {} /\ active_count = 0
  /\ stack = <<>> /\ called = [r \in Req |-> <<>>] /\ app_fd = -1
  /\ link = [r \in Req |-> "none"]
  /\ outq = [r \in Req |-> 0] /\ seen = [r \in Req |-> 0]
  /\ inq = [r \in Req |-> 0] /\ replied = [r \in Req |-> 0]

-----------------------------------------------------------------------------
(* The kernel and the servers.                                             *)

Level ==
  [fd \in Fd |->
     IF file[fd] \notin Req THEN {}
     ELSE LET r == file[fd] IN
          {ev \in Events :
             \/ ev = READ  /\ (inq[r] > 0 \/ link[r] \in {"fin", "reset"})
             \/ ev = WRITE /\ (link[r] = "reset" \/ (link[r] \in {"up", "fin"} /\ outq[r] < SndCap))
             \/ ev = ERROR /\ link[r] = "reset"}]

ServerAccepts(r) ==
  /\ link[r] = "syn"
  /\ link' = [link EXCEPT ![r] = "up"]
  /\ UNCHANGED <<loopVars, clientVars, outq, seen, inq, replied>>

\* Also after it has closed its own direction, or what was sent is discarded.
ServerReads(r) ==
  /\ link[r] \in {"up", "fin"} /\ outq[r] > 0
  /\ outq' = [outq EXCEPT ![r] = @ - 1]
  /\ seen' = [seen EXCEPT ![r] = @ + 1]
  /\ UNCHANGED <<loopVars, clientVars, link, inq, replied>>

ServerReplies(r) ==
  /\ link[r] = "up" /\ seen[r] = ReqLen /\ replied[r] < Reply[r].whole
  /\ replied' = [replied EXCEPT ![r] = @ + 1]
  /\ inq' = [inq EXCEPT ![r] = @ + 1]
  /\ UNCHANGED <<loopVars, clientVars, link, outq, seen>>

\* At any time, with or without an answer.
ServerCloses(r) ==
  /\ link[r] = "up"
  /\ link' = [link EXCEPT ![r] = "fin"]
  /\ UNCHANGED <<loopVars, clientVars, outq, seen, inq, replied>>

\* A refused connect, or a reset later on.
ServerResets(r) ==
  /\ link[r] \in {"syn", "up", "fin"}
  /\ link' = [link EXCEPT ![r] = "reset"]
  /\ inq' = [inq EXCEPT ![r] = 0] /\ outq' = [outq EXCEPT ![r] = 0]
  /\ UNCHANGED <<loopVars, clientVars, seen, replied>>

\* idle_timeout seconds pass.
TimePasses ==
  /\ pool' = {[e EXCEPT !.expired = TRUE] : e \in pool}
  /\ UNCHANGED <<loopVars, status, req, active_count, stack, called, app_fd, netVars>>

-----------------------------------------------------------------------------
(* User code: in a callback, or outside the loop between two rounds of it. *)

UserRuns == stack # <<>> \/ batch = {}

\* The callback is called; what follows it is Return.
Call(r, err, pieces, keep) ==
  /\ stack'  = <<[req |-> r, keep |-> keep]>> \o stack
  /\ called' = [called EXCEPT ![r] = Append(@, [err |-> err, pieces |-> pieces])]

pool_get_connection(r) ==
  {e \in pool : ~e.in_use /\ Host[e.of] = Host[r] /\ ~e.expired}

\* pool_add_connection.  (Variant: the limit is not looked at.)
HasRoomAlways == TRUE
HasRoom == active_count < MaxPool

pool_add_connection(r, fd) ==
  IF HasRoom
  THEN /\ pool' = pool \cup {[of |-> r, fd |-> fd, in_use |-> TRUE, expired |-> FALSE]}
       /\ active_count' = active_count + 1
  ELSE UNCHANGED <<pool, active_count>>

\* The URL does not parse, the name does not resolve, memory or descriptors
\* are out: the callback is called before cwh_async_request returns.
FailsEarly(r) ==
  /\ req' = [req EXCEPT ![r] = NewRequest]
  /\ Call(r, "NET", 0, FALSE)
  /\ UNCHANGED <<file, interest, handlers, pool, active_count, link>>

\* connect fails at once: the socket is closed, its pool entry stays.
FailsToConnect(r, fd) ==
  /\ pool_add_connection(r, fd)
  /\ req' = [req EXCEPT ![r] = NewRequest]
  /\ Call(r, "NET", 0, FALSE)
  /\ UNCHANGED <<file, interest, handlers, link>>

\* connect is under way, or done, and the loop takes the descriptor or not.
\* format_request is only called once a connect under way has completed.
Connects(r, fd, state) ==
  /\ pool_add_connection(r, fd)
  /\ file' = [file EXCEPT ![fd] = r]
  /\ req' = [req EXCEPT ![r] = [NewRequest EXCEPT !.fd = fd, !.state = state]]
  /\ link' = [link EXCEPT ![r] = IF state = "CONNECTING" THEN "syn" ELSE "up"]
  /\ \/ /\ CanAdd(fd)
        /\ cwh_loop_add(fd, IF state = "CONNECTING" THEN {WRITE} ELSE {READ, WRITE}, r)
        /\ UNCHANGED <<stack, called>>
     \/ /\ Call(r, "NET", 0, FALSE)
        /\ UNCHANGED <<interest, handlers>>

\* The loop still has the entry of the request that used the connection last,
\* so cwh_loop_add fails.
Reuses(r, e) ==
  /\ pool' = (pool \ {e}) \cup {[e EXCEPT !.in_use = TRUE, !.expired = FALSE]}
  /\ req' = [req EXCEPT ![r] = [NewRequest EXCEPT !.fd = e.fd, !.state = "SENDING"]]
  /\ Call(r, "NET", 0, FALSE)
  /\ UNCHANGED <<file, interest, handlers, active_count, link>>

cwh_async_request(r) ==
  /\ UserRuns /\ status[r] = "unused"
  /\ status' = [status EXCEPT ![r] = "active"]
  /\ \/ FailsEarly(r)
     \/ \E e \in pool_get_connection(r) : Reuses(r, e)
     \/ /\ pool_get_connection(r) = {}
        /\ \E fd \in Fd :
             /\ IsNextFd(fd)
             /\ \/ FailsToConnect(r, fd)
                \/ Connects(r, fd, "CONNECTING")
                \/ MayConnectNow /\ Connects(r, fd, "SENDING")
  /\ UNCHANGED <<batch, app_fd, outq, seen, inq, replied>>

\* close, without cwh_loop_del, on the descriptors of a set of entries, whoever
\* has them now.
ClosesPooled(entries) ==
  LET fds == {e.fd : e \in entries} IN
    /\ file' = Closed(fds)
    /\ interest' = [fd \in Fd |-> IF fd \in fds THEN {} ELSE interest[fd]]
    /\ link' = [r \in Req |-> IF \E fd \in fds : file[fd] = r THEN "closed" ELSE link[r]]
    /\ UNCHANGED <<handlers, batch, status, req, stack, called, app_fd, outq, seen, inq, replied>>

\* pool_cleanup_expired.  (Variant: in_use is not looked at.)
OldEntries == {e \in pool : e.expired}
IdleEntries == {e \in pool : ~e.in_use /\ e.expired}

cwh_async_pool_cleanup ==
  /\ UserRuns
  /\ ClosesPooled(IdleEntries)
  /\ pool' = pool \ IdleEntries
  /\ active_count' = active_count - Cardinality(IdleEntries)

\* A program shuts the pool down when it is through with its requests, as
\* examples/async_client_pool.c does.  The next request makes a new pool.
cwh_async_pool_shutdown ==
  /\ UserRuns /\ \A r \in Req : status[r] # "active"
  /\ ClosesPooled(pool)
  /\ pool' = {} /\ active_count' = 0

AppOpens ==
  /\ UserRuns /\ app_fd = -1
  /\ \E fd \in Fd : /\ IsNextFd(fd)
                    /\ file' = [file EXCEPT ![fd] = App] /\ app_fd' = fd
  /\ UNCHANGED <<interest, handlers, batch, status, req, pool, active_count, stack,
                 called, netVars>>

-----------------------------------------------------------------------------
(* The callback returns: pool_return_connection, cleanup_request.          *)

\* (Variants: the request is not taken off the list; its entry stays.)
StillListed(r) == status
Unlisted(r) == [status EXCEPT ![r] = "freed"]

PoolReturned(r) ==
  {IF e.of = r THEN [e EXCEPT !.in_use = FALSE, !.expired = FALSE] ELSE e : e \in pool}

Return ==
  /\ stack # <<>>
  /\ stack' = Tail(stack)
  /\ LET r == Head(stack).req IN
       /\ IF Head(stack).keep /\ \E e \in pool : e.of = r
          THEN /\ pool' = PoolReturned(r)
               /\ UNCHANGED <<file, interest, handlers, link, inq, outq>>
          ELSE /\ DelAndClose({req[r].fd})
               /\ link' = [link EXCEPT ![r] = IF req[r].fd = -1 THEN @ ELSE "closed"]
               /\ inq' = [inq EXCEPT ![r] = 0] /\ outq' = [outq EXCEPT ![r] = 0]
               /\ UNCHANGED pool
       /\ status' = Unlisted(r)
       /\ req' = [req EXCEPT ![r] = NewRequest]
  /\ UNCHANGED <<batch, active_count, called, app_fd, seen, replied>>

-----------------------------------------------------------------------------
(* async_request_event_handler.                                            *)

Fails(r) == Call(r, "NET", 0, FALSE) /\ UNCHANGED <<interest, handlers, req, netVars>>

OnError(r, e) == ERROR \in e.events /\ Fails(r)

\* send until all is sent or EAGAIN; all sent switches to receiving.
Fits(r, unsent) == IF unsent < SndCap - outq[r] THEN unsent ELSE SndCap - outq[r]

\* (Variant: EAGAIN counts as an error.)
SendErrorOrEagain(r, unsent) == link[r] = "reset" \/ Fits(r, unsent) < unsent
SendError(r, unsent) == link[r] = "reset"

send_request_data(r, unsent) ==
  LET n == Fits(r, unsent) IN
    /\ outq' = [outq EXCEPT ![r] = @ + n]
    /\ IF n = unsent
       THEN /\ req' = [req EXCEPT ![r].state = "RECEIVING", ![r].unsent = 0]
            /\ cwh_loop_mod(req[r].fd, {READ})
       ELSE /\ req' = [req EXCEPT ![r].state = "SENDING", ![r].unsent = unsent - n]
            /\ UNCHANGED <<interest, handlers>>
    /\ UNCHANGED <<stack, called, link, seen, inq, replied>>

\* format_request makes the request when the connect has completed.
OnWritable(r, e) ==
  /\ ERROR \notin e.events /\ WRITE \in e.events
  /\ req[r].state \in {"CONNECTING", "SENDING"}
  /\ LET unsent == IF req[r].state = "CONNECTING" THEN ReqLen ELSE req[r].unsent IN
       IF SendError(r, unsent) THEN Fails(r) ELSE send_request_data(r, unsent)

\* Not all that is framed otherwise is recognised: what is not is complete
\* with its head.  (Variant: everything is.)
HeadComplete(r, len) == len >= 2
response_complete(r, len) ==
  /\ len >= 2
  /\ Reply[r].finds = "length" => len >= Reply[r].length
  /\ Reply[r].finds = "chunked" => \E m \in Reply[r].marks : m <= len

\* A C string ends at the first NUL.
CString(s) ==
  IF \E i \in DOMAIN s : s[i] = "NUL"
  THEN SubSeq(s, 1, (CHOOSE i \in DOMAIN s : s[i] = "NUL" /\ \A j \in 1 .. i - 1 : s[j] # "NUL") - 1)
  ELSE s

\* cwh_parse_res leaves names and values as they stand in the buffer.
should_keep_alive(r) ==
  CString(ReplyField[r].name) = <<"connection">> /\ CString(ReplyField[r].value) = <<"keep-alive">>

OnReadable(r, e) ==
  /\ ERROR \notin e.events /\ READ \in e.events
  /\ req[r].state = "RECEIVING"
  /\ LET room == RecvCap - req[r].recv_len
         n    == IF inq[r] < room THEN inq[r] ELSE room
         len  == req[r].recv_len + n
     IN  IF link[r] = "reset" THEN Fails(r)
         ELSE /\ inq' = [inq EXCEPT ![r] = @ - n]
              /\ req' = [req EXCEPT ![r].recv_len = len]
              /\ IF response_complete(r, len) \/ len = RecvCap \/ link[r] = "fin"
                 THEN Call(r, IF len = 0 THEN "PARSE" ELSE "OK", len,
                              len >= 2 /\ should_keep_alive(r))
                 ELSE UNCHANGED <<stack, called>>
              /\ UNCHANGED <<interest, handlers, link, outq, seen, replied>>

OnIgnored(r, e) ==
  /\ ERROR \notin e.events
  /\ IF req[r].state = "RECEIVING" THEN READ \notin e.events ELSE WRITE \notin e.events
  /\ UNCHANGED <<interest, handlers, req, stack, called, netVars>>

Callback(r) ==
  /\ stack = <<>>
  /\ \E e \in batch :
       /\ Delivers(e, r) /\ Consume(e)
       /\ OnError(r, e) \/ OnWritable(r, e) \/ OnReadable(r, e) \/ OnIgnored(r, e)
  /\ UNCHANGED <<file, status, pool, active_count, app_fd>>

Wait == stack = <<>> /\ epoll_wait(Level) /\ UNCHANGED <<clientVars, netVars>>

-----------------------------------------------------------------------------
User == \/ \E r \in Req : cwh_async_request(r)
        \/ cwh_async_pool_cleanup
        \/ cwh_async_pool_shutdown
        \/ AppOpens

Loop == Wait \/ \E r \in Req : Callback(r)

Server(r) == \/ ServerAccepts(r)
             \/ ServerReads(r)
             \/ ServerReplies(r)

Next == \/ User
        \/ Loop
        \/ Return
        \/ TimePasses
        \/ \E r \in Req : Server(r) \/ ServerCloses(r) \/ ServerResets(r)

Spec == Init /\ [][Next]_vars

\* The loop runs, callbacks return, and the servers answer or go away.
FairSpec == Spec /\ WF_vars(Loop) /\ WF_vars(Return) /\ \A r \in Req : WF_vars(Server(r))

-----------------------------------------------------------------------------
(* Properties.                                                             *)

\* Every variable stays in its range.
TypeOK ==
  /\ file \in [Fd -> Req \cup {App, NoFile}]
  /\ interest \in [Fd -> SUBSET Events]
  /\ handlers \subseteq [fd : Fd, events : SUBSET Events, data : Req]
  /\ batch \subseteq [fd : Fd, events : SUBSET Events, sock : Req]
  /\ status \in [Req -> Statuses] /\ req \in [Req -> Request]
  /\ pool \subseteq [of : Req, fd : Fd, in_use : BOOLEAN, expired : BOOLEAN]
  /\ active_count \in 0 .. MaxPool
  /\ stack \in Seq([req : Req, keep : BOOLEAN])
  /\ called \in [Req -> Seq([err : Errors, pieces : Nat])]
  /\ app_fd \in Fd \cup {-1}
  /\ link \in [Req -> Links]
  /\ outq \in [Req -> 0 .. SndCap] /\ seen \in [Req -> 0 .. ReqLen]
  /\ inq \in [Req -> Nat] /\ replied \in [Req -> Nat]
  /\ \A r \in Req : inq[r] <= replied[r] /\ replied[r] <= Reply[r].whole

InCallback(r) == \E i \in DOMAIN stack : stack[i].req = r

\* The callback of a request that started is called once: not before the
\* outcome is known, not again by an event of the same batch or by a request
\* nested in it, and always before the request is freed.
CalledOnce ==
  \A r \in Req :
    /\ status[r] = "unused" => called[r] = <<>>
    /\ status[r] = "active" => Len(called[r]) = (IF InCallback(r) THEN 1 ELSE 0)
    /\ status[r] = "freed"  => Len(called[r]) = 1 /\ ~InCallback(r)

\* The loop never calls back a request that has been freed, and a request that
\* waits for the loop is registered with it, under its own descriptor and for
\* the events its state needs.
Awaited(r) == IF req[r].state = "RECEIVING" THEN READ ELSE WRITE
HandlersLive ==
  /\ \A h \in handlers : status[h.data] = "active" /\ req[h.data].fd = h.fd
  /\ \A r \in Req : status[r] = "active" /\ ~InCallback(r) =>
       \E h \in handlers : h.data = r /\ Awaited(r) \in h.events /\ interest[h.fd] = h.events

\* An event in the batch is delivered to the request it was reported for,
\* although requests end, and others take their descriptors, within a batch.
EventsFresh == \A e \in batch : Delivers(e, e.sock) /\ file[e.fd] = e.sock

\* A socket is open as long as its request holds its descriptor, and no longer.
SocketsOwned ==
  \A fd \in Fd, r \in Req : file[fd] = r <=> status[r] = "active" /\ req[r].fd = fd

\* What the callback gets as a success is a whole response to the whole
\* request, unless the server closed early, the buffer is full, or the code
\* does not see the end where it is: it recognises neither field, or there is a
\* 0 CRLF CRLF before the last chunk's, or the length falls short.
Outcome(r) == called'[r][1]
FromLoop(r) == status[r] = "active" /\ called[r] = <<>> /\ called'[r] # <<>>
EndSeen(r) ==
  \/ Reply[r].finds = "length" /\ Reply[r].length >= Reply[r].whole
  \/ Reply[r].finds = "chunked" /\ \A m \in Reply[r].marks : m >= Reply[r].whole
OkIsWhole ==
  [][\A r \in Req : FromLoop(r) /\ Outcome(r).err = "OK" =>
        \/ Outcome(r).pieces = Reply[r].whole /\ seen[r] = ReqLen
        \/ Outcome(r).pieces >= 2 /\ ~EndSeen(r)
        \/ Outcome(r).pieces = RecvCap
        \/ link[r] = "fin"]_vars

\* A request that got as far as the loop fails only if its own connection did,
\* whatever happened to those that had its descriptor before.
FailuresReal ==
  [][\A r \in Req : FromLoop(r) =>
       /\ Outcome(r).err = "NET" => link[r] = "reset"
       /\ Outcome(r).err = "PARSE" => link[r] = "fin"]_vars

\* A request that had to wait for its connect is answered: the interest set
\* follows it through connecting, sending and receiving, and its callback is
\* called in the end.  (One whose connect succeeds at once never is: it enters
\* SENDING with nothing to send.  One whose response has no end that the code
\* recognises, and does not fill the buffer, waits for the server to close.)
Answerable(r) == response_complete(r, Reply[r].whole) \/ Reply[r].whole >= RecvCap
Answered ==
  \A r \in {q \in Req : Answerable(q)} :
    (status[r] = "active" /\ req[r].state = "CONNECTING") ~> status[r] = "freed"

\* Shutting the pool down leaves the program's other descriptors alone.
ShutdownOwnsWhatItCloses == app_fd # -1 => file[app_fd] = App

=============================================================================
