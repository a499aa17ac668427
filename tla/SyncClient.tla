----------------------------- MODULE SyncClient -----------------------------
(***************************************************************************)
(* The synchronous client and server of src/src/cwebhttp.c: cwh_get and    *)
(* the other one-line calls with their redirects and timeouts, the pool of *)
(* connections they share, and cwh_run, which accepts one connection at a  *)
(* time, receives once, answers and closes.  A host of OwnHost is served   *)
(* by cwh_run, any other by a server that keeps connections alive.         *)
(*                                                                         *)
(* One thread makes one call at a time.  What it meets on a connection is  *)
(* what earlier calls and the server have left there: `outbox' holds what  *)
(* the client has sent and the server not read, `inbox' the reverse.  Both *)
(* are sequences of pieces, the head and the body of a request or of an    *)
(* answer, so that either may arrive without the other.                    *)
(***************************************************************************)
EXTENDS Integers, Sequences, FiniteSets

CONSTANTS
  Host, OwnHost,   \* the hosts, and those served by cwh_run
  Conn,            \* sockets the client may have
  Rival,           \* other clients of an own host: they connect and are silent
  NoConn,
  Plans,           \* sequences of calls the program may make
  Location,        \* [path -> Location values a server may redirect to, or NoLocation]
  NoLocation,      \* a response without the field
  Tails,           \* what may follow a Location value in its response
  Mangled,         \* a path that begins in the middle of another URL
  MaxPool,         \* CWH_POOL_MAX_CONNECTIONS
  MaxRedirects     \* CWH_MAX_REDIRECTS

(***************************************************************************)
(* A URL as the code holds it: a string that may run on beyond its end.    *)
(* `query' says that a "?" follows the path, `tail' what runs on: nothing  *)
(* in the URL of a call, the rest of the response in a Location value,     *)
(* which nothing terminates (cwh_parse_res).                               *)
(***************************************************************************)
Url(h, p, q, t) == [host |-> h, path |-> p, query |-> q, tail |-> t]
Locations == [kind : {"absolute", "relative"}, host : Host, path : STRING, query : BOOLEAN]
Calls     == [url : [host : Host, path : STRING, query : BOOLEAN, tail : {<<>>}],
              method : {"GET", "POST"}]

ASSUME SyncAssumption ==
  /\ OwnHost \subseteq Host /\ Host # {}
  /\ Conn \cap Rival = {} /\ NoConn \notin Conn \cup Rival
  /\ Plans \subseteq Seq(Calls) /\ Tails \subseteq STRING /\ Mangled \in STRING
  /\ \A p \in DOMAIN Location : Location[p] \subseteq Locations \cup {NoLocation}
  /\ MaxPool \in Nat /\ MaxRedirects \in Nat \ {0}

VARIABLES
  alive,        \* the client's process runs: no SIGPIPE has ended it
  call,         \* the call under way: the locals of cwh_request_simple
  todo,         \* the calls the program has yet to make
  pool,         \* g_connection_pool, its head first
  g_pool_size,
  keep_alive,   \* [Conn -> BOOLEAN]: conn->keep_alive
  host,         \* [Conn -> Host]: conn->host
  old,          \* pooled connections used last longer ago than the idle time
  link,         \* [Conn \cup Rival -> Links]: the TCP connection
  inbox,        \* [Conn -> Seq(answer piece)]
  outbox,       \* [Conn -> Seq(request piece)]
  due,          \* [Conn -> Seq(answer piece)]: what a server has yet to send
  backlog,      \* the listening socket's queue at the own hosts' server
  client_sock,  \* cwh_run's: the connection it serves
  answered,     \* whether it has read from it
  unsettled     \* connections given back with an exchange not complete

poolVars   == <<pool, g_pool_size, old>>
connVars   == <<keep_alive, host>>
callVars   == <<alive, call, todo, unsettled>>
serverVars == <<backlog, client_sock, answered>>
netVars    == <<link, inbox, outbox, due>>
vars       == <<poolVars, connVars, callVars, serverVars, netVars>>

\* The server has closed ("fin"), or its kernel refuses what comes ("reset");
\* the client has closed and cwh_run has yet to see it ("left").
Links == {"none", "up", "fin", "reset", "left"}

Idle  == [phase |-> "idle"]

\* current_body is NULL once the method has changed.
HasBody == call.method = "POST"

Request(part) == [call |-> Len(todo), hop |-> call.redirect_count, url |-> call.url,
                  body |-> HasBody, part |-> part]
\* The head of an answer, and what follows it.
Answer(req, status, loc, close) ==
  [req |-> req, part |-> "head", status |-> status, location |-> loc, close |-> close]
Rest(req) == [req |-> req, part |-> "rest"]

Init ==
  /\ alive = TRUE /\ call = Idle /\ todo \in Plans
  /\ pool = <<>> /\ g_pool_size = 0 /\ old = {} /\ unsettled = {}
  /\ keep_alive = [c \in Conn |-> FALSE] /\ host = [c \in Conn |-> CHOOSE h \in Host : TRUE]
  /\ link = [c \in Conn \cup Rival |-> "none"]
  /\ inbox = [c \in Conn |-> <<>>] /\ outbox = [c \in Conn |-> <<>>]
  /\ due = [c \in Conn |-> <<>>]
  /\ backlog = <<>> /\ client_sock = NoConn /\ answered = FALSE

-----------------------------------------------------------------------------
(* The connection pool.                                                    *)

\* The client closes the sockets of C.  cwh_run still reads what was sent.
Lingers(c) == host[c] \in OwnHost /\ link[c] = "up"
Hangup(C) ==
  /\ link' = [c \in Conn \cup Rival |-> IF c \notin C THEN link[c]
                                        ELSE IF Lingers(c) THEN "left" ELSE "none"]
  /\ inbox' = [c \in Conn |-> IF c \in C THEN <<>> ELSE inbox[c]]
  /\ due' = [c \in Conn |-> IF c \in C THEN <<>> ELSE due[c]]
  /\ outbox' = [c \in Conn |-> IF c \in C /\ ~Lingers(c) THEN <<>> ELSE outbox[c]]

\* What stays in the pool without those of C keeps its order.
Unpooled(C) ==
  LET stay    == {i \in DOMAIN pool : pool[i] \notin C}
      rank(i) == Cardinality({j \in stay : j <= i})
  IN  [n \in 1 .. Cardinality(stay) |-> pool[CHOOSE i \in stay : rank(i) = n]]

\* (Variant: the host is not compared.)
MatchesAny(h) == DOMAIN pool
Matches(h) == {i \in DOMAIN pool : host[pool[i]] = h}
Fresh(h)   == {i \in Matches(h) : pool[i] \notin old}
\* cwh_pool_get takes the first connection to the host that is not too old ...
Found(h) == pool[CHOOSE i \in Fresh(h) : \A j \in Fresh(h) : i <= j]
\* ... and closes those it meets on the way that are.
Expired(h) == {pool[i] : i \in {k \in Matches(h) \ Fresh(h) : \A j \in Fresh(h) : k < j}}

\* (Variant: a connection taken out is still counted.)
SizeUntaken(C) == g_pool_size
SizeWithout(C) == g_pool_size - Cardinality(C)

PoolWithout(C) ==
  /\ pool' = Unpooled(C) /\ g_pool_size' = SizeWithout(C) /\ old' = old \ C

\* cwh_close, cwh_pool_return: into the pool; or closed, because the connection
\* is not kept or there is no room.  ka is its keep_alive, left what is unread.
\* (Variant: there always is.)
MayPoolAlways(ka) == ka
MayPool(ka) == ka /\ g_pool_size < MaxPool
cwh_close(c, ka, left) ==
  \/ /\ MayPool(ka)
     /\ pool' = <<c>> \o pool /\ g_pool_size' = g_pool_size + 1 /\ old' = old \ {c}
     /\ inbox' = [inbox EXCEPT ![c] = left]
     /\ UNCHANGED <<link, outbox, due>>
  \/ /\ ~MayPool(ka)
     /\ Hangup({c}) /\ UNCHANGED poolVars

\* Between calls: time passes for the connections used least lately, and the
\* program may empty the pool.
Age ==
  /\ alive /\ call = Idle
  /\ \E k \in DOMAIN pool : /\ pool[k] \notin old
                            /\ old' = old \cup {pool[i] : i \in k .. Len(pool)}
  /\ UNCHANGED <<pool, g_pool_size, connVars, callVars, serverVars, netVars>>

cwh_pool_cleanup ==
  /\ alive /\ call = Idle /\ pool # <<>>
  /\ Hangup({pool[i] : i \in DOMAIN pool})
  /\ pool' = <<>> /\ g_pool_size' = 0 /\ old' = {}
  /\ UNCHANGED <<connVars, callVars, serverVars>>

-----------------------------------------------------------------------------
(* A call: cwh_request_simple.                                             *)

\* A step of the call in this phase.
In(phase) == alive /\ call.phase = phase
Go(phase) == call' = [call EXCEPT !.phase = phase]

\* The error is the program's to see; nothing in the library depends on it.
Return(err) == call' = Idle

Begin ==
  /\ In("idle") /\ todo # <<>>
  /\ call' = [phase |-> "connect", url |-> Head(todo).url, method |-> Head(todo).method,
              redirect_count |-> 0, visited |-> {}, conn |-> NoConn]
  /\ todo' = Tail(todo)
  /\ UNCHANGED <<alive, unsettled, poolVars, connVars, serverVars, netVars>>

\* cwh_connect finds a connection in the pool.
Reuse ==
  /\ In("connect") /\ Fresh(call.url.host) # {}
  /\ LET c == Found(call.url.host) IN
       /\ call' = [call EXCEPT !.phase = "send", !.conn = c]
       /\ PoolWithout(Expired(call.url.host) \cup {c})
  /\ Hangup(Expired(call.url.host))
  /\ UNCHANGED <<alive, todo, unsettled, connVars, serverVars>>

\* It finds none and connects, or (no address, a timeout, no TLS) does not.
Open ==
  /\ In("connect") /\ Fresh(call.url.host) = {}
  /\ LET gone == Expired(call.url.host) IN
     \E c \in Conn :
       /\ link[c] = "none"
       /\ PoolWithout(gone)
       /\ call' = [call EXCEPT !.phase = "send", !.conn = c]
       /\ host' = [host EXCEPT ![c] = call.url.host]
       /\ keep_alive' = [keep_alive EXCEPT ![c] = FALSE]
       /\ unsettled' = unsettled \ {c}
       /\ link' = [d \in Conn \cup Rival |->
                     IF d = c THEN "up" ELSE IF d \notin gone THEN link[d]
                     ELSE IF Lingers(d) THEN "left" ELSE "none"]
       /\ inbox' = [d \in Conn |-> IF d \in gone \cup {c} THEN <<>> ELSE inbox[d]]
       /\ outbox' = [d \in Conn |-> IF d \in gone /\ ~Lingers(d) THEN <<>> ELSE outbox[d]]
       /\ due' = [d \in Conn |-> IF d \in gone THEN <<>> ELSE due[d]]
       /\ backlog' = IF call.url.host \in OwnHost THEN Append(backlog, c) ELSE backlog
  /\ UNCHANGED <<alive, todo, client_sock, answered>>

OpenFails ==
  /\ In("connect") /\ Fresh(call.url.host) = {}
  /\ Return("NET")
  /\ PoolWithout(Expired(call.url.host)) /\ Hangup(Expired(call.url.host))
  /\ UNCHANGED <<alive, todo, unsettled, connVars, serverVars>>

\* send_with_timeout of the head, and then of the body.
SendPhase(part) == In(IF part = "head" THEN "send" ELSE "body")
AfterSend(part) == IF part = "head" /\ HasBody THEN "body" ELSE "read"

Send(part) ==
  /\ SendPhase(part) /\ link[call.conn] = "up"
  /\ outbox' = [outbox EXCEPT ![call.conn] = Append(@, Request(part))]
  /\ Go(AfterSend(part))
  /\ UNCHANGED <<alive, todo, unsettled, poolVars, connVars, serverVars, link, inbox, due>>

\* The server has closed its end and refuses what is sent, now or later.
SendRefused(part) ==
  /\ SendPhase(part) /\ link[call.conn] = "fin"
  /\ Go(AfterSend(part))
  /\ \E l \in {"fin", "reset"} : link' = [link EXCEPT ![call.conn] = l]
  /\ UNCHANGED <<alive, todo, unsettled, poolVars, connVars, serverVars, inbox, outbox, due>>

\* The connection goes back to the pool, or not, with the exchange incomplete.
Fail(err) ==
  /\ Return(err)
  /\ cwh_close(call.conn, keep_alive[call.conn], inbox[call.conn])
  /\ unsettled' = unsettled \cup {call.conn}
  /\ UNCHANGED <<alive, todo, connVars, serverVars>>

\* send says so, or the body does not fit the socket for five seconds.
SendFails ==
  \/ In("send") /\ link[call.conn] = "reset" /\ Fail("TIMEOUT")
  \/ In("body") /\ (link[call.conn] = "reset" \/ outbox[call.conn] # <<>>) /\ Fail("TIMEOUT")

\* send raises SIGPIPE, which nothing handles.
Killed ==
  /\ alive /\ call.phase \in {"send", "body"} /\ link[call.conn] = "reset"
  /\ alive' = FALSE
  /\ Hangup({call.conn} \cup {pool[i] : i \in DOMAIN pool})
  /\ UNCHANGED <<call, todo, unsettled, poolVars, connVars, serverVars>>

\* recv_with_timeout and recv, when there is nothing to read.
\* (Variant: it waits for ever.)
NeverTimesOut(c) == FALSE
TimesOut(c) == link[c] = "up"

ReadNothing ==
  /\ In("read") /\ inbox[call.conn] = <<>>
  /\ \/ TimesOut(call.conn) /\ Fail("TIMEOUT")
     \/ link[call.conn] = "fin" /\ Fail("NET")
     \/ link[call.conn] = "reset" /\ \E err \in {"TIMEOUT", "NET"} : Fail(err)

\* What is read does not begin with the head of an answer.
ReadGarbage ==
  /\ In("read") /\ inbox[call.conn] # <<>> /\ Head(inbox[call.conn]).part # "head"
  /\ Return("PARSE")
  /\ cwh_close(call.conn, keep_alive[call.conn], <<>>)
  /\ unsettled' = unsettled \cup {call.conn}
  /\ UNCHANGED <<alive, todo, connVars, serverVars>>

\* The redirect_url_buf made of a Location value, tail and all.  A relative one
\* is put after scheme, host and port, which run on to the end of the URL too,
\* so that the old path, its query or what is left of both come first.  The
\* second one of a call is put together in the buffer it is read from, which
\* comes to the same with the C library's snprintf.
RedirectUrl(loc, tail) ==
  IF loc.kind = "absolute" THEN Url(loc.host, loc.path, loc.query, <<tail>>)
  ELSE Url(call.url.host, IF call.url.query THEN call.url.path ELSE Mangled,
           call.url.query \/ loc.query, call.url.tail \o <<loc.path, tail>>)

\* 302 and 303 make a GET of a POST, 307 and 308 do not.
get_redirect_method(status) == IF status = "moved" THEN "GET" ELSE call.method

\* (Variant: the URL just visited is not looked at.)
SeenBefore(u) == u \in call.visited
Seen(u) == u \in call.visited \cup {call.url}

\* Whether the server keeps the connection: the value of its Connection field
\* is never the one compared with, because it runs on as well.
KeepAliveAfter(res) == TRUE

\* cwh_read_res takes what is there for the answer; then the redirect loop.
Redirect(res) ==
  \/ res.location = NoLocation /\ Return("PARSE")
  \/ /\ res.location # NoLocation
     /\ \E tail \in Tails :
          LET u == RedirectUrl(res.location, tail) IN
            IF Seen(u) \/ call.redirect_count + 1 = MaxRedirects
            THEN Return("PARSE")
            ELSE call' = [call EXCEPT
                            !.phase = "connect", !.url = u, !.conn = NoConn,
                            !.method = get_redirect_method(res.status),
                            !.redirect_count = @ + 1, !.visited = @ \cup {call.url}]

Read ==
  /\ In("read") /\ inbox[call.conn] # <<>> /\ Head(inbox[call.conn]).part = "head"
  /\ LET c   == call.conn
         res == Head(inbox[c])
     IN  /\ keep_alive' = [keep_alive EXCEPT ![c] = KeepAliveAfter(res)]
         /\ cwh_close(c, KeepAliveAfter(res), <<>>)
         /\ unsettled' = IF outbox[c] = <<>> /\ due[c] = <<>>
                         THEN unsettled \ {c} ELSE unsettled \cup {c}
         /\ \/ res.status \notin {"moved", "kept"} /\ Return("OK")
            \/ res.status \in {"moved", "kept"} /\ Redirect(res)
  /\ UNCHANGED <<alive, todo, host, serverVars>>

ClientStep ==
  \/ Reuse
  \/ Open
  \/ OpenFails
  \/ \E part \in {"head", "body"} : Send(part) \/ SendRefused(part)
  \/ SendFails
  \/ Killed
  \/ ReadNothing
  \/ ReadGarbage
  \/ Read

-----------------------------------------------------------------------------
(* A server that keeps connections alive and answers requests in order.    *)

\* A request line holds when the path ends where the URL does, or at its query.
WellFormed(url) == url.query \/ url.tail = <<>>

Respond(c) ==
  /\ host[c] \notin OwnHost /\ link[c] = "up" /\ outbox[c] # <<>> /\ due[c] = <<>>
  /\ LET req == Head(outbox[c])
         n   == IF req.body THEN 2 ELSE 1
         to  == IF req.url.path \in DOMAIN Location THEN Location[req.url.path] ELSE {}
     IN  /\ Len(outbox[c]) >= n
         /\ \E status \in IF ~WellFormed(req.url) THEN {"bad"}
                          ELSE IF to = {} THEN {"page"} ELSE {"moved", "kept"},
               loc \in IF WellFormed(req.url) /\ to # {} THEN to ELSE {NoLocation},
               close \in BOOLEAN, late \in BOOLEAN :
              /\ late => ~close
              /\ inbox' = [inbox EXCEPT ![c] = @ \o <<Answer(req, status, loc, close)>>
                                                 \o (IF late THEN <<>> ELSE <<Rest(req)>>)]
              /\ due' = [due EXCEPT ![c] = IF late THEN <<Rest(req)>> ELSE <<>>]
              /\ link' = [link EXCEPT ![c] = IF close THEN "fin" ELSE "up"]
         /\ outbox' = [outbox EXCEPT ![c] = SubSeq(@, n + 1, Len(@))]
  /\ UNCHANGED <<poolVars, connVars, callVars, serverVars>>

Deliver(c) ==
  /\ due[c] # <<>> /\ link[c] = "up"
  /\ inbox' = [inbox EXCEPT ![c] = @ \o due[c]]
  /\ due' = [due EXCEPT ![c] = <<>>]
  /\ UNCHANGED <<poolVars, connVars, callVars, serverVars, link, outbox>>

\* It closes: cleanly when it has read everything.
ServerHangup(c) ==
  /\ host[c] \notin OwnHost /\ link[c] = "up"
  /\ link' = [link EXCEPT ![c] = IF outbox[c] = <<>> THEN "fin" ELSE "reset"]
  /\ outbox' = [outbox EXCEPT ![c] = <<>>] /\ due' = [due EXCEPT ![c] = <<>>]
  /\ UNCHANGED <<poolVars, connVars, callVars, serverVars, inbox>>

-----------------------------------------------------------------------------
(* cwh_run.                                                                *)

RivalConnects(r) ==
  /\ link[r] = "none"
  /\ link' = [link EXCEPT ![r] = "up"]
  /\ backlog' = Append(backlog, r)
  /\ UNCHANGED <<poolVars, connVars, callVars, client_sock, answered, inbox, outbox, due>>

RivalLeaves(r) ==
  /\ link[r] = "up"
  /\ link' = [link EXCEPT ![r] = "left"]
  /\ UNCHANGED <<poolVars, connVars, callVars, serverVars, inbox, outbox, due>>

Accept ==
  /\ client_sock = NoConn /\ backlog # <<>>
  /\ client_sock' = Head(backlog) /\ backlog' = Tail(backlog) /\ answered' = FALSE
  /\ UNCHANGED <<poolVars, connVars, callVars, netVars>>

\* The one recv, cwh_parse_req, and 400, 404, or what the handler sends, which
\* may be nothing.  The request is what has arrived by now.
Handle ==
  /\ client_sock \in Conn /\ ~answered /\ outbox[client_sock] # <<>>
  /\ LET c   == client_sock
         req == Head(outbox[c])
     IN  \/ /\ link[c] = "up"
            /\ \E status \in IF WellFormed(req.url) THEN {"page"} ELSE {"page", "bad"} :
                 inbox' = [inbox EXCEPT ![c] =
                             <<Answer(req, status, NoLocation, FALSE), Rest(req)>>]
         \/ UNCHANGED inbox
  /\ outbox' = [outbox EXCEPT ![client_sock] = <<>>]
  /\ answered' = TRUE
  /\ UNCHANGED <<poolVars, connVars, callVars, backlog, client_sock, link, due>>

\* The connection is closed after the answer, or when recv returns 0.
\* (Variant: after an answer it is kept until the client leaves.)
DoneWhenLeft == link[client_sock] = "left" /\ (client_sock \in Conn => outbox[client_sock] = <<>>)
Done == answered \/ DoneWhenLeft

CloseServed ==
  /\ client_sock # NoConn /\ Done
  /\ LET c == client_sock IN
       /\ link' = [link EXCEPT ![c] =
                     IF @ = "left" THEN "none"
                     ELSE IF outbox[c] = <<>> THEN "fin" ELSE "reset"]
       /\ outbox' = IF c \in Conn THEN [outbox EXCEPT ![c] = <<>>] ELSE outbox
  /\ client_sock' = NoConn
  /\ UNCHANGED <<poolVars, connVars, callVars, backlog, answered, inbox, due>>

ServerStep == Accept \/ Handle \/ CloseServed

Environment ==
  \/ \E c \in Conn : Respond(c) \/ Deliver(c) \/ ServerHangup(c)
  \/ \E r \in Rival : RivalConnects(r)

Next ==
  \/ Begin
  \/ ClientStep
  \/ Age
  \/ cwh_pool_cleanup
  \/ ServerStep
  \/ Environment
  \/ \E r \in Rival : RivalLeaves(r)

Spec == Init /\ [][Next]_vars

(* Fairness: a call goes on (nothing in it waits without a limit of time), *)
(* so does cwh_run, and a rival leaves in the end.                         *)
FairSpec ==
  /\ Spec
  /\ WF_vars(ClientStep)
  /\ WF_vars(ServerStep)
  /\ \A r \in Rival : WF_vars(RivalLeaves(r))

-----------------------------------------------------------------------------
(* Properties.                                                             *)

Used == IF call = Idle \/ call.phase = "connect" \/ ~alive THEN {} ELSE {call.conn}
Pooled == {pool[i] : i \in DOMAIN pool}

\* Every variable stays in its range.
Urls     == [host : Host, path : STRING, query : BOOLEAN, tail : Seq(STRING)]
Requests == [call : Nat, hop : Nat, url : Urls, body : BOOLEAN, part : {"head", "body"}]
Heads    == [req : Requests, part : {"head"}, status : {"page", "moved", "kept", "bad"},
             location : Locations \cup {NoLocation}, close : BOOLEAN]
Answers  == Heads \cup [req : Requests, part : {"rest"}]
Calling  == [phase : {"connect", "send", "body", "read"}, url : Urls, method : {"GET", "POST"},
             redirect_count : 0 .. MaxRedirects - 1, visited : SUBSET Urls,
             conn : Conn \cup {NoConn}]
TypeOK ==
  /\ alive \in BOOLEAN /\ call \in Calling \cup {Idle} /\ todo \in Seq(Calls)
  /\ pool \in Seq(Conn) /\ g_pool_size \in 0 .. MaxPool /\ old \subseteq Conn
  /\ keep_alive \in [Conn -> BOOLEAN] /\ host \in [Conn -> Host]
  /\ link \in [Conn \cup Rival -> Links]
  /\ inbox \in [Conn -> Seq(Answers)] /\ outbox \in [Conn -> Seq(Requests)]
  /\ due \in [Conn -> Seq(Answers)]
  /\ backlog \in Seq(Conn \cup Rival) /\ client_sock \in Conn \cup Rival \cup {NoConn}
  /\ answered \in BOOLEAN /\ unsettled \subseteq Conn

\* Each socket the client has open is that of the call under way or in the
\* pool, once, the pool is as long as g_pool_size says, and within its limit:
\* none leaks and none is used by a call and offered to the next one, whether
\* calls end well, fail, are redirected, or find the pool full or out of date.
SocketsOwned ==
  alive =>
    /\ {c \in Conn : link[c] \in {"up", "fin", "reset"}} = Used \cup Pooled
    /\ Used \cap Pooled = {}
    /\ Cardinality(Pooled) = Len(pool) /\ g_pool_size = Len(pool) /\ Len(pool) <= MaxPool

\* A call takes an answer from a server of the host its URL names, and the
\* answer to its own request, unless the connection came from the pool with an
\* earlier exchange not complete: timed out, cut short or not all arrived.
OwnAnswer ==
  [][Read => LET req == Head(inbox[call.conn]).req IN
               /\ host[call.conn] = call.url.host
               /\ \/ req.call = Len(todo) /\ req.hop = call.redirect_count
                  \/ call.conn \in unsettled]_vars

\* However the servers redirect it, no call goes on to a URL it has asked for
\* before, or makes more requests than the limit.  URLs are compared as they
\* stand in redirect_url_buf, with the tail that runs on behind a Location: one
\* and the same request may be sent again before the circle is noticed, and
\* what ends the others is the limit.
NoRevisit ==
  call # Idle => /\ call.url \notin call.visited
                 /\ Cardinality(call.visited) = call.redirect_count
                 /\ call.redirect_count < MaxRedirects

\* Every call returns, whatever the servers do, or the process is killed in it.
Returns == (call # Idle) ~> (call = Idle \/ ~alive)

\* Who waits for cwh_run is served in the end, as long as the silent clients
\* leave: the connections this client keeps in its pool do not hold it up.
Served ==
  \A c \in Conn \cup Rival :
    (\E i \in DOMAIN backlog : backlog[i] = c) ~> ~(\E i \in DOMAIN backlog : backlog[i] = c)

\* cwh_run's handler gets the body of a request that has one.
BodyHandled ==
  [][Handle /\ Head(outbox[client_sock]).body => Len(outbox[client_sock]) = 2]_vars

=============================================================================
