# A verification project for cwebhttp

cwebhttp is an HTTP/1.1, HTTPS and WebSocket library in C, with a synchronous
client and server, an event loop with one backend per system, and over it an
asynchronous client and server. This directory holds TLA+ models of the parts
whose correctness depends on the order in which things happen or on the
boundaries of their inputs, TLC configurations that check them on small
instances, and proofs, checked by TLAPS, of what they promise for every instance:
the safety properties of the asynchronous server, with the refinement of its
abstract specification, of the asynchronous and the synchronous client, of
WebSocket connections, of the select loop and of the memory checker; and that the
parsers, formatters, encoders and decoders compute what they are for, on texts of
every length that their buffers hold.

    tlc -config MCServerSafe.cfg MCServer     # model-check one run
    tlapm AsyncServerProofs.tla               # check its proofs

`PROJECT.json` lists the components, the runs, the definitions with the source
lines they translate, the hazards with the properties that watch over them, the
findings and the theorems. All line numbers below are of files under
`src/src/` unless a path says otherwise.

## 1. Inventory

| Component | State | Operations | Meets | What is hard | What makes it correct |
|---|---|---|---|---|---|
| Event loop, epoll (`async/epoll.c`, `loop.c`) | handler list, kernel set, batch of events | add, mod, del, wait and dispatch, run, stop | callbacks of client and server | callbacks change the list in the middle of a batch; descriptors are reused | an event meets the callback it was reported for, or none; list and kernel set agree |
| Event loop, select (`async/select.c`, `loop.c`) | handler list, largest descriptor, running flag | as epoll | callbacks | the list is walked while callbacks remove from it | each entry reported is called once, freed memory is not met, the wait ends |
| Asynchronous server (`async/server.c`) | connection list and count, per connection a state, two buffers, keep-alive, last activity | listen, accept, read, parse, handle, write, sweep, stop, free | loop, parser, user's handlers | hang-ups and errors between steps, partial reads and writes, pipelining, limit, idle sweep, stop inside a handler | no freed connection is called, no descriptor leaks, the count is exact, answers are in order and whole as far as the send buffer holds them, clients get served |
| Asynchronous client (`async/client.c`) | list of active requests, per request a state and buffers, global pool | request, connect, send, receive, callback, pool get/add/return/expire/shutdown | loop, parser, user's callbacks | nested requests in callbacks, failures at every step, pool entries outliving descriptors | callback exactly once, then freed; a success is a whole response; every request answered |
| Synchronous client and pool (`cwebhttp.c` 82-205, 501-979, 2435-2627) | list of idle connections, its size, redirect history | connect, send, read, close, get, return, cleanup | parser | failed exchanges whose connection is pooled; full pool; redirect cycles; time limits | a connection is in one place only, size within the limit, own answers, every call returns |
| Synchronous server, router, static files (1830-2393) | routes | listen, route, run | parser, handlers | one client at a time, one receive per request; byte ranges | first matching route, everyone served, exact ranges |
| WebSocket (`websocket.c`) | receive buffer, fragment buffer, state | handshake, process frames, send, close | user's callbacks | fragments with control frames between, frames after a close, full buffer, lost memory | messages are delivered whole, in order, none after the close; a close is answered |
| HTTP parser and formatter (`cwebhttp.c` 981-1477) | none (pointers into the caller's buffer) | parse and format requests and responses, look headers up | both clients, both servers | nothing is terminated in place but method and path; heads and decoded bodies in buffers of fixed size; a request in part | what is written is read back, and from a part nothing is made up |
| URL parser (1484-1622), chunked coding (1630-1747), ranges (2223-2389) | none | parse, encode, decode | clients, static files | boundaries: empty, last byte, default port | agreement with a reference definition; decoding inverts encoding |
| Cookie jar (288-492) | list of cookies | add (replace), lookup, cleanup | the program | domain and path match; the string they are given in has a fixed size | a cookie goes only where it belongs; one per name, domain and path |
| Memory checker (`memcheck.c`) | table of live allocations, counters | init, shutdown, reset, malloc, calloc, realloc, free, report | program | blocks the table has never known, a table that fills, reset with live blocks | counters agree with the table, the table with the heap |
| TLS (`tls_mbedtls.c`) | wrappers around mbedTLS | handshake, read, write | both servers and clients | would-block during a handshake | - |
| Backends kqueue, WSAPoll, IOCP (`async/*.c`) | as epoll | as epoll | as epoll | IOCP completes after removal | as epoll |
| Errors, logging (`error.c`, `log.c`), build flags, compression, non-blocking mode | last error, level, file | set, get, print | all | - | - |

The parts meet by plain calls on one thread. Concurrency comes from the other
end of each connection and the kernel (they act between any two steps), from
callbacks that call back into the library, and from signal handlers that stop
the server (`src/examples/async_server.c`).

## 2. Modules

| Module | What it is |
|---|---|
| `EventLoop` | The loop with its epoll backend as a building block: descriptor table, kernel set, handler list, batch of events, and `cwh_loop_add`, `cwh_loop_mod`, removal, `epoll_wait` and dispatch as operators. |
| `AsyncServer` | Extends `EventLoop`: the server, its clients and the kernel's buffers. One action per callback and outcome. |
| `ServerService` | What the server promises without descriptors, events or buffers: arrival order, a limit, answers in order, whole up to a bound, sessions that end once. |
| `AsyncClient` | Extends `EventLoop`: requests, callbacks, pool, servers. |
| `SelectLoop` | The portable loop: the list in its memory cells, `cwh_select_wait` step by step, a program that calls the loop from callbacks and outside. |
| `SyncClient` | `cwh_request_simple` with its connection pool and redirects, servers that keep connections alive, and `cwh_run`. |
| `WebSocket` | Both ends of a WebSocket connection, over a stream of frames. |
| `Memcheck` | The leak detector around an allocator. |
| `Scan`, `Chunked`, `HttpText`, `Url`, `FileRange`, `CookieJar`, `FrameHeader` | The pure algorithms as operators on sequences of symbols. |
| `Texts` | A machine that builds their inputs one piece at a time, and what each algorithm is for. |
| `MCServer`, `MCClient`, `MCSelect`, `MCSync`, `MCWebSocket`, `MCTexts`, `MCMemcheck` | Instances for TLC. |
| `AsyncServerProofs`, `ServerServiceProofs`, `AsyncClientProofs`, `SyncClientProofs`, `WebSocketProofs`, `SelectLoopProofs`, `MemcheckProofs`, `TextsProofs` | Inductive invariants and theorems. `ServerServiceProofs` builds on `AsyncServerProofs`. |

### How the state corresponds to the code

*EventLoop.* `file` is the process's descriptor table; an open takes the lowest
free number, so descriptors are reused at once, which is what makes stale
events dangerous. `handlers` is `ep->handlers`, `interest` the kernel's set,
which forgets a descriptor when its last reference is closed. `batch` is
`ep->events`. The code finds the handler by descriptor at dispatch; an event of
the model also carries the socket it was reported for, which no action reads
and the properties compare with. epoll is level-triggered here (the code does
not set `EPOLLET`). The limit `MaxEvents` stands for the 1024 events of
`cwh_loop_new`.

*AsyncServer.* One action is one callback: the listen callback is cut into its
idle sweep (`ListenEvent`), one action per round of the accept loop (`Accept`,
`AcceptThenFail`, `AcceptError`) and its end (`AcceptDone`), because clients and
signal handlers may act between two accepts; a connection's callback is
`Callback(c)`, whose alternatives are the ways through
`connection_event_handler`. `close_connection` is complete in each of them:
removal from the loop, close, unlink, count. A request travels as three pieces
(request line, its CRLF, header fields with blank line; an overlong line has
another piece in place of the CRLF); the receive buffer holds `RecvCap` pieces,
the kernel's send buffer `SndCap` units of responses. `AnswerLen` is the length
of each answer, head and body, as its head announces it; `cwh_async_send_response`
copies of it what `send_buf` (64 KB in the code, `SendRoom` units here) has room
for and drops the rest without notice (1009-1011), so an answer is sent as its
first `Copied` units (`Response`). A unit carries the request it answers and its
number in the answer. A head longer than `send_buf` sends nothing (1003) and is
the silent handler: a handler answers, stays silent or stops the server (`Outcome`). `ConnectionField` says what
stands in the buffer after "Connection: ", because the code compares the value
up to a NUL that only some requests contain.

*AsyncClient.* A callback and what follows it are two steps, with a stack of
callbacks in progress between them, in which user code starts requests, cleans
the pool up or opens a file. Each step of `start_connect` may fail. The server of a
request accepts, reads, answers in pieces, closes or resets when it likes.
`Reply` says of each response how it is framed and what `response_complete`
(504-532) makes of it, which are two things, because the code looks for
substrings: `finds` is the field it recognises, which a field in another spelling
or behind a NUL is not and one in the middle of another header is; `length` is
where the number it reads ends the response; `marks` are the places at which
"0 CRLF CRLF" ends, the last chunk, a size that ends in 0, or data. A response that
is chunked but has a trailer, or a NUL in its data, has no mark at its end.
Pool entries carry the request that opened their socket, so that the properties
can tell whose descriptor an entry still names.

*SelectLoop.* Entries live in cells (`mem`), of which `alive` are allocated. A
freed cell keeps its link until it is allocated again, as the C library leaves
it: `cwh_select_wait` (236) reads `curr->next` after the callback, so the walk
stands on a freed cell whenever a callback removes its own entry, and goes on by
the link that is left there. `calloc` takes any free cell in a callback. When the
walk comes to a cell that is not allocated, anything may happen (`lost`). The
program's calls from a callback are bounded by `MaxOps`. A stop that comes
before `cwh_loop_run` is lost, since run sets the flag.

*SyncClient.* A request and an answer are two pieces each, the head and what
follows, because the code sends them in two calls (887, 893) and a server's
answer need not arrive at once. `inbox`, `outbox` and `due` hold what is
in a connection; what a call leaves there the next call finds. A URL is its
parts and the text that runs on behind it: a Location value is not terminated,
so the URL of a redirect drags the rest of the response along, and a request
line made of it is well formed only when a "?" ends the path first. A relative
Location is put behind a prefix that runs on in the same way (`RedirectUrl`).
`KeepAliveAfter` is TRUE for every answer, because the value of the Connection
field is compared whole (926-942) and runs on too. `unsettled` is a history
variable: the connections pooled with an exchange not complete. `Age` makes
connections too old for the pool in the order they were returned. A server of
`OwnHost` is `cwh_run`: one connection at a time, one receive, one answer, close.

*WebSocket.* `wire` holds the frames on the way to an end and in its receive
buffer, `recv_len` and `queued` how much of them the buffer and the socket
hold: the byte stream without its bytes. One action is one `recv`, or one round
of the loop in `cwh_ws_process`, because callbacks in the loop may send. Lengths
are in units; a header is `HeaderLen` of them. One end of the instance sends
fragments, which this library never does but must read. `starved` says that
malloc or realloc has failed at this end, once at most. The opening handshake
is reduced to the fields the code looks for in its own spellings. Programs send
only while the connection is open, and call `cwh_ws_process` until it is closed.

*Memcheck.* `heap` is the allocator, `g_alloc_table` and `g_stats` the detector's,
`since` a history variable: the blocks allocated while it watched and its table
had room, and not given back. `MaxTotal` bounds what is counted between resets.

*Texts.* A text is a sequence of symbols: characters where a rule looks at them,
whole words where none does. Pointers are positions, and a string read through
one runs to the end of the buffer unless the code has put a NUL in. Bases and
limits are constants: the chunk size is 3 symbols instead of 4096, digits are of
base 2, the table holds 4 headers instead of 32, ports go up to 12 in two
digits, files up to 11 bytes. So are the buffers: `HeadRoom` is what the formatters
allow a head (1024 characters in the code, symbols here), `DecodedRoom` is
`decoded_buf` (16384), `CookieRoom` is `cookie_str` (4096). `snprintf` is what a
bounded write leaves: the offset grows by the whole piece whether it is cut off
or not, and once it is past the room the difference `1024 - offset` is a huge unsigned
number, with which glibc writes the next piece whole; between the two stands what
was there before (`Stale`). What is decoded past `decoded_buf` is undefined
behaviour (`Overrun`).

### The plan

The plan of this project was `EventLoop`, `AsyncServer` with `ServerService`,
`AsyncClient`, then `WebSocket`, `SyncClient`, `Memcheck` with its proofs, the
algorithms on texts and the select backend. All of it is there. What is left:

1. `cwh_serve_static`'s way from a path to a file.
2. The other backends, as variants of `SelectLoop` (WSAPoll) and of `EventLoop`
   (kqueue); IOCP has a protocol of its own.

## 3. The runs

| Run | Asks | Instance |
|---|---|---|
| `server_safe` | types, callbacks, descriptors, count, no wrongful close | 2 clients, 3 descriptors, limit 2, batches of 2, one request each, all outcomes of a handler |
| `server_live` | answers in order and uninterrupted, the kernel's queue is served, input is not stranded, responses are finished, the server implements `ServerService` | 2 clients, limit 1, one client pipelines 2 requests, one answer longer than `send_buf`, fair |
| `client_safe` | callback once, no freed request, fresh events, sockets, whole responses, real failures, every request answered | 2 requests, one answered in chunks with an early mark, pool of 1, all failures, connect at once or not, fair |
| `websocket` | messages whole and in order, one close and last, no abnormal end without cause, closes answered | 2 messages of 2 or 3 units, one control frame, buffer of 3 units, limit of 3, fair |
| `sync` | sockets owned, own answers, redirects bounded, calls return, everybody served | 3 calls, 2 sockets, pool of 1, 2 hosts, a rival client, fair |
| `texts` | parsers read what formatters write; URL, range, cookies, frame header against reference definitions | texts of up to 3 to 5 pieces |
| `select` | the list is sound, dispatch is orderly, a wait ends | 3 descriptors, 3 cells, 2 calls per callback, fair |
| `memcheck` | counters agree, leaks are exact | 3 addresses, table of 2, sizes 0 to 2, 5 allocations |
| `server_idle`, `server_cut`, `client_shutdown`, `sync_body` | violated: section 5 | the instances of the runs above |

The bounds. Two clients (or requests) contend for everything that is shared:
one slot, one descriptor number, one batch, one pool entry; one more descriptor
than the limit lets accept succeed, and as many make it fail. A batch of two is
the smallest with an event left when a callback runs. A `send_buf` of two units over a
kernel buffer of one needs several writes; answers of three and of one are longer and
shorter than it. `RecvCap` of three pieces is one
whole request, so an overlong line fills the buffer, and of four lets a
pipelined request begin in the same buffer. `IdleTimeout` 0 lets a connection
expire after one tick; longer timeouts only add ticks. Each client connects at
most once; a client that comes back is another client. A receive buffer of three
units with headers of one holds two short frames, or one, or not one of the longest:
the three cases the code tells apart; a limit of three lets a message of two
fit and one of three not. Three calls let the second meet what the first has
left and the third what both have; a pool of one is full with one connection;
three redirects are one more than the pages there are. Three cells and
descriptors are the smallest list with an entry before, at and behind the one
a callback removes, and two calls let it remove its own entry and add one. A
memory table of two fills while a third block exists. The texts are long enough
for every symbol a rule looks at to stand before, at and behind the border. A
reader is given every prefix of a request, since the servers parse what one
receive has brought. Deadlock is not checked where a system may rest: servers
whose clients have gone, programs that make no call, texts that have grown.

The properties that say more than they seem to:

- `CallbacksLive` / `HandlersLive`: the loop's list is exactly what the
  components believe it is, under the descriptors and for the events each state
  waits for, and the kernel agrees. It is what makes a stale event harmless: its
  lookup fails, or finds the live connection that has the descriptor now.
- `NoWrongfulClose`: a connection ends only for a reason of its own. One
  exception is part of the statement, because the code allows it: an error
  reported for a connection closed since reaches, in the same batch, the one
  that was accepted under its descriptor. For the client, `EventsFresh` shows
  that this cannot happen, since only its own callback closes a descriptor.
- `AnswersInOrder` looks at the whole stream a client has read, has under way and
  is still to be sent: each answer goes from its first unit to the last that
  `send_buf` held, and only then the next begins. That it is the whole answer is
  `AnswersComplete`, which the code breaks (section 5).
- `OkIsWhole` names what the code's test of completeness misses: a response whose
  end is not where `response_complete` looks for it (`EndSeen`) may be told of as a
  success when its head is there. For all others a success is a whole response.
- `Answered` is about responses whose end the code meets in the end (`Answerable`);
  a chunked one with a trailer never does, and its request waits for the server to
  close.
- `BacklogServed`: at the limit the listening socket stays readable, so the
  sweep of idle connections runs and makes room in the end.
- `ServiceSpec`: the refinement of `ServerService`, with the connection list as
  the open sessions and the kernel's queue as the waiting ones.
- `OrderlyDispatch`: each entry select reported is called once and nothing else
  is, whatever the callbacks do to the list, with one exception in the
  statement: a callback that removes its own entry and then adds or removes
  another (in the walk of 219-237 the link of its freed cell is then out of
  date). A callback that only removes itself, which is what the library's own
  do, is safe only because the C library leaves the link alone.
- `OwnAnswer`: a call gets the answer to its own request, unless the connection
  comes from the pool with an exchange that was not completed; cwh_close pools
  it after a time limit as well (136-180), and the next call takes the late
  answer.
- `MessagesInOrder` compares what one program has been given with what the other
  has sent, for messages within the limit and while memory lasts; where one is
  missed, the code delivers messages with holes (413).
- `NoRevisit` compares URLs as they stand in `redirect_url_buf`, with the text that
  runs on behind them (2534, 2576). The same page under another tail is another
  URL, so a circle may be gone through more than once before it is noticed; the limit
  ends it then.
- `CookiesCurrent` is about what fits `cookie_str`; its reference is the comment on
  `cwh_domain_match` (400), with the exception of the case in which the code
  does otherwise (section 5).
- `RequestReread` and `ResponseReread` are about heads that fit (`HeadFits`), and the
  latter about bodies that fit `decoded_buf`. They look at positions and read a name
  up to its colon and a value up to CRLF; a program that reads the strings
  themselves reads on (section 5).
- `RequestReread`: from the beginning of a request the parser reads the same
  path and handler and no header that the whole one has not; but it may miss
  the body and headers that are yet to come (see `sync_body`).
- `UrlDivided` names the one exception the code has: a "#" before a "?" in the
  part behind the path stays in the path.

Fairness. `WF(LoopStep)` (`WF(Loop)`): the thread runs `cwh_loop_run`, which
waits without a limit and dispatches everything it gets. `WF(Tick)`: time
passes. `WF(Receive(c))`: a client whose connection stands reads what it is
sent; without it no response need end. `WF(Return)`: user callbacks return.
`WF(Server(r))`: servers accept, read and answer unless they close or reset;
the client has no timeout, so nothing could be claimed of a server that does
none of it. `WebSocket`: `WF(Process(e))`, a program calls `cwh_ws_process`
whenever its socket is readable, until the connection is closed, and the opening
handshake goes on. Some loops in the documents stop as soon as the state is not OPEN
any more; of a program that stops so after its own close nothing is claimed.
`SyncClient`: `WF(ClientStep)`, since each wait of a call has a time limit;
`WF(ServerStep)`, `cwh_run` runs; `WF(RivalLeaves)`, a silent client leaves
in the end, without which `cwh_run`, whose receive has no limit, serves nobody.
Other servers owe the client nothing. `SelectLoop`: `WF(Loop)`, which includes
that callbacks return.

## 4. What is proved

`AsyncServerProofs` proves, for any number of clients, descriptors and requests
and any limits, under the assumptions `MaxFdAssumption` and `ServerAssumption`
(sizes are positive, names distinct, the set of clients finite):

| Theorem | Statement |
|---|---|
| `TypeCorrect` | `Spec => []TypeOK` |
| `NoFreedCallback` | `Spec => []CallbacksLive` |
| `NoDescriptorLost` | `Spec => []DescriptorsOwned` |
| `CountExact` | `Spec => []CountsAgree` |
| `Invariance` | `Spec => []IInv`, from which the others follow |

None of the four is inductive alone. `TypeOK` needs the count to be the
cardinality of the list, or it could fall below zero; `CallbacksLive` needs
every connection to own its descriptor, or closing one could remove the
entry of another; `DescriptorsOwned` needs a client in the kernel's queue not to be
connected already, or accepting it would give it a second descriptor
(`QueueApart`); the buffers need their bound, or the room left for `recv` could
be negative (`BuffersBounded`). `IInv` is the conjunction of all of them.
The proof has one step per action. Removing connections is the step with
substance: `close_connection` takes a set, because the sweep and the stop
close several, and the lemma about it shows that removing the entries of the
connections' descriptors removes the connections' entries.

`ServerServiceProofs` goes on, under the same assumptions, to what clients get:

| Theorem | Statement |
|---|---|
| `ClosedForCause` | `Spec => NoWrongfulClose` |
| `AnswersOrdered` | `Spec => []AnswersInOrder` |
| `ServiceImplemented` | `Spec => ServiceSpec` |

`PlaceInv` adds to `IInv` where a client is: a stopped server has neither queue
nor connections, who is in one of them has not been closed, who is in neither
has a fresh connection object (`Places`); an error in the batch stands for a
reset (`ErrorsReal`); and a connection that still reads has no request line in
its buffer (`NothingParses`), or a read that fails could end one whose request
was there. With it each way off the list has its cause.

`AnswersInOrder` says of a stream of answers that they answer ever later
requests, each from its first unit to the last that is sent of it, and the server
knows no request numbers. The invariant `FlowInv`
counts them: the k-th piece a client ever sent is piece (k - 1) mod 3 of request
(k - 1) div 3 + 1 (`IsPiece`). `Base` is the number of pieces the server is done
with, those not in the kernel or in `recv_buf` any more, so that what is in the
buffers is what follows number `Base` (`PiecesOf`). Of each request answered the
line has been taken, and once its answer is written also dropped, since the
reset for the next request empties the buffer; so the line at the head of the
buffer is that of a later request than all those answered (`AnswersOf`). The
reset may drop the beginning of a pipelined request with the rest: its answer is
then missing, and the numbers show that the order survives that. For a connection
that is reset only what the client has read is claimed, since the rest is lost.

The refinement needs both: an admission leaves the queue at its head and meets
the limit (`IInv`), sessions end once because who is over is in neither place
(`Places`), and what a client reads keeps its stream in order because it is a
part of the one `FlowInv` speaks of.

`AsyncClientProofs` proves, for any number of requests, descriptors and pool
entries, under `MaxFdAssumption` and `ClientAssumption`, and for responses in
which the code never sees "keep-alive" where it looks (`WellFormedReplies`: a
field's name is followed by a colon, its value by CRLF; section 6 says what
happens otherwise):

| Theorem | Statement |
|---|---|
| `CallbacksOnce` | `WellFormedReplies /\ Spec => []CalledOnce` |
| `LoopEntriesLive` | `WellFormedReplies /\ Spec => []HandlersLive` |
| `NoLeaks` | `WellFormedReplies /\ Spec => []SocketsOwned` |
| `NoStaleEvents` | `WellFormedReplies /\ Spec => []EventsFresh` |
| `Types` | `WellFormedReplies /\ Spec => []TypeOK` |
| `Invariance` | `WellFormedReplies /\ Spec => []IInv` |
| `SuccessIsWhole` | `WellFormedReplies /\ Spec => OkIsWhole` |
| `FailureHasCause` | `WellFormedReplies /\ Spec => FailuresReal` |

The invariant has two halves. `OwnInv` is about who holds what: a request's
callback is on the stack at most once and only while the request is active, a
request that waits has an entry under its own descriptor, and each event of the
batch is for a request that still waits (`BatchOwned`). The last is why
callbacks may start further requests in the middle of a batch: a descriptor is
closed only when its request's callback returns, the handler took that
request's event off the batch before, and there is one event for a descriptor,
so the number can be given away without an event for it being left. `NetInv` is
about amounts: what was sent, is buffered and is unsent never exceeds the
request, and what was received and can be received never exceeds what the
server replied; without it the type of the callback's argument would not be
inductive. `PoolInv` says that no pool entry is ever idle, which is the defect
of section 6 seen from inside. The two action properties need what the events and
the replies stand for as well (`OutcomeInv`): an error in the batch is that of a
request whose connection is reset, and stays so until its turn comes, since only
its own callback closes its descriptor; a server that has answered has seen the
whole request, so that an answer the client takes for whole was not to a part. What is whole is decided
by `response_complete`; where its test is not that of HTTP, `OkIsWhole` says so.

`SyncClientProofs` proves, for any hosts, programs, redirects and pool size, under
`SyncAssumption`:

| Theorem | Statement |
|---|---|
| `Types` | `Spec => []TypeOK` |
| `SocketsHaveOneOwner` | `Spec => []SocketsOwned` |
| `RedirectsEnd` | `Spec => []NoRevisit` |
| `OwnAnswers` | `Spec => OwnAnswer` |

`SocketsOwned` counts: the pool's size is the number of sockets open that the call
does not have. The invariant says it without counting: the open sockets are those
of the call and those of the pool, these are apart, and no socket is in the pool
twice (`Owned`); a bijection then gives the number. It needs that the sockets
`cwh_run` has in its queue or in hand are there once and are no other server's
(`Queued`), or a close at its end could close another connection. `RedirectsEnd`
rests on `redirect_count` being the number of URLs visited (`Visits`). For
`OwnAnswers`, everything on the call's connection, in either direction and at
the server, is of the exchange under way, unless the connection is unsettled, and
a pooled connection that is not unsettled has nothing on it (`Settled`).

`WebSocketProofs` proves, for any numbers, lengths and fragments of messages,
any controls, and any sizes of header, buffer and limit, under
`WebSocketAssumption`:

| Theorem | Statement |
|---|---|
| `Types` | `Spec => []TypeOK` |
| `CloseIsLast` | `Spec => []ClosedOnce` |
| `EndsForCause` | `Spec => AbnormalForCause` |
| `InOrderDelivery` | `Spec => []MessagesInOrder` |

`CloseInv` relates the amounts to the frames (`UnitsOnWire`: what is buffered and
queued is the sum of whole frames, the last perhaps in part) and says that after
a CLOSE an end sends PONGs only (`CloseLast`), because `cwh_ws_process` answers a
PING that comes after it. A closed end therefore either meets a frame that never
becomes whole, or PONGs, which call nothing (`Deaf`): why `on_close` is last
although the loop does not look at the state. `FlowInv`, for `MessagesInOrder`,
says that the receiver's fragment buffer and the frames on the wire are one
stream of what the other end has sent: there are numbers, for each place on the
wire, of the messages begun and of the units of the last, that the receiver's
buffer starts and the sender's unsent part ends. Each frame moves them on by its
own content; receiving takes the first away and sending adds one.

`SelectLoopProofs` proves, for any cells, descriptors and calls that callbacks
make, under `SelectAssumption`:

| Theorem | Statement |
|---|---|
| `ListStaysSound` | `Spec => []ListSound` |
| `DispatchIsOrderly` | `Spec => OrderlyDispatch` |

The list is a numbering of the entries that follows the links, `place`, in which the
head is first and the entry without a link last. All three parts are needed: of a
ring beside the list, or a list not reached from `handlers`, only the numbering of
the links in between would hold. `SelectInv` says by it what is left of a wait:
the reported entries at or behind the one the walk has come to, also when that one
has been freed, by the link that is left in its cell, as long as no callback has
made that link out of date (`risky`). That the wait counts no more events than
select returned makes it end with the last of them. The greatest element of a set
of descriptors (`MaxExists`) is found by a least counterexample: induction
theorems take an operator as a parameter, which the provers cannot instantiate, but
that each set of numbers has a least one (`WFMin`) serves instead.

`MemcheckProofs` proves, for any set of addresses and sizes, any table size and
any number of allocations, under `MemcheckAssumption`:

| Theorem | Statement |
|---|---|
| `Counters` | `Spec => []CountersAgree` |
| `Leaks` | `Spec => []LeaksExact` |
| `Invariance` | `Spec => []IInv` |

`CountersAgree` is inductive once the table is known to be a sequence of blocks no
longer than `MAX_ALLOCS` (`Agree`), and it needs nothing of the heap: whatever is
freed, an entry and a count go together. `TableExact` needs that no address is in
the table twice, which holds because the allocator never returns a block that
exists, and because a block is forgotten before realloc is called. It holds only
while the detector watches: after a shutdown the table stays as it is while
blocks are freed. The lemmas say what adding an entry, and moving the last one
into the place of the one removed, do to table, counters and blocks; the second is
where the proof has its work, since the entry removed may be the last. The bytes
(`BytesExact`) are a fold over the table, which the library defines by a recursive
function on sets of positions, in an order that nobody knows. `Induction` says that
a set of numbers that has 0 and, with each number, the next has them all; applied
to the set of sizes for which such a function exists (`SumExists`), and for
which taking out any one entry takes its size from the sum (`SumSplit`), it shows
that the fold is a sum in any order, and so that each operation changes it by the
size of the block it adds or removes.

`TextsProofs` proves what the algorithms on texts compute, for texts over any
symbols, any bases and limits, and any length that the buffers of the code hold
(`HeadRoom`, `DecodedRoom`, `CookieRoom`), where it has any:

| Theorem | Statement | Assumptions |
|---|---|---|
| `UrlsDivided` | `Spec => []UrlDivided` | `StartAssumption`, `UrlAssumption` |
| `RangesServed` | `Spec => []RangeServed` | `StartAssumption`, `FileAssumption` |
| `FramesReread` | `Spec => []HeaderReread` | `StartAssumption`, `FrameAssumption` |
| `CookiesAreCurrent` | `Spec => []CookiesCurrent` | `StartAssumption`, `CookieAssumption`, `CookieRoomAssumption` |
| `RequestsReread` | `Spec => []RequestReread` | `StartAssumption`, `RequestAssumption`, `HeadersAssumption` |
| `ResponsesReread` | `Spec => []ResponseReread` | `StartAssumption`, `ResponseAssumption`, `HeadersAssumption`, `ChunkedAssumption` |

The assumptions are about what is built. A header can be told from the text around
it (`Writable`): no colon or line end in its name, no line end in its value, no
space before it. A path ends where the query begins. A response says that it is
chunked when it is, and only then. A payload is in memory (`InMemory`): below
2^63 bytes, the lengths for which 64 bits suffice. `Hex` has at least two digits,
distinct and no line end. A cookie's name ends before the first semicolon, and a URL
begins with a scheme, known or not, and "://". Nothing is assumed of bodies, of the
number of headers of a request, or of what a Range header holds. Where a statement has an exception, it is in the property that the run checks.

The state machine of `Texts` only makes texts grow, so the invariant is
short (`TInv`: the text is a sequence of pieces of its kind) and the work is in the
lemmas about the operators. Five arguments carry them:

- *Scans.* `First` is a CHOOSE; `FirstExists` and `OneFirst` say that the position
  it names exists and is one only, and every `find_char`, `skip_ws`, `skip_to_crlf`
  comes down to them. URLs, ranges and request lines need little more.
- *Folds.* `FoldLeft` is a recursive function. A run of it (`IsRun`) is the sequence of
  its intermediate values, and `FoldedIs` says that a fold ends where anything
  that takes its steps ends; `RunExists` gives it one, by `Induction`. Numbers,
  lines of headers, jars and answers are folds, and each gets a lemma saying what
  one element more does (`LinesSteps`, `ValueSteps`, `JarSteps`).
- *Recursion.* The header loop, the two chunk functions and the digits of a number
  are recursive functions of their own: `RecursionExists` says that such a
  function exists when each value asks only for values of lower rank.
- *Places.* What a formatter writes is known by where each part stands in
  the text (`Placed`, `IsRequest`, `IsHead`), and a scan over a text with the parts
  in their places ends where the part does (`LineRead`, `RequestBack`,
  `StatusRead`).

- *Bounded writes.* What is written piece by piece with `snprintf` is as long as what
  was to be written, and the same if it fits (`PutWrites`, `HeadEnds`; `SentIs` for
  cookies): that the whole fits says it of each piece, and only then the places
  above are those of the text.

A cookie of the jar is the last made under its name, domain and path: `IsKept` says
it by numbers, of the cookies made so far in their order, and `JarKeeps` that
each header keeps it so, whatever it replaces. For what is read from a part of a
text, each scan that ends inside the part ends at the same place in the whole
(`FoundStays`, `HeaderStays`), so a request line that is whole in the part is that of
the whole (`BegunStays`) and the header table of the part a beginning of the other
(`HeadersStay`). `ChunksTurned` says of what `cwh_encode_chunked` writes that it
decodes to the body, and of a beginning of it that it decodes, if at all, to a
beginning of the body: by induction on how much of the body is left (`AllReread`),
over all positions at once at which a chunk may begin.

Only model-checked: the eight liveness properties (`BacklogServed`,
`InputNotStranded`, `ResponseFinished`, `Answered`, `CloseAnswered`, `Returns`,
`Served`, `WaitEnds`), since fairness and ENABLED are out of the prover's reach.
Every invariant and every action property of the passing runs is a theorem.

## 5. Where the code disagrees with its documents

- `server_idle`: idle connections are swept only by the listen callback
  (`async/server.c` 620), so one stays open for ever when nobody else connects.
- `client_shutdown`: a pool entry keeps the number of a descriptor closed long
  ago, and `cwh_async_pool_shutdown` (`async/client.c` 866) closes whatever has
  that number now. In the passing client run the program opens one file and
  keeps it, since closing a number that is no longer its own would only carry
  the damage further.
- `server_cut`: a response announces the length of its whole body, and the body is cut
  off where the 64 KB `send_buf` ends (`async/server.c` 1009-1011), with no error and
  without closing; `src/examples/static_file_server.c` hands files of up to ten
  megabytes to it (38, 136). On a kept-alive connection a client that goes by
  Content-Length reads the next answer as the rest of the first.
- `sync_body`: `cwh_run` receives once (`cwebhttp.c` 1979) and the client sends head
  and body apart (887, 893), so the handler of a POST, such as that of
  `/api/echo` in `src/examples/hello_server.c` 51, may run without its body.

Other disagreements need no run to be seen. They are in the models as the code has
them, and where a property depends on one it names it as an exception:

- The value of the Connection field is compared up to a NUL (`async/server.c` 893)
  but ends with CRLF in the buffer, so that "Connection: keep-alive" is not
  recognised and the connection is closed (`AsksKeepAlive`), although
  `src/CHANGELOG.md` 148 has "Keep-Alive connection support".
- `response_complete` looks for "Content-Length:" in that spelling (`async/client.c`
  513), although header names are case-insensitive (`src/CHANGELOG.md` 729): a
  response whose server writes it otherwise is a success as soon as its head is
  there, with what has come of the body by then. A chunked one may be taken for whole
  at an earlier "0 CRLF CRLF" (527). `OkIsWhole` excepts both (`EndSeen`).
- The query and the header values of a parsed request are not terminated
  (`cwebhttp.c` 1195-1203), and `src/README.md` 203-208 prints them as strings and
  shows just the value: what is printed is the rest of the request too.
  `RequestReread` is about a reader that stops at the end of a value.
- A chunked body is decoded into `decoded_buf` of 16384 bytes by a decoder that does
  not know its size (1299-1302, 1690), and the cookies of `cookie_str` are written behind
  its end once one has been cut off (473-477), while `src/CHANGELOG.md` 701 has "bounds
  checking on all accesses". `ResponseReread` and `CookiesCurrent` are about what
  fits.
- The comment at `cwebhttp.c` 400 has ".example.com" match "example.com", and the
  comparison for it (424) stands behind a condition (417) it never meets.
  `CookiesCurrent` has the comment's rule, with this exception (`Missed`).
- A head of more than 1024 characters is cut off by both formatters (1358-1376,
  1398-1424), which report success.

## 6. What is not modelled

TLS (off by default) and its states; the backends of other systems;
compression (wrappers around zlib), and the content codings below a chunked
body; error texts, logging and build flags; SHA-1 and base64 of the WebSocket
key, the missing blank line of a client handshake with an origin (513-520) and
that the client cannot learn its key; `cwh_async_server_free` and a
second `listen`; routing by path in the asynchronous server (a handler is any of
its outcomes); `cwh_serve_static`'s mapping of paths to files; failure of `malloc`
outside accept, request start and fragments; bodies of requests in the
asynchronous parts; the bytes of headers beyond what decides the control flow;
lifetimes of memory the caller lends (header arrays, user data) and of the
static buffers in which responses are returned; `FD_SETSIZE`; data frames without
payload. `src/examples/ws_chat_server.c` frees its connection inside on_close,
after which `cwh_ws_process` writes to it; the model's programs wait until it
has returned.

A kept-alive client connection in the asynchronous pool would stay registered
with its freed request as data; no well-formed response leads there, because
`should_keep_alive` compares a value that runs on (`async/client.c` 584), so the
model ends that path at the pool (`Return`) and at the failing registration of
the next request (`Reuses`). It also means that this pool never keeps a
connection, although `src/README.md` 106 lists connection reuse.

Met while translating, and part of the models as the code has it: the
query of a URL is never sent (2483-2501); cookies are never taken from
responses (945); a full header table leaves the other headers in the body; a
body in chunks that ends after a whole chunk is accepted without its last one; a
cookie path `/api` matches `/apix`; a cookie without a name leaves a stray
separator in what is sent; a header is found by the beginning of its name; an
open range is recognised by the character behind the dash.
