------------------------------ MODULE EventLoop ------------------------------
(***************************************************************************)
(* The readiness loop of src/src/async/loop.c with its Linux backend,      *)
(* src/src/async/epoll.c.  The module is a building block: it owns the     *)
(* process's descriptor table, the kernel's epoll set, the handler list    *)
(* and the batch of events being dispatched, and offers the loop's calls   *)
(* as operators.  The components that register callbacks (the server, the  *)
(* client) extend it and add the callbacks themselves.                     *)
(***************************************************************************)
EXTENDS Integers, FiniteSets

CONSTANTS
  MaxFd,     \* descriptors the process may have open besides stdio and epoll
  MaxEvents, \* events one epoll_wait returns at most
  NoFile     \* what an unused descriptor refers to

ASSUME MaxFdAssumption == MaxFd \in Nat \ {0} /\ MaxEvents \in Nat \ {0}

Fd == 0 .. MaxFd - 1

READ  == "READ"
WRITE == "WRITE"
ERROR == "ERROR"
Events == {READ, WRITE, ERROR}

VARIABLES
  file,      \* [Fd -> socket or NoFile]: the process's descriptor table
  interest,  \* [Fd -> SUBSET Events]: the kernel's epoll set, {} = not in it
  handlers,  \* ep->handlers: a set of entries [fd, events, data]
  batch      \* ep->events: what epoll_wait returned and is not dispatched yet

loopVars == <<file, interest, handlers, batch>>

(***************************************************************************)
(* A reported event carries the socket it was reported for.  The code does *)
(* not keep it (struct epoll_event holds the descriptor alone), and no     *)
(* action reads it: it is there for the properties to compare with.        *)
(***************************************************************************)
Report(fd, ev) == [fd |-> fd, events |-> ev, sock |-> file[fd]]

Free == {fd \in Fd : file[fd] = NoFile}

\* The descriptor the next open gets: POSIX hands out the lowest free one.
IsNextFd(fd) == fd \in Free /\ \A g \in Free : fd <= g

find_handler(fd) == {h \in handlers : h.fd = fd}

Entry(fd, ev, data) == [fd |-> fd, events |-> ev, data |-> data]

\* cwh_epoll_add succeeds on a descriptor that has no entry and that the
\* kernel does not know; a caller opens the descriptor in the same step.
CanAdd(fd) == find_handler(fd) = {} /\ interest[fd] = {}

cwh_loop_add(fd, ev, data) ==
  /\ handlers' = handlers \cup {Entry(fd, ev, data)}
  /\ interest' = [interest EXCEPT ![fd] = ev]

\* cwh_epoll_mod: no entry, no effect.  (Variant: the kernel is not told.)
InterestUnmodified(fd, ev) == interest
InterestModified(fd, ev) ==
  IF find_handler(fd) = {} THEN interest ELSE [interest EXCEPT ![fd] = ev]

cwh_loop_mod(fd, ev) ==
  /\ handlers' = {IF h.fd = fd THEN [h EXCEPT !.events = ev] ELSE h : h \in handlers}
  /\ interest' = InterestModified(fd, ev)

\* cwh_epoll_del: the entry goes only when the kernel knew the descriptor.
\* (Variant: the caller closes first, and the call fails.)
KeptAfterLateDel(fds) == handlers
KeptAfterDel(fds) == {h \in handlers : h.fd \notin fds \/ interest[h.fd] = {}}

\* (Variant: the descriptor is not closed.)
NotClosed(fds) == file
Closed(fds) == [fd \in Fd |-> IF fd \in fds THEN NoFile ELSE file[fd]]

\* cwh_loop_del, then close, on every descriptor of a set: the last reference
\* to the socket goes, so the kernel forgets the descriptor in any case.
DelAndClose(fds) ==
  /\ handlers' = KeptAfterDel(fds)
  /\ interest' = [fd \in Fd |-> IF fd \in fds THEN {} ELSE interest[fd]]
  /\ file'     = Closed(fds)

\* The events epoll_wait would return now; level[fd] are those that hold on
\* the descriptor.  An error or a hang-up is reported whatever the interest.
Due(level, fd) == level[fd] \cap (interest[fd] \cup {ERROR})
Ready(level) ==
  {Report(fd, Due(level, fd)) : fd \in {f \in Fd : interest[f] # {} /\ Due(level, f) # {}}}

\* epoll_wait in cwh_epoll_wait: blocks until something is ready and takes all
\* of it, or as many events as ep->events has room for, whichever they are.
epoll_wait(level) ==
  /\ batch = {}
  /\ batch' \in SUBSET Ready(level)
  /\ batch' # {}
  /\ batch' = Ready(level) \/ Cardinality(batch') = MaxEvents
  /\ UNCHANGED <<file, interest, handlers>>

\* One round of the dispatch loop takes an event off the batch, in any order
\* (the order is the kernel's), and looks the entry up when its turn comes: an
\* event whose descriptor has lost its entry meets no callback.
Delivers(e, data) == e \in batch /\ \E h \in find_handler(e.fd) : h.data = data

Consume(e) == batch' = batch \ {e}

DispatchNone(e) ==
  /\ e \in batch
  /\ find_handler(e.fd) = {}
  /\ Consume(e)
  /\ UNCHANGED <<file, interest, handlers>>

=============================================================================
