-------------------------- MODULE AsyncServerProofs --------------------------
(***************************************************************************)
(* Proofs about AsyncServer, for every number of clients, descriptors,     *)
(* connections and requests: the inductive invariant IInv and the safety   *)
(* invariants that follow from it.                                         *)
(***************************************************************************)
EXTENDS AsyncServer, FiniteSetTheorems, TLAPS

\* The callbacks registered are those of the listening socket and of the
\* existing connections.
HandlersMatch ==
  handlers = {Entry(conn[c].fd, Awaited(c), c) : c \in connections}
             \cup (IF listen_fd = -1 THEN {} ELSE {Entry(listen_fd, {READ}, Listener)})

\* The kernel's epoll set, descriptor by descriptor.
InterestMatch ==
  /\ \A c \in connections : interest[conn[c].fd] = Awaited(c)
  /\ listen_fd # -1 => interest[listen_fd] = {READ}
  /\ \A fd \in Fd : file[fd] = NoFile => interest[fd] = {}

\* A connection is in one place: not arrived, in the kernel's queue (once), or
\* on the server's list.
QueueApart ==
  /\ \A i \in DOMAIN backlog : backlog[i] \notin connections /\ link[backlog[i]] # "none"
  /\ \A i, j \in DOMAIN backlog : backlog[i] = backlog[j] => i = j
  /\ \A c \in connections : link[c] # "none"

\* No buffer holds more than it has room for.
BuffersBounded ==
  \A c \in Client : /\ Len(conn[c].recv_buf) <= RecvCap
                    /\ Len(outq[c]) <= SndCap

IInv ==
  /\ TypeOK
  /\ HandlersMatch
  /\ InterestMatch
  /\ DescriptorsOwned
  /\ CountsAgree
  /\ QueueApart
  /\ BuffersBounded

-----------------------------------------------------------------------------
(* What the invariant says of a callback about to run.                     *)

\* Every existing connection has a descriptor of its own.
LEMMA ConnectionHasFd ==
  ASSUME IInv, NEW c \in connections
  PROVE  /\ c \in Client /\ conn[c].fd \in Fd
         /\ file[conn[c].fd] = c
         /\ conn[c].fd # listen_fd
         /\ \A d \in connections : conn[d].fd = conn[c].fd => d = c
<1>1. c \in Client /\ conn[c] \in Conn
  BY DEF IInv, TypeOK
<1>2. Entry(conn[c].fd, Awaited(c), c) \in handlers
  BY DEF IInv, HandlersMatch
<1>3. conn[c].fd \in Fd
  BY <1>2 DEF IInv, TypeOK, Entry
<1>4. file[conn[c].fd] = c
  BY <1>1, <1>3 DEF IInv, DescriptorsOwned
<1>5. conn[c].fd # listen_fd
  BY <1>1, <1>3, <1>4, ServerAssumption DEF IInv, DescriptorsOwned
<1>6. ASSUME NEW d \in connections, conn[d].fd = conn[c].fd PROVE d = c
  <2>1. d \in Client
    BY DEF IInv, TypeOK
  <2>2. file[conn[d].fd] = d
    BY <1>3, <1>6, <2>1 DEF IInv, DescriptorsOwned
  <2> QED
    BY <1>4, <1>6, <2>2
<1> QED
  BY <1>1, <1>3, <1>4, <1>5, <1>6

\* A callback is delivered to an existing connection.
LEMMA DeliveredIsConnected ==
  ASSUME IInv, NEW c \in Client, NEW e, Delivers(e, c)
  PROVE  c \in connections /\ e \in batch /\ e.fd = conn[c].fd
<1>1. PICK h \in handlers : h.fd = e.fd /\ h.data = c
  BY DEF Delivers, find_handler
<1>2. CASE \E d \in connections : h = Entry(conn[d].fd, Awaited(d), d)
  BY <1>1, <1>2 DEF Entry, Delivers
<1>3. CASE listen_fd # -1 /\ h = Entry(listen_fd, {READ}, Listener)
  BY <1>1, <1>3, ServerAssumption DEF Entry
<1> QED
  BY <1>2, <1>3 DEF IInv, HandlersMatch

-----------------------------------------------------------------------------
(* Closing connections, the listening socket with them or not.             *)

\* The types of what closing changes.
CoreTypes ==
  /\ file \in [Fd -> Client \cup {Listener, NoFile}]
  /\ interest \in [Fd -> SUBSET Events]
  /\ handlers \subseteq [fd : Fd, events : SUBSET Events, data : Client \cup {Listener}]
  /\ listen_fd \in Fd \cup {-1}
  /\ connections \subseteq Client /\ conn_count \in Nat
  /\ conn \in [Client -> Conn]

\* A descriptor with an entry is in the kernel's set too, so cwh_loop_del
\* removes the entry.
LEMMA DelRemoves ==
  ASSUME IInv, NEW F
  PROVE  KeptAfterDel(F) = {h \in handlers : h.fd \notin F}
<1>1. ASSUME NEW h \in handlers PROVE interest[h.fd] # {}
  <2>1. CASE \E d \in connections : h = Entry(conn[d].fd, Awaited(d), d)
    BY <2>1 DEF IInv, InterestMatch, Entry, Awaited
  <2>2. CASE listen_fd # -1 /\ h = Entry(listen_fd, {READ}, Listener)
    BY <2>2 DEF IInv, InterestMatch, Entry
  <2> QED
    BY <2>1, <2>2 DEF IInv, HandlersMatch
<1> QED
  BY <1>1 DEF KeptAfterDel

\* Taking connections off the list keeps the count.
LEMMA DropCounts ==
  ASSUME IInv, NEW C, C \subseteq connections, Drop(C)
  PROVE  CountsAgree' /\ conn_count' \in Nat
<1>1. IsFiniteSet(connections)
  BY ServerAssumption, FS_Subset DEF IInv, TypeOK
<1>2. IsFiniteSet(C) /\ connections \cap C = C
  BY <1>1, FS_Subset
<1>3. IsFiniteSet(connections \ C)
      /\ Cardinality(connections \ C) = Cardinality(connections) - Cardinality(C)
  BY <1>1, <1>2, FS_Difference
<1>4. Cardinality(connections \ C) \in Nat /\ Cardinality(connections) \in Nat
      /\ Cardinality(C) \in Nat
  BY <1>1, <1>2, <1>3, FS_CardinalityType
<1>5. conn_count = Cardinality(connections) /\ conn_count <= MaxConnections
  BY DEF IInv, CountsAgree
<1>6. connections' = connections \ C /\ conn_count' = conn_count - Cardinality(C)
  BY DEF Drop, CountWithout
<1> QED
  BY <1>3, <1>4, <1>5, <1>6, ServerAssumption DEF CountsAgree

LEMMA CloseKeeps ==
  ASSUME IInv,
         NEW C, C \subseteq connections,
         NEW L, L \subseteq {listen_fd},
         DelAndClose(L \cup FdsOf(C)), Drop(C),
         listen_fd' = IF L = {} THEN listen_fd ELSE -1
  PROVE  CoreTypes' /\ HandlersMatch' /\ InterestMatch' /\ DescriptorsOwned' /\ CountsAgree'
<1> DEFINE F == L \cup FdsOf(C)
<1>1. connections \subseteq Client /\ connections' = connections \ C
  BY DEF IInv, TypeOK, Drop
<1>2. CountsAgree' /\ conn_count' \in Nat
  BY DropCounts
<1>3. /\ handlers' = {h \in handlers : h.fd \notin F}
      /\ interest' = [fd \in Fd |-> IF fd \in F THEN {} ELSE interest[fd]]
      /\ file' = [fd \in Fd |-> IF fd \in F THEN NoFile ELSE file[fd]]
  BY DelRemoves DEF DelAndClose, Closed
<1>4. conn \in [Client -> Conn] /\ conn' = [c \in Client |-> IF c \in C THEN NewConn(-1) ELSE conn[c]]
  BY DEF IInv, TypeOK, Drop
<1>5. ASSUME NEW c \in connections' PROVE c \in connections /\ conn'[c] = conn[c] /\ Awaited(c)' = Awaited(c)
  BY <1>1, <1>4, <1>5 DEF Awaited
<1>6. ASSUME NEW c \in connections PROVE conn[c].fd \in F <=> c \in C
  <2>1. conn[c].fd \notin L
    BY ConnectionHasFd
  <2>2. conn[c].fd \in FdsOf(C) => c \in C
    BY ConnectionHasFd DEF FdsOf
  <2> QED
    BY <2>1, <2>2 DEF FdsOf
<1>7. listen_fd # -1 => (listen_fd \in F <=> L # {})
  BY ConnectionHasFd DEF FdsOf
<1>8. CoreTypes'
  <2>1. NewConn(-1) \in Conn
    BY DEF NewConn, Conn, States
  <2>2. conn' \in [Client -> Conn]
    BY <1>4, <2>1
  <2>3. file' \in [Fd -> Client \cup {Listener, NoFile}]
    BY <1>3 DEF IInv, TypeOK
  <2>4. interest' \in [Fd -> SUBSET Events]
    BY <1>3 DEF IInv, TypeOK
  <2>5. handlers' \subseteq [fd : Fd, events : SUBSET Events, data : Client \cup {Listener}]
    BY <1>3 DEF IInv, TypeOK
  <2>6. listen_fd' \in Fd \cup {-1}
    BY DEF IInv, TypeOK
  <2> QED
    BY <1>1, <1>2, <2>2, <2>3, <2>4, <2>5, <2>6 DEF CoreTypes
<1>9. HandlersMatch'
  <2>1. ASSUME NEW h \in handlers'
        PROVE  \/ \E c \in connections' : h = Entry(conn'[c].fd, Awaited(c)', c)
               \/ listen_fd' # -1 /\ h = Entry(listen_fd', {READ}, Listener)
    <3>1. h \in handlers /\ h.fd \notin F
      BY <1>3, <2>1
    <3>2. CASE \E c \in connections : h = Entry(conn[c].fd, Awaited(c), c)
      BY <1>1, <1>5, <1>6, <3>1, <3>2 DEF Entry
    <3>3. CASE listen_fd # -1 /\ h = Entry(listen_fd, {READ}, Listener)
      BY <1>7, <3>1, <3>3 DEF Entry
    <3> QED
      BY <3>1, <3>2, <3>3 DEF IInv, HandlersMatch
  <2>2. ASSUME NEW c \in connections' PROVE Entry(conn'[c].fd, Awaited(c)', c) \in handlers'
    <3>1. c \in connections /\ conn[c].fd \notin F
      BY <1>1, <1>5, <1>6, <2>2
    <3>2. Entry(conn[c].fd, Awaited(c), c) \in handlers
      BY <3>1 DEF IInv, HandlersMatch
    <3> QED
      BY <1>3, <1>5, <3>1, <3>2 DEF Entry
  <2>3. listen_fd' # -1 => Entry(listen_fd', {READ}, Listener) \in handlers'
    BY <1>3, <1>7 DEF IInv, HandlersMatch, Entry
  <2> QED
    BY <2>1, <2>2, <2>3 DEF HandlersMatch
<1>10. InterestMatch'
  <2>1. ASSUME NEW c \in connections' PROVE interest'[conn'[c].fd] = Awaited(c)'
    BY <1>1, <1>3, <1>5, <1>6, <2>1, ConnectionHasFd DEF IInv, InterestMatch
  <2>2. listen_fd' # -1 => interest'[listen_fd'] = {READ}
    BY <1>3, <1>7 DEF IInv, InterestMatch, TypeOK
  <2>3. ASSUME NEW fd \in Fd, file'[fd] = NoFile PROVE interest'[fd] = {}
    BY <1>3, <2>3 DEF IInv, InterestMatch
  <2> QED
    BY <2>1, <2>2, <2>3 DEF InterestMatch
<1>11. DescriptorsOwned'
  <2>1. ASSUME NEW fd \in Fd PROVE file'[fd] = Listener <=> fd = listen_fd'
    <3>1. file'[fd] = Listener <=> file[fd] = Listener /\ fd \notin F
      BY <1>3, ServerAssumption
    <3>2. file[fd] = Listener <=> fd = listen_fd
      BY DEF IInv, DescriptorsOwned
    <3>3. fd # -1
      BY MaxFdAssumption DEF Fd
    <3> QED
      BY <1>7, <3>1, <3>2, <3>3
  <2>2. ASSUME NEW fd \in Fd, NEW c \in Client
        PROVE  file'[fd] = c <=> c \in connections' /\ conn'[c].fd = fd
    <3>1. file[fd] = c <=> c \in connections /\ conn[c].fd = fd
      BY DEF IInv, DescriptorsOwned
    <3>2. file'[fd] = c <=> file[fd] = c /\ fd \notin F
      BY <1>3, ServerAssumption
    <3> QED
      BY <1>1, <1>5, <1>6, <3>1, <3>2
  <2> QED
    BY <2>1, <2>2 DEF DescriptorsOwned
<1> QED
  BY <1>2, <1>8, <1>9, <1>10, <1>11

-----------------------------------------------------------------------------
(* The invariant in two halves: what the loop's calls and the connection   *)
(* list are about, and the rest.                                           *)

CoreInv == CoreTypes /\ HandlersMatch /\ InterestMatch /\ DescriptorsOwned /\ CountsAgree

RestTypes ==
  /\ batch \subseteq [fd : Fd, events : SUBSET Events, sock : Client \cup {Listener, NoFile}]
  /\ running \in BOOLEAN /\ accepting \in BOOLEAN
  /\ idle \in [Client -> 0 .. IdleTimeout + 1]
  /\ backlog \in Seq(Client)
  /\ link \in [Client -> Links]
  /\ inq \in [Client -> Seq(Piece)] /\ outq \in [Client -> Seq(Unit)]
  /\ sent \in [Client -> 0 .. 3 * MaxRequest]
  /\ got \in [Client -> Seq(Unit)]

RestInv == RestTypes /\ QueueApart /\ BuffersBounded

LEMMA Halves == IInv <=> CoreInv /\ RestInv
BY DEF IInv, CoreInv, RestInv, TypeOK, CoreTypes, RestTypes

coreVars == <<file, interest, handlers, listen_fd, connections, conn_count, conn>>

LEMMA CoreStays ==
  ASSUME CoreInv, UNCHANGED coreVars
  PROVE  CoreInv'
<1>1. CoreTypes'
  BY DEF CoreInv, coreVars, CoreTypes
<1>2. HandlersMatch' /\ InterestMatch'
  <2>1. \A d \in connections : Awaited(d)' = Awaited(d)
    BY DEF coreVars, Awaited
  <2>2. HandlersMatch'
    BY <2>1 DEF CoreInv, coreVars, HandlersMatch
  <2>3. InterestMatch'
    BY <2>1 DEF CoreInv, coreVars, InterestMatch
  <2> QED
    BY <2>2, <2>3
<1>3. DescriptorsOwned' /\ CountsAgree'
  BY DEF CoreInv, coreVars, DescriptorsOwned, CountsAgree
<1> QED
  BY <1>1, <1>2, <1>3 DEF CoreInv

\* A connection whose callback changes its object, but not what it waits for.
LEMMA ObjectChanges ==
  ASSUME IInv, NEW c \in connections, NEW r \in Conn, r.fd = conn[c].fd,
         conn' = [conn EXCEPT ![c] = r], Awaited(c)' = Awaited(c),
         UNCHANGED <<file, interest, handlers, listen_fd, connections, conn_count>>
  PROVE  CoreInv'
<1>1. c \in Client /\ connections \subseteq Client /\ conn \in [Client -> Conn]
  BY DEF IInv, TypeOK
<1>2. \A d \in Client : conn'[d].fd = conn[d].fd /\ Awaited(d)' = Awaited(d)
  BY <1>1 DEF Awaited
<1>3. CoreTypes'
  BY <1>1 DEF IInv, TypeOK, CoreTypes
<1>4. HandlersMatch'
  BY <1>1, <1>2 DEF IInv, HandlersMatch
<1>5. InterestMatch'
  BY <1>1, <1>2 DEF IInv, InterestMatch
<1>6. DescriptorsOwned' /\ CountsAgree'
  BY <1>1, <1>2 DEF IInv, DescriptorsOwned, CountsAgree
<1> QED
  BY <1>3, <1>4, <1>5, <1>6 DEF CoreInv

\* A connection whose callback switches the event it waits for.
LEMMA ModChanges ==
  ASSUME IInv, NEW c \in connections, NEW r \in Conn, r.fd = conn[c].fd,
         NEW ev \in SUBSET Events,
         conn' = [conn EXCEPT ![c] = r], Awaited(c)' = ev,
         cwh_loop_mod(conn[c].fd, ev),
         UNCHANGED <<file, listen_fd, connections, conn_count>>
  PROVE  CoreInv'
<1>1. c \in Client /\ connections \subseteq Client /\ conn \in [Client -> Conn]
  BY DEF IInv, TypeOK
<1>2. \A d \in Client : conn'[d].fd = conn[d].fd /\ (d # c => Awaited(d)' = Awaited(d))
  BY <1>1 DEF Awaited
<1> DEFINE Mod(h) == IF h.fd = conn[c].fd THEN Entry(h.fd, ev, h.data) ELSE h
<1>3. /\ handlers' = {Mod(h) : h \in handlers}
      /\ interest' = [interest EXCEPT ![conn[c].fd] = ev]
  <2>1. Entry(conn[c].fd, Awaited(c), c) \in find_handler(conn[c].fd)
    BY DEF IInv, HandlersMatch, Entry, find_handler
  <2>2. interest' = [interest EXCEPT ![conn[c].fd] = ev]
    BY <2>1 DEF cwh_loop_mod, InterestModified
  <2> DEFINE Exc(h) == IF h.fd = conn[c].fd THEN [h EXCEPT !.events = ev] ELSE h
  <2>3. ASSUME NEW h \in handlers PROVE Exc(h) = Mod(h)
    <3>1. h \in [fd : Fd, events : SUBSET Events, data : Client \cup {Listener}]
      BY DEF IInv, TypeOK
    <3> QED
      BY <3>1 DEF Entry
  <2>4. handlers' = {Mod(h) : h \in handlers}
    <3>1. handlers' = {Exc(h) : h \in handlers}
      BY DEF cwh_loop_mod
    <3> HIDE DEF Exc, Mod
    <3> QED
      BY <2>3, <3>1
  <2> QED
    BY <2>2, <2>4
<1>4. /\ \A d \in connections : d # c => conn[d].fd # conn[c].fd
      /\ conn[c].fd \in Fd /\ conn[c].fd # listen_fd /\ file[conn[c].fd] = c
  BY ConnectionHasFd
<1>5. CoreTypes'
  <2>1. ASSUME NEW h \in handlers
        PROVE  Mod(h) \in [fd : Fd, events : SUBSET Events, data : Client \cup {Listener}]
    BY DEF IInv, TypeOK, Entry
  <2>2. interest' \in [Fd -> SUBSET Events]
    BY <1>3 DEF IInv, TypeOK
  <2> HIDE DEF Mod
  <2>3. handlers' \subseteq [fd : Fd, events : SUBSET Events, data : Client \cup {Listener}]
    BY <1>3, <2>1
  <2> QED
    BY <1>1, <2>2, <2>3 DEF IInv, TypeOK, CoreTypes
<1>6. HandlersMatch'
  <2>1. ASSUME NEW h \in handlers
        PROVE  \/ \E d \in connections : Mod(h) = Entry(conn'[d].fd, Awaited(d)', d)
               \/ listen_fd # -1 /\ Mod(h) = Entry(listen_fd, {READ}, Listener)
    <3>1. CASE h = Entry(conn[c].fd, Awaited(c), c)
      BY <1>1, <1>2, <3>1 DEF Entry
    <3>2. CASE \E d \in connections : d # c /\ h = Entry(conn[d].fd, Awaited(d), d)
      BY <1>1, <1>2, <1>4, <3>2 DEF Entry
    <3>3. CASE listen_fd # -1 /\ h = Entry(listen_fd, {READ}, Listener)
      BY <1>4, <3>3 DEF Entry
    <3> QED
      BY <3>1, <3>2, <3>3 DEF IInv, HandlersMatch
  <2>2. ASSUME NEW d \in connections
        PROVE  Entry(conn'[d].fd, Awaited(d)', d) \in handlers'
    <3>1. Entry(conn[d].fd, Awaited(d), d) \in handlers
      BY DEF IInv, HandlersMatch
    <3>2. CASE d = c
      BY <1>2, <1>1, <1>3, <3>1, <3>2 DEF Entry
    <3>3. CASE d # c
      BY <1>2, <1>1, <1>3, <1>4, <3>1, <3>3 DEF Entry
    <3> QED
      BY <3>2, <3>3
  <2>3. listen_fd # -1 => Entry(listen_fd, {READ}, Listener) \in handlers'
    BY <1>3, <1>4 DEF IInv, HandlersMatch, Entry
  <2>4. ASSUME NEW k \in handlers'
        PROVE  \/ \E d \in connections : k = Entry(conn'[d].fd, Awaited(d)', d)
               \/ listen_fd # -1 /\ k = Entry(listen_fd, {READ}, Listener)
    BY <1>3, <2>1
  <2> QED
    BY <2>2, <2>3, <2>4 DEF HandlersMatch
<1>7. InterestMatch'
  <2>1. interest \in [Fd -> SUBSET Events]
    BY DEF IInv, TypeOK
  <2>2. ASSUME NEW d \in connections PROVE interest'[conn'[d].fd] = Awaited(d)'
    BY <1>1, <1>2, <1>3, <1>4, <2>1, ConnectionHasFd DEF IInv, InterestMatch
  <2>3. listen_fd # -1 => interest'[listen_fd] = {READ}
    BY <1>3, <1>4, <2>1 DEF IInv, InterestMatch, TypeOK
  <2>4. ASSUME NEW fd \in Fd, file[fd] = NoFile PROVE interest'[fd] = {}
    BY <1>1, <1>3, <1>4, <2>1, <2>4, ServerAssumption DEF IInv, InterestMatch
  <2> QED
    BY <2>2, <2>3, <2>4 DEF InterestMatch
<1>8. DescriptorsOwned' /\ CountsAgree'
  BY <1>1, <1>2 DEF IInv, DescriptorsOwned, CountsAgree
<1> QED
  BY <1>5, <1>6, <1>7, <1>8 DEF CoreInv

\* An accepted connection: a descriptor of its own, an entry, a place in the
\* list within the limit.
LEMMA AcceptKeeps ==
  ASSUME IInv, Accept
  PROVE  CoreInv'
<1>0. PICK c : c = Head(backlog)
  OBVIOUS
<1>1. c \in Client /\ c \notin connections
  <2>1. backlog \in Seq(Client) /\ backlog # <<>>
    BY DEF IInv, TypeOK, Accept
  <2>2. 1 \in DOMAIN backlog /\ c = backlog[1] /\ c \in Client
    BY <1>0, <2>1
  <2> QED
    BY <2>2 DEF IInv, QueueApart
<1>2. PICK fd \in Fd :
        /\ file[fd] = NoFile
        /\ file' = [file EXCEPT ![fd] = c]
        /\ handlers' = handlers \cup {Entry(fd, {READ}, c)}
        /\ interest' = [interest EXCEPT ![fd] = {READ}]
        /\ connections' = connections \cup {c}
        /\ conn_count' = conn_count + 1
        /\ conn' = [conn EXCEPT ![c] = NewConn(fd)]
        /\ listen_fd' = listen_fd
  BY <1>0 DEF Accept, IsNextFd, Free, cwh_loop_add
<1>3. /\ connections \subseteq Client /\ conn \in [Client -> Conn]
      /\ file \in [Fd -> Client \cup {Listener, NoFile}]
      /\ interest \in [Fd -> SUBSET Events]
  BY DEF IInv, TypeOK
<1>4. conn'[c] = NewConn(fd) /\ \A d \in connections : d # c /\ conn'[d] = conn[d]
  BY <1>1, <1>2, <1>3
<1>5. Awaited(c)' = {READ} /\ \A d \in connections : Awaited(d)' = Awaited(d)
  BY <1>3, <1>4 DEF Awaited, NewConn
<1>6. NewConn(fd) \in Conn /\ NewConn(fd).fd = fd
  BY DEF NewConn, Conn, States
<1>7. fd # listen_fd /\ \A d \in connections : conn[d].fd # fd
  BY <1>1, <1>2, <1>3, ServerAssumption DEF IInv, DescriptorsOwned
<1>8. CountsAgree' /\ conn_count' \in Nat
  <2>1. IsFiniteSet(connections)
    BY <1>3, ServerAssumption, FS_Subset
  <2>2. Cardinality(connections \cup {c}) = Cardinality(connections) + 1
    BY <1>1, <2>1, FS_AddElement
  <2>3. conn_count < MaxConnections
    BY DEF Accept, MayAccept
  <2> QED
    BY <1>2, <2>1, <2>2, <2>3, ServerAssumption, FS_CardinalityType DEF IInv, CountsAgree, TypeOK
<1>9. CoreTypes'
  <2>1. handlers' \subseteq [fd : Fd, events : SUBSET Events, data : Client \cup {Listener}]
    BY <1>1, <1>2 DEF IInv, TypeOK, Entry, Events
  <2>2. interest' \in [Fd -> SUBSET Events]
    BY <1>2, <1>3 DEF Events
  <2> QED
    BY <1>1, <1>2, <1>3, <1>6, <1>8, <2>1, <2>2 DEF CoreTypes, IInv, TypeOK
<1>10. HandlersMatch'
  <2>1. \A d \in connections : Entry(conn'[d].fd, Awaited(d)', d) = Entry(conn[d].fd, Awaited(d), d)
    BY <1>4, <1>5
  <2>2. Entry(conn'[c].fd, Awaited(c)', c) = Entry(fd, {READ}, c)
    BY <1>4, <1>5, <1>6
  <2> QED
    BY <1>2, <2>1, <2>2 DEF IInv, HandlersMatch
<1>11. InterestMatch'
  <2>1. ASSUME NEW d \in connections' PROVE interest'[conn'[d].fd] = Awaited(d)'
    <3>1. CASE d = c
      BY <1>2, <1>3, <1>4, <1>5, <1>6, <3>1
    <3>2. CASE d \in connections
      BY <1>2, <1>3, <1>4, <1>5, <1>7, <3>2, ConnectionHasFd DEF IInv, InterestMatch
    <3> QED
      BY <1>2, <3>1, <3>2
  <2>2. listen_fd # -1 => interest'[listen_fd] = {READ}
    BY <1>2, <1>3, <1>7 DEF IInv, InterestMatch, TypeOK
  <2>3. ASSUME NEW g \in Fd, file'[g] = NoFile PROVE interest'[g] = {}
    BY <1>1, <1>2, <1>3, <2>3, ServerAssumption DEF IInv, InterestMatch
  <2> QED
    BY <1>2, <2>1, <2>2, <2>3 DEF InterestMatch
<1>12. DescriptorsOwned'
  <2>1. ASSUME NEW g \in Fd PROVE file'[g] = Listener <=> g = listen_fd'
    BY <1>1, <1>2, <1>3, <1>7, ServerAssumption DEF IInv, DescriptorsOwned
  <2>2. ASSUME NEW g \in Fd, NEW d \in Client
        PROVE  file'[g] = d <=> d \in connections' /\ conn'[d].fd = g
    <3>1. file[g] = d <=> d \in connections /\ conn[d].fd = g
      BY DEF IInv, DescriptorsOwned
    <3>2. CASE d = c
      BY <1>1, <1>2, <1>3, <1>4, <1>6, <3>1, <3>2
    <3>3. CASE d # c
      BY <1>2, <1>3, <1>4, <1>7, <3>1, <3>3, ServerAssumption
    <3> QED
      BY <3>2, <3>3
  <2> QED
    BY <2>1, <2>2 DEF DescriptorsOwned
<1> QED
  BY <1>8, <1>9, <1>10, <1>11, <1>12 DEF CoreInv

-----------------------------------------------------------------------------
(* The steps.                                                              *)

\* What remains to be shown of a step that closes connections and hangs up.
LEMMA ClosingKeeps ==
  ASSUME IInv, NEW C, C \subseteq connections,
         DelAndClose(FdsOf(C)), Drop(C), Hangup(C), UNCHANGED <<listen_fd, backlog>>,
         \A d \in Client : Len(outq'[d]) <= SndCap
  PROVE  /\ CoreInv' /\ QueueApart' /\ BuffersBounded'
         /\ link' \in [Client -> Links] /\ inq' \in [Client -> Seq(Piece)]
<1>1. CoreInv'
  <2>1. PICK L : L = {}
    OBVIOUS
  <2>2. DelAndClose(L \cup FdsOf(C))
    <3>1. L \cup FdsOf(C) = FdsOf(C)
      BY <2>1
    <3> QED
      BY <3>1
  <2> QED
    BY <2>1, <2>2, CloseKeeps DEF CoreInv
<1>2. /\ link \in [Client -> Links] /\ inq \in [Client -> Seq(Piece)]
      /\ backlog \in Seq(Client) /\ connections \subseteq Client /\ conn \in [Client -> Conn]
  BY DEF IInv, TypeOK
<1>3. link' \in [Client -> Links] /\ inq' \in [Client -> Seq(Piece)]
  BY <1>2 DEF Hangup, Links
<1>4. QueueApart'
  BY <1>2 DEF IInv, QueueApart, Hangup, Drop
<1>5. \A d \in Client : Len(conn'[d].recv_buf) <= RecvCap
  BY <1>2, ServerAssumption DEF IInv, BuffersBounded, Drop, NewConn
<1> QED
  BY <1>1, <1>3, <1>4, <1>5 DEF BuffersBounded

LEMMA TouchTyped ==
  ASSUME IInv, NEW c
  PROVE  [idle EXCEPT ![c] = 0] \in [Client -> 0 .. IdleTimeout + 1]
<1>1. idle \in [Client -> 0 .. IdleTimeout + 1]
  BY DEF IInv, TypeOK
<1>2. 0 \in 0 .. IdleTimeout + 1
  BY ServerAssumption
<1> QED
  BY <1>1, <1>2

LEMMA StopKeeps ==
  ASSUME IInv, server_stop, batch' \subseteq batch,
         idle' \in [Client -> 0 .. IdleTimeout + 1]
  PROVE  IInv'
<1>1. PICK C, L : C = connections /\ L = {listen_fd}
  OBVIOUS
<1>2. DelAndClose(L \cup FdsOf(C)) /\ Drop(C)
  <2>1. L \cup FdsOf(C) = {listen_fd} \cup FdsOf(connections)
    BY <1>1
  <2> QED
    BY <1>1, <2>1 DEF server_stop
<1>3. CoreInv'
  <2>1. listen_fd' = IF L = {} THEN listen_fd ELSE -1
    BY <1>1 DEF server_stop
  <2> QED
    BY <1>1, <1>2, <2>1, CloseKeeps DEF CoreInv
<1>4. connections' = {}
  BY DEF server_stop, Drop
<1>5. RestTypes'
  <2>1. link' \in [Client -> Links] /\ inq' \in [Client -> Seq(Piece)]
    BY DEF IInv, TypeOK, server_stop, Hangup, Links
  <2>2. backlog' = <<>> /\ running' = FALSE /\ UNCHANGED <<accepting, outq, sent, got>>
    BY DEF server_stop
  <2>3. backlog' \in Seq(Client)
    BY <2>2
  <2>4. running' \in BOOLEAN
    BY <2>2, Zenon
  <2> QED
    BY <2>1, <2>2, <2>3, <2>4 DEF IInv, TypeOK, RestTypes
<1>6. QueueApart'
  BY <1>4 DEF QueueApart, server_stop
<1>7. BuffersBounded'
  BY ServerAssumption DEF IInv, TypeOK, BuffersBounded, server_stop, Drop, NewConn
<1> QED
  BY <1>3, <1>5, <1>6, <1>7, Halves DEF RestInv, IInv, CoreInv, TypeOK, CoreTypes, RestTypes

\* The steps of the loop outside the connections' callbacks.
LEMMA LoopKeeps ==
  ASSUME IInv, Wait \/ Skip \/ ListenEvent \/ Accept \/ AcceptThenFail \/ AcceptError \/ AcceptDone
  PROVE  CoreInv' /\ RestInv'
<1> USE DEF RestInv
<1>0. CoreInv
  BY Halves
<1>1. CASE Wait
  <2>1. CoreInv' /\ UNCHANGED <<running, listen_fd, connections, conn, accepting, idle, netVars>>
    BY <1>0, <1>1, CoreStays DEF Wait, epoll_wait, serverVars, coreVars
  <2>2. batch' \subseteq [fd : Fd, events : SUBSET Events, sock : Client \cup {Listener, NoFile}]
    <3>1. \A fd \in Fd : Due(Level, fd) \in SUBSET Events
      BY DEF Level, Due
    <3>2. \A fd \in Fd : file[fd] \in Client \cup {Listener, NoFile}
      BY DEF IInv, TypeOK
    <3> QED
      BY <1>1, <3>1, <3>2 DEF Wait, epoll_wait, Ready, Report
  <2>3. RestTypes'
    BY <2>1, <2>2 DEF IInv, TypeOK, RestTypes, netVars
  <2>4. QueueApart' /\ BuffersBounded'
    BY <2>1 DEF IInv, QueueApart, BuffersBounded, netVars
  <2> QED
    BY <2>1, <2>3, <2>4
<1>2. CASE Skip
  <2>1. CoreInv' /\ UNCHANGED <<running, listen_fd, connections, conn, accepting, idle, netVars>>
        /\ batch' \subseteq batch
    BY <1>0, <1>2, CoreStays DEF Skip, DispatchNone, Consume, serverVars, coreVars
  <2>3. RestTypes'
    BY <2>1 DEF IInv, TypeOK, RestTypes, netVars
  <2>4. QueueApart' /\ BuffersBounded'
    BY <2>1 DEF IInv, QueueApart, BuffersBounded, netVars
  <2> QED
    BY <2>1, <2>3, <2>4
<1>3. CASE ListenEvent
  <2>1. PICK C : C = {c \in connections : Expired(c)}
    OBVIOUS
  <2>2. /\ DelAndClose(FdsOf(C)) /\ Drop(C) /\ Hangup(C) /\ C \subseteq connections
        /\ UNCHANGED <<running, listen_fd, idle, backlog, outq, sent, got>>
        /\ batch' \subseteq batch /\ accepting' = TRUE
    BY <1>3, <2>1 DEF ListenEvent, Consume
  <2>3. \A d \in Client : Len(outq'[d]) <= SndCap
    BY <2>2 DEF IInv, BuffersBounded
  <2>4. /\ CoreInv' /\ QueueApart' /\ BuffersBounded'
        /\ link' \in [Client -> Links] /\ inq' \in [Client -> Seq(Piece)]
    BY <2>2, <2>3, ClosingKeeps
  <2>5. RestTypes'
    BY <2>2, <2>4 DEF IInv, TypeOK, RestTypes
  <2> QED
    BY <2>4, <2>5
<1>4. CASE Accept
  <2>1. backlog \in Seq(Client) /\ backlog # <<>> /\ backlog' = Tail(backlog)
    BY <1>4 DEF IInv, TypeOK, Accept
  <2>2. PICK c : c = Head(backlog) /\ c = backlog[1]
    BY <2>1
  <2>3. /\ c \in Client /\ connections' = connections \cup {c}
        /\ backlog' \in Seq(Client)
        /\ DOMAIN backlog' = 1 .. Len(backlog) - 1
        /\ \A i \in DOMAIN backlog' : i + 1 \in DOMAIN backlog /\ backlog'[i] = backlog[i + 1]
    BY <1>4, <2>1, <2>2 DEF Accept
  <2>4. PICK fd : conn' = [conn EXCEPT ![c] = NewConn(fd)]
    BY <1>4, <2>2 DEF Accept
  <2>5. RestTypes'
    <3>1. /\ UNCHANGED <<batch, running, accepting, link, inq, outq, sent, got>>
          /\ idle' = [idle EXCEPT ![c] = 0]
      BY <1>4, <2>2 DEF Accept
    <3>2. idle' \in [Client -> 0 .. IdleTimeout + 1]
      BY <3>1, TouchTyped
    <3> QED
      BY <2>3, <3>1, <3>2 DEF IInv, TypeOK, RestTypes
  <2>6. QueueApart'
    <3>1. /\ 1 \in DOMAIN backlog
          /\ \A i \in DOMAIN backlog' : i \in Nat /\ i + 1 # 1
      BY <2>1, <2>3
    <3>2. \A i \in DOMAIN backlog' : backlog'[i] # c
      BY <2>2, <2>3, <3>1 DEF IInv, QueueApart
    <3>3. UNCHANGED link
      BY <1>4 DEF Accept
    <3>4. \A i \in DOMAIN backlog' : backlog'[i] \notin connections' /\ link'[backlog'[i]] # "none"
      BY <2>3, <3>2, <3>3 DEF IInv, QueueApart
    <3>5. \A i, j \in DOMAIN backlog' : backlog'[i] = backlog'[j] => i = j
      <4>1. ASSUME NEW i \in DOMAIN backlog', NEW j \in DOMAIN backlog', backlog'[i] = backlog'[j]
            PROVE  i = j
        <5>1. i + 1 = j + 1
          BY <2>3, <4>1 DEF IInv, QueueApart
        <5> QED
          BY <3>1, <5>1
      <4> QED
        BY <4>1
    <3>6. \A d \in connections' : link'[d] # "none"
      BY <2>2, <2>3, <3>1, <3>3 DEF IInv, QueueApart
    <3> QED
      BY <3>4, <3>5, <3>6 DEF QueueApart
  <2>7. BuffersBounded'
    BY <1>4, <2>4, ServerAssumption DEF IInv, TypeOK, BuffersBounded, Accept, NewConn
  <2> QED
    BY <1>4, <2>5, <2>6, <2>7, AcceptKeeps
<1>5. CASE AcceptThenFail
  <2>1. CoreInv' /\ UNCHANGED <<batch, running, connections, conn, accepting, idle, outq, sent, got>>
    BY <1>0, <1>5, CoreStays DEF AcceptThenFail, serverVars, coreVars, loopVars
  <2>2. backlog \in Seq(Client) /\ backlog # <<>> /\ backlog' = Tail(backlog)
    BY <1>5 DEF IInv, TypeOK, AcceptThenFail
  <2>3. /\ backlog' \in Seq(Client)
        /\ \A i \in DOMAIN backlog' : i \in Nat /\ i + 1 \in DOMAIN backlog /\ backlog'[i] = backlog[i + 1]
    BY <2>2
  <2>4. /\ link' \in [Client -> Links] /\ inq' \in [Client -> Seq(Piece)]
        /\ \A c \in Client : link[c] # "none" => link'[c] # "none"
    BY <1>5 DEF IInv, TypeOK, AcceptThenFail, Hangup, Links
  <2>5. RestTypes'
    BY <2>1, <2>3, <2>4 DEF IInv, TypeOK, RestTypes
  <2>6. QueueApart'
    <3>1. \A i \in DOMAIN backlog' : backlog'[i] \notin connections' /\ link'[backlog'[i]] # "none"
      BY <2>1, <2>2, <2>3, <2>4 DEF IInv, QueueApart
    <3>2. \A i, j \in DOMAIN backlog' : backlog'[i] = backlog'[j] => i = j
      <4>1. ASSUME NEW i \in DOMAIN backlog', NEW j \in DOMAIN backlog', backlog'[i] = backlog'[j]
            PROVE  i = j
        <5>1. i + 1 = j + 1
          BY <2>3, <4>1 DEF IInv, QueueApart
        <5> QED
          BY <2>3, <5>1
      <4> QED
        BY <4>1
    <3>3. \A d \in connections' : link'[d] # "none"
      BY <2>1, <2>4 DEF IInv, QueueApart, TypeOK
    <3> QED
      BY <3>1, <3>2, <3>3 DEF QueueApart
  <2>7. BuffersBounded'
    BY <2>1 DEF IInv, BuffersBounded
  <2> QED
    BY <2>1, <2>5, <2>6, <2>7
<1>6. CASE AcceptError
  <2>1. CoreInv'
    BY <1>0, <1>6, CoreStays DEF AcceptError, vars, loopVars, serverVars, coreVars
  <2>2. RestInv'
    BY <1>6 DEF AcceptError, vars, loopVars, serverVars, netVars, IInv, TypeOK, RestTypes, QueueApart, BuffersBounded
  <2> QED
    BY <2>1, <2>2
<1>7. CASE AcceptDone
  <2>1. CoreInv' /\ accepting' = FALSE /\ UNCHANGED <<batch, running, connections, conn, idle, netVars>>
    BY <1>0, <1>7, CoreStays DEF AcceptDone, coreVars, loopVars
  <2>2. RestInv'
    BY <2>1 DEF netVars, IInv, TypeOK, RestTypes, QueueApart, BuffersBounded
  <2> QED
    BY <2>1, <2>2
<1> QED
  BY <1>1, <1>2, <1>3, <1>4, <1>5, <1>6, <1>7

\* Types and lengths of the sequences a partial transfer leaves.
LEMMA SubSeqTyped ==
  ASSUME NEW S, NEW s \in Seq(S), NEW n \in 0 .. Len(s)
  PROVE  /\ SubSeq(s, 1, n) \in Seq(S) /\ Len(SubSeq(s, 1, n)) = n
         /\ SubSeq(s, n + 1, Len(s)) \in Seq(S)
OBVIOUS

LEMMA ConcatTyped ==
  ASSUME NEW S, NEW s \in Seq(S), NEW t \in Seq(S)
  PROVE  s \o t \in Seq(S) /\ Len(s \o t) = Len(s) + Len(t)
OBVIOUS

LEMMA RoomLeft ==
  ASSUME NEW have \in Nat, NEW used \in Nat, NEW cap \in Nat, used <= cap
  PROVE  LET n == IF have < cap - used THEN have ELSE cap - used
         IN  n \in 0 .. have /\ used + n <= cap
OBVIOUS

\* recv leaves no more than the buffer holds.
LEMMA ReceivedFits ==
  ASSUME IInv, NEW c \in Client
  PROVE  /\ Received(c) \in Seq(Piece)
         /\ conn[c].recv_buf \o Received(c) \in Seq(Piece)
         /\ Len(conn[c].recv_buf \o Received(c)) <= RecvCap
         /\ SubSeq(inq[c], Len(Received(c)) + 1, Len(inq[c])) \in Seq(Piece)
<1> DEFINE n == IF Len(inq[c]) < RecvCap - Len(conn[c].recv_buf)
                THEN Len(inq[c]) ELSE RecvCap - Len(conn[c].recv_buf)
<1>1. inq[c] \in Seq(Piece) /\ conn[c] \in Conn /\ conn[c].recv_buf \in Seq(Piece)
  BY DEF IInv, TypeOK, Conn
<1>2. n \in 0 .. Len(inq[c]) /\ Len(conn[c].recv_buf) + n <= RecvCap
  <2>1. Len(inq[c]) \in Nat /\ Len(conn[c].recv_buf) \in Nat
    BY <1>1
  <2>2. Len(conn[c].recv_buf) <= RecvCap /\ RecvCap \in Nat
    BY ServerAssumption DEF IInv, BuffersBounded
  <2> QED
    BY <2>1, <2>2, RoomLeft
<1>3. Received(c) = SubSeq(inq[c], 1, n)
  BY DEF Received
<1> HIDE DEF n
<1>4. Received(c) \in Seq(Piece) /\ Len(Received(c)) = n
  BY <1>1, <1>2, <1>3
<1>5. SubSeq(inq[c], n + 1, Len(inq[c])) \in Seq(Piece)
  BY <1>1, <1>2
<1> QED
  BY <1>1, <1>2, <1>4, <1>5, ServerAssumption

\* An answer as it is put into send_buf.
LEMMA ResponseTyped ==
  ASSUME NEW r \in 1 .. MaxRequest
  PROVE  /\ Copied(r) \in 1 .. SendRoom /\ Response(r) \in Seq(Unit)
         /\ Len(Response(r)) = Copied(r)
         /\ \A i \in 1 .. Copied(r) : Response(r)[i] = [req |-> r, nth |-> i]
<1>1. Copied(r) \in 1 .. SendRoom
  <2>1. AnswerLen[r] \in Nat \ {0} /\ SendRoom \in Nat \ {0}
    BY ServerAssumption
  <2> QED
    BY <2>1 DEF Copied
<1>2. \A i \in 1 .. Copied(r) : [req |-> r, nth |-> i] \in Unit
  BY <1>1, ServerAssumption DEF Unit
<1>3. Copied(r) \in Nat
  BY <1>1, ServerAssumption
<1> QED
  BY <1>1, <1>2, <1>3 DEF Response

\* send leaves no more than the kernel's buffer holds.
LEMMA WrittenFits ==
  ASSUME IInv, NEW c \in Client
  PROVE  /\ Fits(c) \in 0 .. Len(conn[c].send_buf)
         /\ outq[c] \o SubSeq(conn[c].send_buf, 1, Fits(c)) \in Seq(Unit)
         /\ Len(outq[c] \o SubSeq(conn[c].send_buf, 1, Fits(c))) <= SndCap
         /\ SubSeq(conn[c].send_buf, Fits(c) + 1, Len(conn[c].send_buf)) \in Seq(Unit)
<1>1. outq[c] \in Seq(Unit) /\ conn[c].send_buf \in Seq(Unit)
  BY DEF IInv, TypeOK, Conn
<1>2. Fits(c) \in 0 .. Len(conn[c].send_buf) /\ Len(outq[c]) + Fits(c) <= SndCap
  <2>1. Len(outq[c]) \in Nat /\ Len(conn[c].send_buf) \in Nat
    BY <1>1
  <2>2. Len(outq[c]) <= SndCap /\ SndCap \in Nat
    BY ServerAssumption DEF IInv, BuffersBounded
  <2> QED
    BY <2>1, <2>2, RoomLeft DEF Fits
<1>3. /\ SubSeq(conn[c].send_buf, 1, Fits(c)) \in Seq(Unit)
      /\ Len(SubSeq(conn[c].send_buf, 1, Fits(c))) = Fits(c)
  BY <1>1, <1>2, SubSeqTyped
<1>4. SubSeq(conn[c].send_buf, Fits(c) + 1, Len(conn[c].send_buf)) \in Seq(Unit)
  BY <1>1, <1>2, SubSeqTyped
<1>5. /\ outq[c] \o SubSeq(conn[c].send_buf, 1, Fits(c)) \in Seq(Unit)
      /\ Len(outq[c] \o SubSeq(conn[c].send_buf, 1, Fits(c))) = Len(outq[c]) + Fits(c)
  BY <1>1, <1>3, ConcatTyped
<1> QED
  BY <1>2, <1>4, <1>5

\* What every callback leaves alone or types the same way.
CallbackFrame(c) ==
  /\ batch' \subseteq batch
  /\ idle' \in [Client -> 0 .. IdleTimeout + 1]

\* A callback that closes its connection.
LEMMA CallbackCloses ==
  ASSUME IInv, NEW c \in connections, CallbackFrame(c),
         DelAndClose({conn[c].fd}), Drop({c}), Hangup({c}),
         UNCHANGED <<running, listen_fd, accepting, backlog, sent, got>>,
         outq' \in [Client -> Seq(Unit)],
         \A d \in Client : Len(outq'[d]) <= SndCap
  PROVE  CoreInv' /\ RestInv'
<1>1. DelAndClose(FdsOf({c}))
  <2>1. FdsOf({c}) = {conn[c].fd}
    BY DEF FdsOf
  <2> QED
    BY <2>1
<1>2. /\ CoreInv' /\ QueueApart' /\ BuffersBounded'
      /\ link' \in [Client -> Links] /\ inq' \in [Client -> Seq(Piece)]
  BY <1>1, ClosingKeeps
<1>3. RestTypes'
  BY <1>2 DEF CallbackFrame, IInv, TypeOK, RestTypes
<1> QED
  BY <1>2, <1>3 DEF RestInv

\* A callback that keeps it: the core is a matter of its object alone.
LEMMA CallbackStays ==
  ASSUME IInv, NEW c \in connections, CallbackFrame(c), CoreInv',
         NEW r, Len(r.recv_buf) <= RecvCap, conn' = [conn EXCEPT ![c] = r],
         UNCHANGED <<running, accepting, connections, backlog, link, sent, got>>,
         inq' \in [Client -> Seq(Piece)], outq' \in [Client -> Seq(Unit)],
         \A d \in Client : Len(outq'[d]) <= SndCap
  PROVE  CoreInv' /\ RestInv'
<1>1. RestTypes'
  BY DEF CallbackFrame, IInv, TypeOK, RestTypes
<1>2. QueueApart'
  BY DEF IInv, QueueApart
<1>3. BuffersBounded'
  BY DEF IInv, TypeOK, BuffersBounded
<1> QED
  BY <1>1, <1>2, <1>3 DEF RestInv

LEMMA CallbackKeeps ==
  ASSUME IInv, NEW c \in Client, Callback(c)
  PROVE  CoreInv' /\ RestInv'
<1>1. PICK e \in batch :
        /\ Delivers(e, c) /\ Consume(e) /\ Touch(c)
        /\ \/ OnError(c, e) \/ OnReadFailure(c, e) \/ OnReadMore(c, e)
           \/ OnRequest(c, e) \/ OnWriteFailure(c, e) \/ OnWriteMore(c, e)
           \/ OnWriteKeepAlive(c, e) \/ OnWriteClose(c, e) \/ OnIgnored(c, e)
  BY DEF Callback
<1>2. c \in connections
  BY <1>1, DeliveredIsConnected
<1>3. CallbackFrame(c)
  BY <1>1, TouchTyped DEF CallbackFrame, Consume, Touch
<1>4. /\ conn \in [Client -> Conn] /\ conn[c] \in Conn /\ conn[c].recv_buf \in Seq(Piece)
      /\ inq \in [Client -> Seq(Piece)] /\ outq \in [Client -> Seq(Unit)]
  BY DEF IInv, TypeOK, Conn
<1>5. \A d \in Client : Len(outq[d]) <= SndCap /\ Len(conn[d].recv_buf) <= RecvCap
  BY DEF IInv, BuffersBounded
\* What a write leaves in the kernel's buffer.
<1>6. ASSUME Written(c)
      PROVE  /\ outq' \in [Client -> Seq(Unit)]
             /\ \A d \in Client : Len(outq'[d]) <= SndCap
  <2>1. outq' = [outq EXCEPT ![c] = @ \o SubSeq(conn[c].send_buf, 1, Fits(c))]
    BY <1>6 DEF Written
  <2> QED
    BY <1>4, <1>5, <2>1, WrittenFits
<1>7. CASE close_connection({c})
  <2>1. FdsOf({c}) = {conn[c].fd}
    BY DEF FdsOf
  <2> QED
    BY <1>2, <1>3, <1>4, <1>5, <1>7, <2>1, CallbackCloses DEF close_connection
<1>8. CASE OnReadMore(c, e)
  <2>1. PICK r : r = [conn[c] EXCEPT !.recv_buf = @ \o Received(c)]
    OBVIOUS
  <2>2. r \in Conn /\ r.fd = conn[c].fd /\ r.state = conn[c].state
        /\ Len(r.recv_buf) <= RecvCap
    BY <1>4, <2>1, ReceivedFits DEF Conn
  <2>3. /\ conn' = [conn EXCEPT ![c] = r]
        /\ inq' = [inq EXCEPT ![c] = SubSeq(@, Len(Received(c)) + 1, Len(@))]
        /\ Stay /\ UNCHANGED <<backlog, link, outq, sent, got>>
    BY <1>4, <1>8, <2>1 DEF OnReadMore
  <2>4. Awaited(c)' = Awaited(c)
    BY <1>4, <2>2, <2>3 DEF Awaited
  <2>5. CoreInv'
    BY <1>2, <2>2, <2>3, <2>4, ObjectChanges DEF Stay
  <2>6. inq' \in [Client -> Seq(Piece)]
    BY <1>4, <2>3, ReceivedFits
  <2> QED
    BY <1>2, <1>3, <1>4, <1>5, <2>2, <2>3, <2>5, <2>6, CallbackStays DEF Stay
<1>9. CASE OnRequest(c, e)
  <2>1. PICK buf, ka, read :
          /\ buf = conn[c].recv_buf \o Received(c)
          /\ ka = (conn[c].keep_alive \/ AsksKeepAlive(buf))
          /\ read = [conn[c] EXCEPT !.recv_buf = buf, !.keep_alive = ka]
    OBVIOUS
  <2>2. conn[c].state = "READING_REQUEST" /\ cwh_parse_req(buf)
    BY <1>9, <2>1 DEF OnRequest, ReadEvent
  <2>3. buf \in Seq(Piece) /\ Len(buf) <= RecvCap /\ buf[1] \in Piece
    <3>1. buf \in Seq(Piece) /\ Len(buf) <= RecvCap
      BY <1>1, <2>1, ReceivedFits
    <3>2. Len(buf) >= 2
      BY <2>2 DEF cwh_parse_req
    <3> QED
      BY <3>1, <3>2
  <2>4. ka \in BOOLEAN
    BY <2>1
  <2>5. read \in Conn /\ read.fd = conn[c].fd /\ read.recv_buf = buf
    BY <1>4, <2>1, <2>3, <2>4 DEF Conn
  <2>6. ASSUME inq' = [inq EXCEPT ![c] = SubSeq(@, Len(Received(c)) + 1, Len(@))]
        PROVE  inq' \in [Client -> Seq(Piece)]
    BY <1>4, <2>6, ReceivedFits
  <2>7. CASE /\ conn' = [conn EXCEPT ![c] = [read EXCEPT !.state = "WRITING_RESPONSE",
                                                         !.send_buf = Response(buf[1].req)]]
             /\ inq' = [inq EXCEPT ![c] = SubSeq(@, Len(Received(c)) + 1, Len(@))]
             /\ cwh_loop_mod(conn[c].fd, {WRITE})
             /\ UNCHANGED <<file, running, listen_fd, connections, conn_count,
                            accepting, backlog, link, outq, sent, got>>
    <3>1. PICK r : r = [read EXCEPT !.state = "WRITING_RESPONSE", !.send_buf = Response(buf[1].req)]
      OBVIOUS
    <3>2. Response(buf[1].req) \in Seq(Unit)
      <4>1. buf[1] \in Piece
        BY <2>3
      <4> QED
        BY <4>1, ResponseTyped DEF Piece
    <3>3. /\ r \in Conn /\ r.fd = conn[c].fd /\ r.state = "WRITING_RESPONSE"
          /\ Len(r.recv_buf) <= RecvCap
      BY <2>3, <2>5, <3>1, <3>2 DEF Conn, States
    <3>4. conn' = [conn EXCEPT ![c] = r] /\ Awaited(c)' = {WRITE}
      BY <1>4, <2>7, <3>1, <3>3 DEF Awaited
    <3>5. CoreInv'
      <4>1. {WRITE} \in SUBSET Events
        BY DEF Events
      <4> QED
        BY <1>2, <2>7, <3>3, <3>4, <4>1, ModChanges
    <3> QED
      BY <1>2, <1>3, <1>4, <1>5, <2>6, <2>7, <3>3, <3>4, <3>5, CallbackStays
  <2>8. CASE /\ conn' = [conn EXCEPT ![c] = [read EXCEPT !.state = "PROCESSING"]]
             /\ inq' = [inq EXCEPT ![c] = SubSeq(@, Len(Received(c)) + 1, Len(@))]
             /\ Stay /\ UNCHANGED <<backlog, link, outq, sent, got>>
    <3>1. PICK r : r = [read EXCEPT !.state = "PROCESSING"]
      OBVIOUS
    <3>2. r \in Conn /\ r.fd = conn[c].fd /\ r.state = "PROCESSING" /\ Len(r.recv_buf) <= RecvCap
      BY <2>3, <2>5, <3>1 DEF Conn, States
    <3>3. conn' = [conn EXCEPT ![c] = r] /\ Awaited(c)' = Awaited(c)
      BY <1>4, <2>2, <2>8, <3>1, <3>2 DEF Awaited
    <3>4. CoreInv'
      BY <1>2, <2>8, <3>2, <3>3, ObjectChanges DEF Stay
    <3> QED
      BY <1>2, <1>3, <1>4, <1>5, <2>6, <2>8, <3>2, <3>3, <3>4, CallbackStays DEF Stay
  <2>9. CASE server_stop
    BY <1>3, <2>9, StopKeeps, Halves DEF CallbackFrame, IInv, CoreInv, RestInv, TypeOK, CoreTypes, RestTypes
  <2> QED
    BY <1>9, <2>1, <2>7, <2>8, <2>9 DEF OnRequest
<1>10. CASE OnWriteMore(c, e)
  <2>1. PICK r : r = [conn[c] EXCEPT !.send_buf = SubSeq(@, Fits(c) + 1, Len(@))]
    OBVIOUS
  <2>2. r \in Conn /\ r.fd = conn[c].fd /\ r.state = conn[c].state
        /\ r.recv_buf = conn[c].recv_buf
    BY <1>4, <2>1, WrittenFits DEF Conn
  <2>3. conn' = [conn EXCEPT ![c] = r] /\ Written(c) /\ Stay /\ UNCHANGED <<backlog, link, inq>>
    BY <1>4, <1>10, <2>1 DEF OnWriteMore
  <2>4. Awaited(c)' = Awaited(c)
    BY <1>4, <2>2, <2>3 DEF Awaited
  <2>5. CoreInv'
    BY <1>2, <2>2, <2>3, <2>4, ObjectChanges DEF Stay
  <2> QED
    BY <1>2, <1>3, <1>4, <1>5, <1>6, <2>2, <2>3, <2>5, CallbackStays DEF Stay, Written
<1>11. CASE OnWriteKeepAlive(c, e)
  <2>1. PICK r : r = ResetForNext(conn[c])
    OBVIOUS
  <2>2. r \in Conn /\ r.fd = conn[c].fd /\ r.state = "READING_REQUEST" /\ Len(r.recv_buf) <= RecvCap
    <3>1. r = [conn[c] EXCEPT !.state = "READING_REQUEST", !.recv_buf = <<>>, !.send_buf = <<>>]
      BY <2>1 DEF ResetForNext
    <3>2. <<>> \in Seq(Piece) /\ <<>> \in Seq(Unit) /\ Len(<<>>) <= RecvCap
      BY ServerAssumption
    <3> QED
      BY <1>4, <3>1, <3>2 DEF Conn, States
  <2>3. /\ conn' = [conn EXCEPT ![c] = r] /\ Written(c) /\ cwh_loop_mod(conn[c].fd, {READ})
        /\ UNCHANGED <<file, running, listen_fd, connections, conn_count, accepting,
                       backlog, link, inq>>
    BY <1>4, <1>11, <2>1 DEF OnWriteKeepAlive
  <2>4. Awaited(c)' = {READ} /\ {READ} \in SUBSET Events
    BY <1>4, <2>2, <2>3 DEF Awaited, Events
  <2>5. CoreInv'
    BY <1>2, <2>2, <2>3, <2>4, ModChanges
  <2> QED
    BY <1>2, <1>3, <1>4, <1>6, <2>2, <2>3, <2>5, CallbackStays DEF Written
<1>12. CASE OnWriteClose(c, e)
  BY <1>2, <1>3, <1>6, <1>12, CallbackCloses DEF OnWriteClose, Written
<1>13. CASE OnIgnored(c, e)
  <2>1. CoreInv'
    BY <1>13, Halves, CoreStays DEF OnIgnored, Stay, coreVars
  <2>2. conn' = [conn EXCEPT ![c] = conn[c]]
    BY <1>4, <1>13 DEF OnIgnored
  <2> QED
    BY <1>2, <1>3, <1>4, <1>5, <1>13, <2>1, <2>2, CallbackStays DEF OnIgnored, Stay, netVars
<1> QED
  BY <1>1, <1>7, <1>8, <1>9, <1>10, <1>11, <1>12, <1>13
     DEF OnError, OnReadFailure, OnWriteFailure

LEMMA PieceIndex ==
  ASSUME NEW n \in Nat, NEW m \in Nat, n < 3 * m
  PROVE  (n \div 3) + 1 \in 1 .. m /\ (n % 3) + 1 \in 1 .. 3
OBVIOUS

LEMMA EnvironmentKeeps ==
  ASSUME IInv, Environment
  PROVE  CoreInv' /\ RestInv'
<1>1. CoreInv'
  BY Halves, CoreStays DEF Environment, Tick, Connect, Send, Receive, ClientClose, ClientReset,
                           coreVars, loopVars, serverVars
<1>2. ASSUME Tick PROVE RestInv'
  <2>1. UNCHANGED <<batch, running, accepting, connections, conn, netVars>>
    BY <1>2 DEF Tick, loopVars
  <2>2. idle' \in [Client -> 0 .. IdleTimeout + 1]
    <3>1. idle \in [Client -> 0 .. IdleTimeout + 1] /\ IdleTimeout \in Nat
      BY ServerAssumption DEF IInv, TypeOK
    <3>2. \A c \in Client : idle[c] <= IdleTimeout => idle[c] + 1 \in 0 .. IdleTimeout + 1
      BY <3>1
    <3> QED
      BY <1>2, <3>1, <3>2 DEF Tick
  <2>3. RestTypes'
    BY <2>1, <2>2 DEF IInv, TypeOK, RestTypes, netVars
  <2>4. QueueApart' /\ BuffersBounded'
    BY <2>1 DEF IInv, QueueApart, BuffersBounded, netVars
  <2> QED
    BY <2>3, <2>4 DEF RestInv
<1>3. ASSUME NEW c \in Client, Connect(c) PROVE RestInv'
  <2>1. /\ link[c] = "none" /\ link' = [link EXCEPT ![c] = "up"]
        /\ backlog' = Append(backlog, c)
        /\ UNCHANGED <<batch, running, accepting, idle, connections, conn, inq, outq, sent, got>>
    BY <1>3 DEF Connect, loopVars, serverVars
  <2>2. backlog \in Seq(Client) /\ link \in [Client -> Links]
    BY DEF IInv, TypeOK
  <2>3. RestTypes'
    <3>1. backlog' \in Seq(Client)
      BY <2>1, <2>2
    <3>2. link' \in [Client -> Links]
      BY <2>1, <2>2 DEF Links
    <3> QED
      BY <2>1, <3>1, <3>2 DEF IInv, TypeOK, RestTypes
  <2>4. c \notin connections /\ \A i \in DOMAIN backlog : backlog[i] # c
    BY <2>1 DEF IInv, QueueApart
  <2>5. QueueApart'
    <3>1. \A i \in DOMAIN backlog' :
            backlog'[i] = IF i \in DOMAIN backlog THEN backlog[i] ELSE c
      BY <2>1, <2>2
    <3>2. \A i, j \in DOMAIN backlog' : i \notin DOMAIN backlog /\ j \notin DOMAIN backlog => i = j
      BY <2>1, <2>2
    <3>3. \A d \in Client : link[d] # "none" \/ d = c => link'[d] # "none"
      BY <2>1, <2>2
    <3>4. \A i \in DOMAIN backlog' : backlog'[i] \notin connections' /\ link'[backlog'[i]] # "none"
      BY <2>1, <2>2, <2>4, <3>1, <3>3 DEF IInv, QueueApart
    <3>5. \A i, j \in DOMAIN backlog' : backlog'[i] = backlog'[j] => i = j
      BY <2>4, <3>1, <3>2 DEF IInv, QueueApart
    <3>6. \A d \in connections' : link'[d] # "none"
      BY <2>1, <3>3 DEF IInv, QueueApart, TypeOK
    <3> QED
      BY <3>4, <3>5, <3>6 DEF QueueApart
  <2>6. BuffersBounded'
    BY <2>1 DEF IInv, BuffersBounded
  <2> QED
    BY <2>3, <2>5, <2>6 DEF RestInv
<1>4. ASSUME NEW c \in Client, Send(c) PROVE RestInv'
  <2>1. PICK piece \in NextPieces(c) : inq' = [inq EXCEPT ![c] = Append(@, piece)]
    BY <1>4 DEF Send
  <2>2. /\ sent[c] < 3 * MaxRequest /\ sent' = [sent EXCEPT ![c] = @ + 1]
        /\ UNCHANGED <<batch, running, accepting, idle, connections, conn, backlog, link, outq, got>>
    <3>1. /\ sent[c] < 3 * Requests[c] /\ sent' = [sent EXCEPT ![c] = @ + 1]
          /\ UNCHANGED <<batch, running, accepting, idle, connections, conn, backlog, link, outq, got>>
      BY <1>4 DEF Send, loopVars, serverVars
    <3>2. sent[c] \in Nat /\ Requests[c] \in Nat /\ MaxRequest \in Nat /\ Requests[c] <= MaxRequest
      BY ServerAssumption DEF IInv, TypeOK
    <3> QED
      BY <3>1, <3>2
  <2>3. sent[c] \in 0 .. 3 * MaxRequest /\ sent \in [Client -> 0 .. 3 * MaxRequest]
    BY DEF IInv, TypeOK
  <2>4. piece \in Piece
    <3>1. (sent[c] \div 3) + 1 \in 1 .. MaxRequest /\ (sent[c] % 3) + 1 \in 1 .. 3
      <4>1. sent[c] \in Nat /\ MaxRequest \in Nat
        BY <2>3, ServerAssumption
      <4> QED
        BY <2>2, <4>1, PieceIndex
    <3>2. Parts[(sent[c] % 3) + 1] \subseteq {"start", "line", "head"}
      BY <3>1 DEF Parts
    <3> QED
      BY <2>1, <3>1, <3>2 DEF NextPieces, Piece
  <2>5. inq' \in [Client -> Seq(Piece)]
    BY <2>1, <2>4 DEF IInv, TypeOK
  <2>6. sent' \in [Client -> 0 .. 3 * MaxRequest]
    BY <2>2, <2>3, ServerAssumption
  <2>7. RestTypes'
    BY <2>2, <2>5, <2>6 DEF IInv, TypeOK, RestTypes
  <2>8. QueueApart' /\ BuffersBounded'
    BY <2>2 DEF IInv, QueueApart, BuffersBounded
  <2> QED
    BY <2>7, <2>8 DEF RestInv
<1>5. ASSUME NEW c \in Client, Receive(c) PROVE RestInv'
  <2>1. /\ outq[c] # <<>>
        /\ got' = [got EXCEPT ![c] = Append(@, Head(outq[c]))]
        /\ outq' = [outq EXCEPT ![c] = Tail(@)]
        /\ UNCHANGED <<batch, running, accepting, idle, connections, conn, backlog, link, inq, sent>>
    BY <1>5 DEF Receive, loopVars, serverVars
  <2>2. /\ outq \in [Client -> Seq(Unit)] /\ got \in [Client -> Seq(Unit)]
        /\ outq[c] \in Seq(Unit)
    BY DEF IInv, TypeOK
  <2>3. /\ Head(outq[c]) \in Unit /\ Tail(outq[c]) \in Seq(Unit)
        /\ Len(Tail(outq[c])) <= SndCap
    <3>1. Len(Tail(outq[c])) = Len(outq[c]) - 1 /\ Len(outq[c]) \in Nat
      BY <2>1, <2>2
    <3> QED
      BY <2>1, <2>2, <3>1, ServerAssumption DEF IInv, BuffersBounded
  <2>4. got' \in [Client -> Seq(Unit)] /\ outq' \in [Client -> Seq(Unit)]
    BY <2>1, <2>2, <2>3
  <2>5. RestTypes'
    BY <2>1, <2>4 DEF IInv, TypeOK, RestTypes
  <2>6. QueueApart'
    BY <2>1 DEF IInv, QueueApart
  <2>7. BuffersBounded'
    BY <2>1, <2>2, <2>3 DEF IInv, BuffersBounded
  <2> QED
    BY <2>5, <2>6, <2>7 DEF RestInv
<1>6. ASSUME NEW c \in Client, ClientClose(c) \/ ClientReset(c) PROVE RestInv'
  <2>1. /\ UNCHANGED <<batch, running, accepting, idle, connections, conn, backlog, sent, got>>
        /\ link' \in [Client -> Links] /\ inq' \in [Client -> Seq(Piece)]
        /\ outq' \in [Client -> Seq(Unit)]
    <3>1. /\ link \in [Client -> Links] /\ inq \in [Client -> Seq(Piece)]
          /\ outq \in [Client -> Seq(Unit)]
      BY DEF IInv, TypeOK
    <3>2. CASE ClientClose(c)
      BY <3>1, <3>2 DEF ClientClose, loopVars, serverVars, Links
    <3>3. CASE ClientReset(c)
      <4>1. <<>> \in Seq(Piece) /\ <<>> \in Seq(Unit)
        OBVIOUS
      <4> QED
        BY <3>1, <3>3, <4>1 DEF ClientReset, loopVars, serverVars, Links
    <3> QED
      BY <1>6, <3>2, <3>3
  <2>2. \A d \in Client : link[d] # "none" => link'[d] # "none"
    BY <1>6 DEF ClientClose, ClientReset, IInv, TypeOK
  <2>3. \A d \in Client : outq'[d] = outq[d] \/ outq'[d] = <<>>
    BY <1>6 DEF ClientClose, ClientReset, IInv, TypeOK
  <2>4. RestTypes'
    BY <2>1 DEF IInv, TypeOK, RestTypes
  <2>5. QueueApart'
    BY <2>1, <2>2 DEF IInv, TypeOK, QueueApart
  <2>6. BuffersBounded'
    <3>1. Len(<<>>) <= SndCap
      BY ServerAssumption
    <3> QED
      BY <2>1, <2>3, <3>1 DEF IInv, BuffersBounded
  <2> QED
    BY <2>4, <2>5, <2>6 DEF RestInv
<1>7. RestInv'
  BY <1>2, <1>3, <1>4, <1>5, <1>6 DEF Environment
<1> QED
  BY <1>1, <1>7

-----------------------------------------------------------------------------
(* The theorems.                                                           *)

\* A listening server that serves nobody satisfies the invariant.
LEMMA InitInv == Init => IInv
<1> SUFFICES ASSUME Init PROVE IInv
  OBVIOUS
<1>0. 0 \in Fd /\ NewConn(-1) \in Conn
  BY MaxFdAssumption DEF Fd, NewConn, Conn, States
<1>1. CoreTypes
  BY <1>0, ServerAssumption DEF Init, CoreTypes, Entry, Events
<1>2. RestTypes
  <2>1. /\ <<>> \in Seq(Client) /\ <<>> \in Seq(Piece) /\ <<>> \in Seq(Unit)
        /\ 0 \in 0 .. IdleTimeout + 1 /\ 0 \in 0 .. 3 * MaxRequest
    BY ServerAssumption
  <2> QED
    BY <2>1 DEF Init, RestTypes, Links
<1>3. HandlersMatch /\ InterestMatch
  BY <1>0, ServerAssumption DEF Init, HandlersMatch, InterestMatch
<1>4. DescriptorsOwned
  BY <1>0, ServerAssumption DEF Init, DescriptorsOwned
<1>5. CountsAgree
  BY FS_EmptySet, ServerAssumption DEF Init, CountsAgree
<1>6. QueueApart
  BY DEF Init, QueueApart
<1>7. BuffersBounded
  <2>1. Len(<<>>) <= RecvCap /\ Len(<<>>) <= SndCap
    BY ServerAssumption
  <2> QED
    BY <2>1 DEF Init, BuffersBounded, NewConn
<1> QED
  BY <1>1, <1>2, <1>3, <1>4, <1>5, <1>6, <1>7, Halves DEF CoreInv, RestInv

\* Every step of the server, its clients and the kernel preserves it.
LEMMA NextInv == IInv /\ [Next]_vars => IInv'
<1> SUFFICES ASSUME IInv, [Next]_vars PROVE CoreInv' /\ RestInv'
  BY DEF IInv, CoreInv, RestInv, TypeOK, CoreTypes, RestTypes
<1>1. CASE LoopStep
  BY <1>1, LoopKeeps, CallbackKeeps DEF LoopStep
<1>2. CASE Stop
  <2>1. batch' \subseteq batch /\ idle' \in [Client -> 0 .. IdleTimeout + 1] /\ server_stop
    BY <1>2 DEF Stop, IInv, TypeOK
  <2>2. IInv'
    BY <2>1, StopKeeps
  <2> QED
    BY <2>2 DEF IInv, CoreInv, RestInv, TypeOK, CoreTypes, RestTypes
<1>3. CASE Environment
  BY <1>3, EnvironmentKeeps
<1>4. CASE UNCHANGED vars
  <2>1. CoreInv'
    BY <1>4, Halves, CoreStays DEF vars, loopVars, serverVars, coreVars
  <2>2. RestInv'
    BY <1>4 DEF vars, loopVars, serverVars, netVars, IInv, TypeOK, RestInv, RestTypes,
                QueueApart, BuffersBounded
  <2> QED
    BY <2>1, <2>2
<1> QED
  BY <1>1, <1>2, <1>3, <1>4 DEF Next

THEOREM Invariance == Spec => []IInv
BY InitInv, NextInv, PTL DEF Spec

\* The variables stay in their types: in particular conn_count never goes
\* negative and no buffer holds anything but what was put in it.
THEOREM TypeCorrect == Spec => []TypeOK
<1>1. IInv => TypeOK
  BY DEF IInv
<1> QED
  BY <1>1, Invariance, PTL

\* No descriptor leaks or is closed twice, for any number of connections.
THEOREM NoDescriptorLost == Spec => []DescriptorsOwned
<1>1. IInv => DescriptorsOwned
  BY DEF IInv
<1> QED
  BY <1>1, Invariance, PTL

\* The connection counter is exact and within the limit.
THEOREM CountExact == Spec => []CountsAgree
<1>1. IInv => CountsAgree
  BY DEF IInv
<1> QED
  BY <1>1, Invariance, PTL

\* No callback is ever called with a connection that has been freed, and the
\* kernel watches for what each connection's state waits for.
THEOREM NoFreedCallback == Spec => []CallbacksLive
<1>1. ASSUME IInv PROVE CallbacksLive
  <2>1. ASSUME NEW fd \in Fd
        PROVE  interest[fd] = UNION {h.events : h \in find_handler(fd)}
    <3>1. CASE file[fd] = NoFile
      <4>1. find_handler(fd) = {}
        <5>1. \A c \in connections : conn[c].fd # fd
          BY <1>1, <3>1, ServerAssumption, ConnectionHasFd
        <5>2. listen_fd # fd
          BY <1>1, <3>1, ServerAssumption DEF IInv, DescriptorsOwned
        <5> QED
          BY <1>1, <5>1, <5>2 DEF IInv, HandlersMatch, find_handler, Entry
      <4> QED
        BY <1>1, <3>1, <4>1 DEF IInv, InterestMatch
    <3>2. CASE fd = listen_fd
      <4>1. find_handler(fd) = {Entry(fd, {READ}, Listener)}
        <5>1. \A c \in connections : conn[c].fd # fd
          BY <1>1, <3>2, ConnectionHasFd
        <5>2. listen_fd # -1
          BY <3>2, MaxFdAssumption DEF Fd
        <5> QED
          BY <1>1, <3>2, <5>1, <5>2 DEF IInv, HandlersMatch, find_handler, Entry
      <4>2. interest[fd] = {READ}
        BY <1>1, <3>2, MaxFdAssumption DEF IInv, InterestMatch, Fd
      <4> QED
        BY <4>1, <4>2 DEF Entry
    <3>3. ASSUME NEW c \in Client, file[fd] = c
          PROVE  interest[fd] = UNION {h.events : h \in find_handler(fd)}
      <4>1. c \in connections /\ conn[c].fd = fd
        BY <1>1, <3>3 DEF IInv, DescriptorsOwned
      <4>2. fd # listen_fd /\ \A d \in connections : conn[d].fd = fd => d = c
        BY <1>1, <4>1, ConnectionHasFd
      <4>3. find_handler(fd) = {Entry(fd, Awaited(c), c)}
        BY <1>1, <4>1, <4>2 DEF IInv, HandlersMatch, find_handler, Entry
      <4>4. interest[fd] = Awaited(c)
        BY <1>1, <4>1 DEF IInv, InterestMatch
      <4> QED
        BY <4>3, <4>4 DEF Entry
    <3>4. file[fd] \in Client \cup {Listener, NoFile} /\ (file[fd] = Listener => fd = listen_fd)
      BY <1>1 DEF IInv, TypeOK, DescriptorsOwned
    <3> QED
      BY <3>1, <3>2, <3>3, <3>4
  <2> QED
    BY <1>1, <2>1 DEF CallbacksLive, IInv, HandlersMatch
<1> QED
  BY <1>1, Invariance, PTL

=============================================================================
