-------------------------- MODULE AsyncClientProofs --------------------------
(***************************************************************************)
(* Proofs about AsyncClient, for every number of requests, descriptors and *)
(* pool entries, as long as responses are well formed: the inductive       *)
(* invariant IInv, the safety invariants that follow from it, and what a   *)
(* callback is told.                                                       *)
(***************************************************************************)
EXTENDS AsyncClient, FiniteSetTheorems, TLAPS

\* No response makes the code see "keep-alive" where it looks: a field's name
\* is followed by a colon, its value by CRLF.
WellFormedReplies == \A r \in Req : ~should_keep_alive(r)

\* Callbacks in progress are of different requests, none of which will hand
\* its connection to the pool.
Frame == [req : Req, keep : BOOLEAN]
StackInv ==
  /\ stack \in Seq(Frame)
  /\ \A i, j \in DOMAIN stack : stack[i].req = stack[j].req => i = j
  /\ \A i \in DOMAIN stack : stack[i].keep = FALSE

FramesActive == \A r \in Req : InCallback(r) => status[r] = "active"

\* An entry of the loop belongs to an active request, under its descriptor,
\* and the kernel has its events.
HandlersOwned ==
  \A h \in handlers : /\ status[h.data] = "active" /\ req[h.data].fd = h.fd
                      /\ interest[h.fd] = h.events /\ h.events # {}

\* A request that waits for the loop has an entry, for the event it awaits.
WaitingRegistered ==
  \A r \in Req : status[r] = "active" /\ ~InCallback(r) =>
    \E h \in handlers : h.data = r /\ Awaited(r) \in h.events

\* The events left in the batch are for waiting requests, one for each.
BatchOwned ==
  /\ \A e \in batch : /\ status[e.sock] = "active" /\ ~InCallback(e.sock)
                      /\ req[e.sock].fd = e.fd
  /\ \A e, f \in batch : e.fd = f.fd => e = f

OwnTypes ==
  /\ file \in [Fd -> Req \cup {App, NoFile}]
  /\ interest \in [Fd -> SUBSET Events]
  /\ handlers \subseteq [fd : Fd, events : SUBSET Events, data : Req]
  /\ batch \subseteq [fd : Fd, events : SUBSET Events, sock : Req]
  /\ status \in [Req -> Statuses] /\ req \in [Req -> Request]
  /\ called \in [Req -> Seq([err : Errors, pieces : Nat])]

\* Who holds what: descriptors, entries, events and callbacks.
OwnInv ==
  /\ OwnTypes /\ StackInv /\ FramesActive
  /\ HandlersOwned /\ WaitingRegistered /\ SocketsOwned
  /\ BatchOwned /\ CalledOnce

\* No entry of the pool ever becomes idle.
PoolInv ==
  /\ pool \subseteq [of : Req, fd : Fd, in_use : BOOLEAN, expired : BOOLEAN]
  /\ active_count \in 0 .. MaxPool
  /\ app_fd \in Fd \cup {-1}
  /\ \A e \in pool : e.in_use

NetTypes ==
  /\ link \in [Req -> Links]
  /\ outq \in [Req -> 0 .. SndCap] /\ seen \in [Req -> 0 .. ReqLen]
  /\ inq \in [Req -> Nat] /\ replied \in [Req -> Nat]

\* A request that has not started has no connection.
Untouched ==
  \A r \in Req : status[r] = "unused" =>
    link[r] = "none" /\ outq[r] = 0 /\ seen[r] = 0 /\ inq[r] = 0 /\ replied[r] = 0

\* Nothing is sent twice, received twice or made up.
Amounts ==
  \A r \in Req :
    /\ seen[r] + outq[r] + req[r].unsent <= ReqLen
    /\ req[r].state = "CONNECTING" => seen[r] = 0 /\ outq[r] = 0 /\ req[r].unsent = 0
    /\ inq[r] + req[r].recv_len <= replied[r]
    /\ replied[r] <= Reply[r].whole

NetInv == PoolInv /\ NetTypes /\ Untouched /\ Amounts

IInv == OwnInv /\ NetInv

\* A response has two pieces at least.
LEMMA AtLeastHead == \A r \in Req : Reply[r].whole \in Nat /\ Reply[r].whole >= 2
<1> SUFFICES ASSUME NEW r \in Req PROVE Reply[r].whole \in Nat /\ Reply[r].whole >= 2
  OBVIOUS
<1>1. Reply[r] \in Replies
  BY ClientAssumption
<1>2. Reply[r].whole \in Nat \ {0, 1}
  BY <1>1 DEF Replies
<1> QED
  BY <1>2

LEMMA ImpliesTypeOK == IInv => TypeOK
<1> SUFFICES ASSUME IInv PROVE TypeOK
  OBVIOUS
<1>1. ASSUME NEW r \in Req PROVE inq[r] <= replied[r] /\ replied[r] <= Reply[r].whole
  <2>1. req[r] \in Request /\ inq[r] \in Nat /\ replied[r] \in Nat
    BY DEF IInv, OwnInv, OwnTypes, NetInv, NetTypes
  <2>2. req[r].recv_len \in 0 .. RecvCap /\ RecvCap \in Nat
    BY <2>1, ClientAssumption DEF Request
  <2>3. inq[r] + req[r].recv_len <= replied[r] /\ replied[r] <= Reply[r].whole
    BY DEF IInv, NetInv, Amounts
  <2> QED
    BY <2>1, <2>2, <2>3
<1> QED
  BY <1>1 DEF IInv, OwnInv, NetInv, OwnTypes, PoolInv, NetTypes, StackInv, Frame, TypeOK

LEMMA InRange ==
  ASSUME NEW m \in Nat
  PROVE  \A n \in Nat : n <= m => n \in 0 .. m
OBVIOUS

-----------------------------------------------------------------------------
(* The stack of callbacks.                                                 *)

LEMMA Pushed ==
  ASSUME NEW S, NEW s \in Seq(S), NEW f \in S
  PROVE  /\ <<f>> \o s \in Seq(S)
         /\ Len(<<f>> \o s) = Len(s) + 1
         /\ (<<f>> \o s)[1] = f
         /\ \A i \in 1 .. Len(s) : (<<f>> \o s)[i + 1] = s[i]
OBVIOUS

LEMMA Popped ==
  ASSUME NEW S, NEW s \in Seq(S), s # <<>>
  PROVE  /\ Tail(s) \in Seq(S) /\ Head(s) \in S /\ Head(s) = s[1] /\ Len(s) >= 1
         /\ Len(Tail(s)) = Len(s) - 1
         /\ \A i \in 1 .. Len(s) - 1 : Tail(s)[i] = s[i + 1]
OBVIOUS

\* A callback is called that is not in progress.
LEMMA CallPushes ==
  ASSUME StackInv, NEW r \in Req, ~InCallback(r),
         called \in [Req -> Seq([err : Errors, pieces : Nat])],
         NEW err \in Errors, NEW p \in Nat, Call(r, err, p, FALSE)
  PROVE  /\ StackInv'
         /\ called' \in [Req -> Seq([err : Errors, pieces : Nat])]
         /\ \A q \in Req : InCallback(q)' <=> q = r \/ InCallback(q)
         /\ Len(called'[r]) = Len(called[r]) + 1
         /\ \A q \in Req : q # r => called'[q] = called[q]
<1>1. PICK f \in Frame : f = [req |-> r, keep |-> FALSE] /\ stack' = <<f>> \o stack
  BY DEF Frame, Call
<1>2. stack \in Seq(Frame)
  BY DEF StackInv
<1> PICK n \in Nat : n = Len(stack) /\ DOMAIN stack = 1 .. n
  BY <1>2
<1>3. /\ stack' \in Seq(Frame) /\ Len(stack') = n + 1 /\ DOMAIN stack' = 1 .. n + 1
      /\ stack'[1] = f /\ f.req = r /\ f.keep = FALSE
      /\ \A i \in 1 .. n : stack'[i + 1] = stack[i]
  BY <1>1, <1>2, Pushed
<1>4. ASSUME NEW k \in 1 .. n + 1, k # 1 PROVE \E i \in 1 .. n : k = i + 1 /\ stack'[k] = stack[i]
  <2>1. k - 1 \in 1 .. n /\ k = (k - 1) + 1
    BY <1>4
  <2> QED
    BY <1>3, <2>1
<1>5. \A i \in 1 .. n : stack[i].req # r
  BY DEF InCallback
<1>6. StackInv'
  <2>1. ASSUME NEW i \in 1 .. n + 1, NEW j \in 1 .. n + 1, stack'[i].req = stack'[j].req
        PROVE  i = j
    <3>1. CASE i = 1 /\ j = 1
      BY <3>1
    <3>2. CASE i = 1 /\ j # 1
      BY <1>3, <1>4, <1>5, <2>1, <3>2
    <3>3. CASE i # 1 /\ j = 1
      BY <1>3, <1>4, <1>5, <2>1, <3>3
    <3>4. CASE i # 1 /\ j # 1
      <4>1. PICK k \in 1 .. n : i = k + 1 /\ stack'[i] = stack[k]
        BY <1>4, <3>4
      <4>2. PICK l \in 1 .. n : j = l + 1 /\ stack'[j] = stack[l]
        BY <1>4, <3>4
      <4>3. k = l
        BY <2>1, <4>1, <4>2 DEF StackInv
      <4> QED
        BY <4>1, <4>2, <4>3
    <3> QED
      BY <3>1, <3>2, <3>3, <3>4
  <2>2. ASSUME NEW i \in 1 .. n + 1 PROVE stack'[i].keep = FALSE
    <3>1. CASE i = 1
      BY <1>3, <3>1
    <3>2. CASE i # 1
      <4>1. PICK k \in 1 .. n : stack'[i] = stack[k]
        BY <1>4, <3>2
      <4> QED
        BY <4>1 DEF StackInv
    <3> QED
      BY <3>1, <3>2
  <2> QED
    BY <1>3, <2>1, <2>2 DEF StackInv
<1>7. ASSUME NEW q \in Req PROVE InCallback(q)' <=> q = r \/ InCallback(q)
  <2>1. InCallback(q)' <=> \E k \in 1 .. n + 1 : stack'[k].req = q
    BY <1>3 DEF InCallback
  <2>2. InCallback(q) <=> \E k \in 1 .. n : stack[k].req = q
    BY DEF InCallback
  <2>3. ASSUME NEW k \in 1 .. n PROVE k + 1 \in 1 .. n + 1 /\ stack'[k + 1] = stack[k]
    BY <1>3
  <2>4. 1 \in 1 .. n + 1 /\ stack'[1].req = r
    BY <1>3
  <2>5. ASSUME NEW k \in 1 .. n + 1 PROVE stack'[k].req = r \/ \E i \in 1 .. n : stack'[k] = stack[i]
    BY <1>3, <1>4
  <2>6. ASSUME InCallback(q) PROVE InCallback(q)'
    <3>1. PICK k \in 1 .. n : stack[k].req = q
      BY <2>2, <2>6
    <3>2. k + 1 \in 1 .. n + 1 /\ stack'[k + 1].req = q
      BY <2>3, <3>1
    <3> QED
      BY <2>1, <3>2
  <2>7. ASSUME InCallback(q)' PROVE q = r \/ InCallback(q)
    BY <2>1, <2>2, <2>5, <2>7
  <2> QED
    BY <2>1, <2>4, <2>6, <2>7
<1>8. /\ called' \in [Req -> Seq([err : Errors, pieces : Nat])]
      /\ Len(called'[r]) = Len(called[r]) + 1
      /\ \A q \in Req : q # r => called'[q] = called[q]
  <2>1. PICK v \in [err : Errors, pieces : Nat] :
          v = [err |-> err, pieces |-> p] /\ called' = [called EXCEPT ![r] = Append(@, v)]
    BY DEF Call
  <2>2. Append(called[r], v) \in Seq([err : Errors, pieces : Nat])
        /\ Len(Append(called[r], v)) = Len(called[r]) + 1
    <3>1. PICK s \in Seq([err : Errors, pieces : Nat]) : s = called[r]
      OBVIOUS
    <3> QED
      BY <3>1
  <2> QED
    BY <2>1, <2>2
<1> QED
  BY <1>6, <1>7, <1>8

\* The innermost callback returns.
LEMMA ReturnPops ==
  ASSUME StackInv, stack # <<>>, stack' = Tail(stack)
  PROVE  /\ StackInv'
         /\ Head(stack).req \in Req /\ Head(stack).keep = FALSE
         /\ InCallback(Head(stack).req)
         /\ \A q \in Req : InCallback(q)' <=> InCallback(q) /\ q # Head(stack).req
<1>1. stack \in Seq(Frame)
  BY DEF StackInv
<1>2. PICK n \in Nat : n = Len(stack) /\ DOMAIN stack = 1 .. n
  BY <1>1
<1>3. /\ stack' \in Seq(Frame) /\ Len(stack') = n - 1 /\ n >= 1 /\ DOMAIN stack' = 1 .. n - 1
      /\ Head(stack) = stack[1] /\ Head(stack) \in Frame
      /\ \A i \in 1 .. n - 1 : stack'[i] = stack[i + 1]
  BY <1>1, <1>2, Popped
<1>4. \A i \in 1 .. n - 1 : i + 1 \in 1 .. n /\ i + 1 # 1
  BY <1>2
<1>5. \A k \in 1 .. n : k = 1 \/ (k - 1 \in 1 .. n - 1 /\ stack[k] = stack'[k - 1])
  BY <1>2, <1>3
<1>6. StackInv'
  <2>1. ASSUME NEW i \in 1 .. n - 1, NEW j \in 1 .. n - 1, stack'[i].req = stack'[j].req
        PROVE  i = j
    <3>1. i + 1 = j + 1
      BY <1>2, <1>3, <1>4, <2>1 DEF StackInv
    <3> QED
      BY <3>1
  <2>2. \A i \in 1 .. n - 1 : stack'[i].keep = FALSE
    BY <1>2, <1>3, <1>4 DEF StackInv
  <2> QED
    BY <1>3, <2>1, <2>2 DEF StackInv
<1>7. 1 \in DOMAIN stack
  BY <1>2, <1>3
<1>8. ASSUME NEW q \in Req PROVE InCallback(q)' <=> InCallback(q) /\ q # Head(stack).req
  <2>1. InCallback(q)' <=> \E k \in 1 .. n - 1 : stack'[k].req = q
    BY <1>3 DEF InCallback
  <2>2. InCallback(q) <=> \E k \in 1 .. n : stack[k].req = q
    BY <1>2 DEF InCallback
  <2>3. \A k \in 1 .. n - 1 : stack'[k].req # stack[1].req
    BY <1>2, <1>3, <1>4, <1>7 DEF StackInv
  <2> QED
    BY <1>3, <1>4, <1>5, <2>1, <2>2, <2>3
<1> QED
  BY <1>3, <1>6, <1>7, <1>8 DEF Frame, StackInv, InCallback

-----------------------------------------------------------------------------
(* Steps of the user's code, and who holds what.                           *)

\* A request under way keeps its place when nothing of it changes.
LEMMA FdApart ==
  ASSUME OwnInv, NEW q \in Req, NEW r \in Req, status[q] = "active", status[r] = "active",
         req[q].fd = req[r].fd, req[q].fd \in Fd
  PROVE  q = r
BY DEF OwnInv, SocketsOwned

LEMMA InCallbackCalled ==
  ASSUME OwnInv, NEW r \in Req, status[r] = "active"
  PROVE  Len(called[r]) = IF InCallback(r) THEN 1 ELSE 0
BY DEF OwnInv, CalledOnce

\* The callback of a request is called, about a failure.
LEMMA FailurePushes ==
  ASSUME OwnInv, NEW r \in Req, ~InCallback(r), Call(r, "NET", 0, FALSE)
  PROVE  /\ StackInv'
         /\ called' \in [Req -> Seq([err : Errors, pieces : Nat])]
         /\ \A q \in Req : InCallback(q)' <=> q = r \/ InCallback(q)
         /\ Len(called'[r]) = Len(called[r]) + 1
         /\ \A q \in Req : q # r => called'[q] = called[q]
<1>1. StackInv /\ called \in [Req -> Seq([err : Errors, pieces : Nat])]
  BY DEF OwnInv, OwnTypes
<1>2. PICK err \in Errors : err = "NET"
  BY DEF Errors
<1>3. PICK p \in Nat : p = 0
  OBVIOUS
<1>4. Call(r, err, p, FALSE)
  BY <1>2, <1>3
<1> HIDE DEF Errors
<1> QED
  BY <1>1, <1>4, CallPushes

\* A request starts and fails before it has a descriptor.
LEMMA StartFails ==
  ASSUME OwnInv, NEW r \in Req, status[r] = "unused",
         status' = [status EXCEPT ![r] = "active"],
         req' = [req EXCEPT ![r] = NewRequest],
         Call(r, "NET", 0, FALSE),
         UNCHANGED <<file, interest, handlers, batch>>
  PROVE  OwnInv'
<1>1. ~InCallback(r)
  BY DEF OwnInv, FramesActive
<1>2. /\ StackInv'
      /\ called' \in [Req -> Seq([err : Errors, pieces : Nat])]
      /\ \A q \in Req : InCallback(q)' <=> q = r \/ InCallback(q)
      /\ Len(called'[r]) = Len(called[r]) + 1
      /\ \A q \in Req : q # r => called'[q] = called[q]
  BY <1>1, FailurePushes
<1>3. NewRequest \in Request /\ NewRequest.fd = -1 /\ -1 \notin Fd
  BY ClientAssumption DEF NewRequest, Request, States, Fd
<1>4. OwnTypes'
  BY <1>2, <1>3 DEF OwnInv, OwnTypes, Statuses
<1>5. /\ \A q \in Req : q # r => status'[q] = status[q] /\ req'[q] = req[q]
      /\ status'[r] = "active" /\ req'[r].fd = -1
  BY <1>3 DEF OwnInv, OwnTypes
<1>6. FramesActive'
  BY <1>2, <1>5 DEF OwnInv, FramesActive
<1>7. \A h \in handlers : h.data \in Req /\ h.data # r
  BY DEF OwnInv, OwnTypes, HandlersOwned
<1>8. HandlersOwned'
  BY <1>5, <1>7 DEF OwnInv, HandlersOwned
<1>9. WaitingRegistered'
  BY <1>2, <1>5 DEF OwnInv, WaitingRegistered, Awaited
<1>10. SocketsOwned'
  BY <1>3, <1>5 DEF OwnInv, SocketsOwned
<1>11. \A e \in batch : e.sock \in Req /\ e.sock # r
  BY DEF OwnInv, OwnTypes, BatchOwned
<1>12. BatchOwned'
  BY <1>2, <1>5, <1>11 DEF OwnInv, BatchOwned
<1>13. CalledOnce'
  <2>1. called[r] = <<>>
    BY DEF OwnInv, CalledOnce
  <2> QED
    BY <1>2, <1>5, <2>1 DEF OwnInv, CalledOnce
<1> QED
  BY <1>2, <1>4, <1>6, <1>8, <1>9, <1>10, <1>12, <1>13 DEF OwnInv

\* A request starts with a new descriptor, and the loop takes it or not.
LEMMA StartConnects ==
  ASSUME OwnInv, NEW r \in Req, status[r] = "unused",
         NEW fd \in Fd, file[fd] = NoFile,
         NEW st \in {"CONNECTING", "SENDING"},
         status' = [status EXCEPT ![r] = "active"],
         req' = [req EXCEPT ![r] = [NewRequest EXCEPT !.fd = fd, !.state = st]],
         file' = [file EXCEPT ![fd] = r],
         UNCHANGED batch,
         \/ /\ cwh_loop_add(fd, IF st = "CONNECTING" THEN {WRITE} ELSE {READ, WRITE}, r)
            /\ UNCHANGED <<stack, called>>
         \/ Call(r, "NET", 0, FALSE) /\ UNCHANGED <<interest, handlers>>
  PROVE  OwnInv'
<1>0. PICK x \in Request : x.fd = fd /\ x.state = st /\ req' = [req EXCEPT ![r] = x]
  <2> PICK x : x = [NewRequest EXCEPT !.fd = fd, !.state = st]
    OBVIOUS
  <2>1. x = [fd |-> fd, state |-> st, unsent |-> 0, recv_len |-> 0]
    BY DEF NewRequest
  <2>2. st \in States /\ 0 \in 0 .. ReqLen /\ 0 \in 0 .. RecvCap
    BY ClientAssumption DEF States
  <2> QED
    BY <2>1, <2>2 DEF Request
<1> PICK ev \in SUBSET Events : ev = (IF st = "CONNECTING" THEN {WRITE} ELSE {READ, WRITE})
                              /\ WRITE \in ev
  BY DEF Events
<1>1. ~InCallback(r) /\ called[r] = <<>>
  BY DEF OwnInv, FramesActive, CalledOnce
<1>2. /\ \A q \in Req : q # r => status'[q] = status[q] /\ req'[q] = req[q]
      /\ status'[r] = "active" /\ req'[r] = x /\ req' \in [Req -> Request]
      /\ status' \in [Req -> Statuses]
  BY <1>0 DEF OwnInv, OwnTypes, Statuses
<1>3. \A q \in Req : status[q] = "active" => req[q].fd # fd
  <2>1. \A q \in Req : q # NoFile
    BY ClientAssumption
  <2> QED
    BY <2>1 DEF OwnInv, SocketsOwned
<1>4. \A h \in handlers : h.data \in Req /\ h.data # r /\ h.fd # fd
  <2>1. \A h \in handlers : h.data \in Req
    BY DEF OwnInv, OwnTypes
  <2>2. \A h \in handlers : status[h.data] = "active" /\ req[h.data].fd = h.fd
    BY DEF OwnInv, HandlersOwned
  <2> QED
    BY <1>3, <2>1, <2>2
<1>5. SocketsOwned'
  <2>1. ASSUME NEW g \in Fd, NEW q \in Req
        PROVE  file'[g] = q <=> status'[q] = "active" /\ req'[q].fd = g
    <3>1. file[g] = q <=> status[q] = "active" /\ req[q].fd = g
      BY DEF OwnInv, SocketsOwned
    <3>2. file'[g] = IF g = fd THEN r ELSE file[g]
      BY DEF OwnInv, OwnTypes
    <3>3. file[g] # r
      BY DEF OwnInv, SocketsOwned
    <3> QED
      BY <1>0, <1>2, <1>3, <3>1, <3>2, <3>3
  <2> QED
    BY <2>1 DEF SocketsOwned
<1>6. \A e \in batch : e.sock \in Req /\ e.sock # r
  BY DEF OwnInv, OwnTypes, BatchOwned
<1>7. file' \in [Fd -> Req \cup {App, NoFile}]
  BY DEF OwnInv, OwnTypes
<1>8. CASE cwh_loop_add(fd, ev, r) /\ UNCHANGED <<stack, called>>
  <2> PICK n : n = Entry(fd, ev, r)
    OBVIOUS
  <2>1. n \in [fd : Fd, events : SUBSET Events, data : Req]
        /\ n.fd = fd /\ n.events = ev /\ n.data = r
    BY DEF Entry
  <2>2. /\ handlers' = handlers \cup {n}
        /\ interest' = [interest EXCEPT ![fd] = ev]
    BY <1>8 DEF cwh_loop_add
  <2>3. OwnTypes'
    BY <1>2, <1>7, <1>8, <2>1, <2>2 DEF OwnInv, OwnTypes
  <2>4. StackInv' /\ \A q \in Req : InCallback(q)' <=> InCallback(q)
    BY <1>8 DEF OwnInv, StackInv, InCallback
  <2>5. FramesActive'
    BY <1>1, <1>2, <2>4 DEF OwnInv, FramesActive
  <2>6. HandlersOwned'
    <3>1. ASSUME NEW h \in handlers'
          PROVE  status'[h.data] = "active" /\ req'[h.data].fd = h.fd
                 /\ interest'[h.fd] = h.events /\ h.events # {}
      <4>1. CASE h = n
        BY <1>0, <1>2, <2>1, <2>2, <4>1 DEF OwnInv, OwnTypes
      <4>2. CASE h # n
        BY <1>2, <1>4, <2>2, <4>2 DEF OwnInv, OwnTypes, HandlersOwned
      <4> QED
        BY <4>1, <4>2
    <3> QED
      BY <3>1 DEF HandlersOwned
  <2>7. WaitingRegistered'
    <3>1. ASSUME NEW q \in Req, status'[q] = "active", ~InCallback(q)'
          PROVE  \E h \in handlers' : h.data = q /\ Awaited(q)' \in h.events
      <4>1. CASE q = r
        <5>1. Awaited(r)' = WRITE
          BY <1>0, <1>2 DEF Awaited
        <5> QED
          BY <2>1, <2>2, <4>1, <5>1
      <4>2. CASE q # r
        <5>1. Awaited(q)' = Awaited(q)
          BY <1>2, <4>2 DEF Awaited
        <5> QED
          BY <1>2, <2>2, <2>4, <3>1, <4>2, <5>1 DEF OwnInv, WaitingRegistered
      <4> QED
        BY <4>1, <4>2
    <3> QED
      BY <3>1 DEF WaitingRegistered
  <2>8. BatchOwned'
    BY <1>2, <1>6, <2>4 DEF OwnInv, BatchOwned
  <2>9. CalledOnce'
    BY <1>1, <1>2, <1>8, <2>4 DEF OwnInv, CalledOnce
  <2> QED
    BY <1>5, <2>3, <2>4, <2>5, <2>6, <2>7, <2>8, <2>9 DEF OwnInv
<1>9. CASE Call(r, "NET", 0, FALSE) /\ UNCHANGED <<interest, handlers>>
  <2>1. /\ StackInv'
        /\ called' \in [Req -> Seq([err : Errors, pieces : Nat])]
        /\ \A q \in Req : InCallback(q)' <=> q = r \/ InCallback(q)
        /\ Len(called'[r]) = Len(called[r]) + 1
        /\ \A q \in Req : q # r => called'[q] = called[q]
    BY <1>1, <1>9, FailurePushes
  <2>2. OwnTypes'
    BY <1>2, <1>7, <1>9, <2>1 DEF OwnInv, OwnTypes
  <2>3. FramesActive'
    BY <1>2, <2>1 DEF OwnInv, FramesActive
  <2>4. HandlersOwned'
    <3>1. \A h \in handlers : status'[h.data] = status[h.data] /\ req'[h.data] = req[h.data]
      BY <1>2, <1>4
    <3> QED
      BY <1>9, <3>1 DEF OwnInv, HandlersOwned
  <2>5. WaitingRegistered'
    <3>1. \A q \in Req : q # r => Awaited(q)' = Awaited(q)
      BY <1>2 DEF Awaited
    <3>2. ASSUME NEW q \in Req, status'[q] = "active", ~InCallback(q)'
          PROVE  \E h \in handlers' : h.data = q /\ Awaited(q)' \in h.events
      <4>1. q # r /\ ~InCallback(q)
        BY <2>1, <3>2
      <4>2. status[q] = "active" /\ Awaited(q)' = Awaited(q)
        BY <1>2, <3>1, <3>2, <4>1
      <4> QED
        BY <1>9, <4>1, <4>2 DEF OwnInv, WaitingRegistered
    <3> QED
      BY <3>2 DEF WaitingRegistered
  <2>6. BatchOwned'
    BY <1>2, <1>6, <2>1 DEF OwnInv, BatchOwned
  <2>7. CalledOnce'
    BY <1>1, <1>2, <2>1 DEF OwnInv, CalledOnce
  <2> QED
    BY <1>5, <2>1, <2>2, <2>3, <2>4, <2>5, <2>6, <2>7 DEF OwnInv
<1> QED
  BY <1>8, <1>9

\* The callback returns, and its request is freed.
LEMMA ReturnOwn ==
  ASSUME OwnInv, stack # <<>>, stack' = Tail(stack),
         NEW r \in Req, r = Head(stack).req, DelAndClose({req[r].fd}),
         status' = [status EXCEPT ![r] = "freed"],
         req' = [req EXCEPT ![r] = NewRequest],
         UNCHANGED <<batch, called>>
  PROVE  OwnInv'
<1> PICK c : c = req[r].fd
  OBVIOUS
<1>1. StackInv' /\ InCallback(r) /\ \A q \in Req : InCallback(q)' <=> InCallback(q) /\ q # r
  BY ReturnPops DEF OwnInv
<1>2. status[r] = "active"
  BY <1>1 DEF OwnInv, FramesActive
<1>3. NewRequest \in Request
  BY ClientAssumption DEF NewRequest, Request, States
<1>4. /\ \A q \in Req : q # r => status'[q] = status[q] /\ req'[q] = req[q]
      /\ status'[r] = "freed" /\ req' \in [Req -> Request] /\ status' \in [Req -> Statuses]
  BY <1>3 DEF OwnInv, OwnTypes, Statuses
<1>5. \A q \in Req : status[q] = "active" /\ req[q].fd \in Fd /\ q # r => req[q].fd # c
  BY <1>2, FdApart
<1>6. handlers' = {h \in handlers : h.fd # c}
  BY DEF OwnInv, HandlersOwned, DelAndClose, KeptAfterDel
<1>7. /\ interest' \in [Fd -> SUBSET Events]
      /\ \A g \in Fd : g # c => interest'[g] = interest[g]
  BY DEF OwnInv, OwnTypes, DelAndClose
<1>8. /\ file' \in [Fd -> Req \cup {App, NoFile}]
      /\ \A g \in Fd : file'[g] = IF g = c THEN NoFile ELSE file[g]
  BY DEF OwnInv, OwnTypes, DelAndClose, Closed
<1>9. \A h \in handlers : h.fd \in Fd /\ h.data \in Req
  BY DEF OwnInv, OwnTypes
<1>10. OwnTypes'
  BY <1>4, <1>6, <1>7, <1>8 DEF OwnInv, OwnTypes
<1>11. FramesActive'
  BY <1>1, <1>4 DEF OwnInv, FramesActive
<1>12. HandlersOwned'
  BY <1>4, <1>6, <1>7, <1>9 DEF OwnInv, HandlersOwned
<1>13. WaitingRegistered'
  <2>1. ASSUME NEW q \in Req, status'[q] = "active", ~InCallback(q)'
        PROVE  \E h \in handlers' : h.data = q /\ Awaited(q)' \in h.events
    <3>1. q # r /\ status[q] = "active" /\ ~InCallback(q)
      BY <1>1, <1>4, <2>1
    <3>2. PICK h \in handlers : h.data = q /\ Awaited(q) \in h.events
      BY <3>1 DEF OwnInv, WaitingRegistered
    <3>3. h.fd # c
      BY <1>5, <1>9, <3>1, <3>2 DEF OwnInv, HandlersOwned
    <3>4. Awaited(q)' = Awaited(q)
      BY <1>4, <3>1 DEF Awaited
    <3> QED
      BY <1>6, <3>2, <3>3, <3>4
  <2> QED
    BY <2>1 DEF WaitingRegistered
<1>14. SocketsOwned'
  <2>1. ASSUME NEW g \in Fd, NEW q \in Req
        PROVE  file'[g] = q <=> status'[q] = "active" /\ req'[q].fd = g
    <3>1. file[g] = q <=> status[q] = "active" /\ req[q].fd = g
      BY DEF OwnInv, SocketsOwned
    <3>2. q # NoFile
      BY ClientAssumption
    <3> QED
      BY <1>4, <1>5, <1>8, <3>1, <3>2
  <2> QED
    BY <2>1 DEF SocketsOwned
<1>15. \A e \in batch : e.sock \in Req /\ e.sock # r
  BY <1>1 DEF OwnInv, OwnTypes, BatchOwned
<1>16. BatchOwned'
  BY <1>1, <1>4, <1>15 DEF OwnInv, BatchOwned
<1>17. CalledOnce'
  BY <1>1, <1>2, <1>4 DEF OwnInv, CalledOnce
<1> QED
  BY <1>1, <1>10, <1>11, <1>12, <1>13, <1>14, <1>16, <1>17 DEF OwnInv

-----------------------------------------------------------------------------
(* Steps of the loop, and who holds what.                                  *)

\* The loop finds the request that the event was reported for.
LEMMA Delivered ==
  ASSUME OwnInv, NEW e \in batch, NEW r \in Req, Delivers(e, r)
  PROVE  /\ status[r] = "active" /\ req[r].fd = e.fd /\ e.fd \in Fd
         /\ e.sock = r /\ ~InCallback(r)
         /\ \A f \in batch \ {e} : f.sock # r
<1>1. e.fd \in Fd /\ e.sock \in Req
  BY DEF OwnInv, OwnTypes
<1>2. status[r] = "active" /\ req[r].fd = e.fd
  BY DEF OwnInv, HandlersOwned, Delivers, find_handler
<1>3. e.sock = r /\ ~InCallback(r)
  BY <1>1, <1>2, FdApart DEF OwnInv, BatchOwned
<1> QED
  BY <1>1, <1>2, <1>3 DEF OwnInv, BatchOwned

\* The handler calls the request's callback.
LEMMA CallbackCalls ==
  ASSUME OwnInv, NEW e \in batch, NEW r \in Req, Delivers(e, r), Consume(e),
         NEW err \in Errors, NEW p \in Nat, Call(r, err, p, FALSE),
         req' \in [Req -> Request], req'[r].fd = req[r].fd,
         \A q \in Req : q # r => req'[q] = req[q],
         UNCHANGED <<file, interest, handlers, status>>
  PROVE  OwnInv'
<1>1. /\ status[r] = "active" /\ req[r].fd = e.fd /\ e.fd \in Fd
      /\ e.sock = r /\ ~InCallback(r)
      /\ \A f \in batch \ {e} : f.sock # r
  BY Delivered
<1>2. StackInv /\ called \in [Req -> Seq([err : Errors, pieces : Nat])]
  BY DEF OwnInv, OwnTypes
<1>3. /\ StackInv'
      /\ called' \in [Req -> Seq([err : Errors, pieces : Nat])]
      /\ \A q \in Req : InCallback(q)' <=> q = r \/ InCallback(q)
      /\ Len(called'[r]) = Len(called[r]) + 1
      /\ \A q \in Req : q # r => called'[q] = called[q]
  BY <1>1, <1>2, CallPushes
<1>4. batch' = batch \ {e}
  BY DEF Consume
<1>5. OwnTypes'
  BY <1>3, <1>4 DEF OwnInv, OwnTypes
<1>6. FramesActive'
  BY <1>1, <1>3 DEF OwnInv, FramesActive
<1>7. HandlersOwned'
  BY DEF OwnInv, OwnTypes, HandlersOwned
<1>8. WaitingRegistered'
  <2>1. \A q \in Req : q # r => Awaited(q)' = Awaited(q)
    BY DEF Awaited
  <2> QED
    BY <1>3, <2>1 DEF OwnInv, WaitingRegistered
<1>9. SocketsOwned'
  BY DEF OwnInv, SocketsOwned
<1>10. BatchOwned'
  BY <1>1, <1>3, <1>4 DEF OwnInv, OwnTypes, BatchOwned
<1>11. CalledOnce'
  <2>1. Len(called[r]) = 0
    BY <1>1, InCallbackCalled
  <2>2. ASSUME NEW q \in Req
        PROVE  /\ status'[q] = "unused" => called'[q] = <<>>
               /\ status'[q] = "active" => Len(called'[q]) = IF InCallback(q)' THEN 1 ELSE 0
               /\ status'[q] = "freed" => Len(called'[q]) = 1 /\ ~InCallback(q)'
    <3>1. CASE q = r
      BY <1>1, <1>3, <2>1, <3>1
    <3>2. CASE q # r
      BY <1>3, <3>2 DEF OwnInv, CalledOnce
    <3> QED
      BY <3>1, <3>2
  <2> QED
    BY <2>2 DEF CalledOnce
<1> QED
  BY <1>3, <1>5, <1>6, <1>7, <1>8, <1>9, <1>10, <1>11 DEF OwnInv

\* The handler goes on with the request, which awaits the same event.
LEMMA CallbackStays ==
  ASSUME OwnInv, NEW e \in batch, NEW r \in Req, Delivers(e, r), Consume(e),
         req' \in [Req -> Request], req'[r].fd = req[r].fd,
         req'[r].state = "RECEIVING" <=> req[r].state = "RECEIVING",
         \A q \in Req : q # r => req'[q] = req[q],
         UNCHANGED <<file, interest, handlers, status, stack, called>>
  PROVE  OwnInv'
<1>1. StackInv' /\ \A q \in Req : InCallback(q)' <=> InCallback(q)
  BY DEF OwnInv, StackInv, InCallback
<1>2. batch' = batch \ {e}
  BY DEF Consume
<1>3. \A q \in Req : Awaited(q)' = Awaited(q) /\ req'[q].fd = req[q].fd
  BY DEF Awaited
<1>4. OwnTypes'
  BY <1>2 DEF OwnInv, OwnTypes
<1>5. FramesActive' /\ CalledOnce'
  BY <1>1 DEF OwnInv, FramesActive, CalledOnce
<1>6. HandlersOwned' /\ SocketsOwned'
  <2>1. \A h \in handlers : h.data \in Req
    BY DEF OwnInv, OwnTypes
  <2>2. HandlersOwned'
    BY <1>3, <2>1 DEF OwnInv, HandlersOwned
  <2>3. SocketsOwned'
    BY <1>3 DEF OwnInv, SocketsOwned
  <2> QED
    BY <2>2, <2>3
<1>7. WaitingRegistered'
  BY <1>1, <1>3 DEF OwnInv, WaitingRegistered
<1>8. BatchOwned'
  BY <1>1, <1>2, <1>3 DEF OwnInv, OwnTypes, BatchOwned
<1> QED
  BY <1>1, <1>4, <1>5, <1>6, <1>7, <1>8 DEF OwnInv

\* The request is sent, and the handler awaits the response.
LEMMA CallbackAwaitsRead ==
  ASSUME OwnInv, NEW e \in batch, NEW r \in Req, Delivers(e, r), Consume(e),
         req' \in [Req -> Request], req'[r].fd = req[r].fd,
         req'[r].state = "RECEIVING", cwh_loop_mod(req[r].fd, {READ}),
         \A q \in Req : q # r => req'[q] = req[q],
         UNCHANGED <<file, status, stack, called>>
  PROVE  OwnInv'
<1> PICK c : c = req[r].fd
  OBVIOUS
<1>0. /\ status[r] = "active" /\ c = e.fd /\ c \in Fd /\ find_handler(c) # {}
  BY Delivered DEF Delivers
<1>1. StackInv' /\ \A q \in Req : InCallback(q)' <=> InCallback(q)
  BY DEF OwnInv, StackInv, InCallback
<1>2. batch' = batch \ {e}
  BY DEF Consume
<1>3. \A q \in Req : req'[q].fd = req[q].fd /\ (q # r => Awaited(q)' = Awaited(q))
  BY DEF Awaited
<1>4. /\ interest' \in [Fd -> SUBSET Events] /\ interest'[c] = {READ}
      /\ \A g \in Fd : g # c => interest'[g] = interest[g]
  BY <1>0 DEF OwnInv, OwnTypes, cwh_loop_mod, InterestModified, Events
<1>5. ASSUME NEW h \in handlers
      PROVE  /\ h.fd \in Fd /\ h.data \in Req /\ h.events \in SUBSET Events
             /\ [h EXCEPT !.events = {READ}] \in [fd : Fd, events : SUBSET Events, data : Req]
             /\ [h EXCEPT !.events = {READ}].fd = h.fd
             /\ [h EXCEPT !.events = {READ}].data = h.data
             /\ [h EXCEPT !.events = {READ}].events = {READ}
  BY DEF OwnInv, OwnTypes, Events
<1>6. handlers' = {IF h.fd = c THEN [h EXCEPT !.events = {READ}] ELSE h : h \in handlers}
  BY DEF cwh_loop_mod
<1>7. ASSUME NEW k \in handlers'
      PROVE  /\ k \in [fd : Fd, events : SUBSET Events, data : Req]
             /\ \E h \in handlers : /\ k.fd = h.fd /\ k.data = h.data
                                    /\ k.events = IF h.fd = c THEN {READ} ELSE h.events
  <2>1. PICK h \in handlers : k = IF h.fd = c THEN [h EXCEPT !.events = {READ}] ELSE h
    BY <1>6
  <2>2. h \in [fd : Fd, events : SUBSET Events, data : Req]
    BY DEF OwnInv, OwnTypes
  <2>3. CASE h.fd = c
    BY <1>5, <2>1, <2>3
  <2>4. CASE h.fd # c
    BY <2>1, <2>2, <2>4
  <2> QED
    BY <2>3, <2>4
<1>8. ASSUME NEW h \in handlers
      PROVE  \E k \in handlers' : /\ k.fd = h.fd /\ k.data = h.data
                                  /\ k.events = IF h.fd = c THEN {READ} ELSE h.events
  <2>1. CASE h.fd = c
    <3>1. [h EXCEPT !.events = {READ}] \in handlers'
      BY <1>6, <2>1
    <3> QED
      BY <1>5, <2>1, <3>1
  <2>2. CASE h.fd # c
    <3>1. h \in handlers'
      BY <1>6, <2>2
    <3> QED
      BY <2>2, <3>1
  <2> QED
    BY <2>1, <2>2
<1>9. OwnTypes'
  BY <1>2, <1>4, <1>7 DEF OwnInv, OwnTypes
<1>10. FramesActive' /\ CalledOnce' /\ SocketsOwned'
  BY <1>1, <1>3 DEF OwnInv, FramesActive, CalledOnce, SocketsOwned
<1>11. HandlersOwned'
  <2>1. ASSUME NEW k \in handlers'
        PROVE  status'[k.data] = "active" /\ req'[k.data].fd = k.fd
               /\ interest'[k.fd] = k.events /\ k.events # {}
    <3>1. PICK h \in handlers : /\ k.fd = h.fd /\ k.data = h.data
                                 /\ k.events = IF h.fd = c THEN {READ} ELSE h.events
      BY <1>7
    <3>2. /\ status[h.data] = "active" /\ req[h.data].fd = h.fd
          /\ interest[h.fd] = h.events /\ h.events # {}
      BY DEF OwnInv, HandlersOwned
    <3>3. h.fd \in Fd /\ h.data \in Req
      BY <1>5
    <3>4. status'[k.data] = "active" /\ req'[k.data].fd = k.fd
      BY <1>3, <3>1, <3>2, <3>3
    <3>5. interest'[k.fd] = k.events /\ k.events # {}
      BY <1>4, <3>1, <3>2, <3>3
    <3> QED
      BY <3>4, <3>5
  <2> QED
    BY <2>1 DEF HandlersOwned
<1>12. WaitingRegistered'
  <2>1. ASSUME NEW q \in Req, status'[q] = "active", ~InCallback(q)'
        PROVE  \E k \in handlers' : k.data = q /\ Awaited(q)' \in k.events
    <3>1. PICK h \in handlers : h.data = q /\ Awaited(q) \in h.events
      BY <1>1, <2>1 DEF OwnInv, WaitingRegistered
    <3>2. PICK k \in handlers' : /\ k.fd = h.fd /\ k.data = h.data
                                 /\ k.events = IF h.fd = c THEN {READ} ELSE h.events
      BY <1>8
    <3>3. h.fd = req[q].fd /\ status[q] = "active"
      BY <3>1 DEF OwnInv, HandlersOwned
    <3>4. CASE q = r
      <4>1. Awaited(q)' = READ
        BY <3>4 DEF Awaited
      <4> QED
        BY <3>1, <3>2, <3>3, <3>4, <4>1
    <3>5. CASE q # r
      <4>1. h.fd # c
        BY <1>0, <3>3, <3>5, FdApart
      <4> QED
        BY <1>3, <3>1, <3>2, <3>5, <4>1
    <3> QED
      BY <3>4, <3>5
  <2> QED
    BY <2>1 DEF WaitingRegistered
<1>13. BatchOwned'
  BY <1>1, <1>2, <1>3 DEF OwnInv, OwnTypes, BatchOwned
<1> QED
  BY <1>1, <1>9, <1>10, <1>11, <1>12, <1>13 DEF OwnInv

\* The loop waits, and what it is told is for the requests that wait for it.
LEMMA WaitOwn ==
  ASSUME OwnInv, Wait
  PROVE  OwnInv'
<1>1. stack = <<>> /\ batch' \subseteq Ready(Level)
      /\ UNCHANGED <<file, interest, handlers, status, req, stack, called>>
  BY DEF Wait, epoll_wait, clientVars
<1>2. StackInv' /\ \A q \in Req : ~InCallback(q) /\ ~InCallback(q)'
  BY <1>1 DEF OwnInv, StackInv, InCallback
<1>3. ASSUME NEW e \in batch'
      PROVE  /\ e = Report(e.fd, Due(Level, e.fd))
             /\ e \in [fd : Fd, events : SUBSET Events, sock : Req]
             /\ status[e.sock] = "active" /\ req[e.sock].fd = e.fd
  <2>1. PICK g \in Fd : e = Report(g, Due(Level, g)) /\ Due(Level, g) # {}
    BY <1>1 DEF Ready
  <2>2. e.fd = g /\ e.sock = file[g] /\ e.events = Due(Level, g)
    BY <2>1 DEF Report
  <2>3. Due(Level, g) \subseteq Level[g]
    BY DEF Due
  <2>4. file[g] \in Req /\ Level[g] \subseteq Events
    <3>1. Level[g] # {}
      BY <2>1, <2>3
    <3> QED
      BY <3>1 DEF Level
  <2>5. e \in [fd : Fd, events : SUBSET Events, sock : Req]
    BY <2>1, <2>3, <2>4 DEF Report
  <2>6. status[file[g]] = "active" /\ req[file[g]].fd = g
    BY <2>4 DEF OwnInv, SocketsOwned
  <2> QED
    BY <2>1, <2>2, <2>5, <2>6
<1>4. OwnTypes'
  BY <1>1, <1>3 DEF OwnInv, OwnTypes
<1>5. BatchOwned'
  <2>1. \A e \in batch' : status[e.sock] = "active" /\ req[e.sock].fd = e.fd /\ e.sock \in Req
    BY <1>3
  <2>2. \A e, f \in batch' : e.fd = f.fd => e = f
    BY <1>3
  <2> QED
    BY <1>1, <1>2, <2>1, <2>2 DEF BatchOwned
<1>6. FramesActive' /\ CalledOnce' /\ SocketsOwned' /\ HandlersOwned'
  BY <1>1, <1>2 DEF OwnInv, FramesActive, CalledOnce, SocketsOwned, HandlersOwned
<1>7. WaitingRegistered'
  BY <1>1, <1>2 DEF OwnInv, WaitingRegistered, Awaited
<1> QED
  BY <1>2, <1>4, <1>5, <1>6, <1>7 DEF OwnInv

-----------------------------------------------------------------------------
(* The rest of the program, and who holds what.                            *)

\* What does not touch the requests, the loop or their descriptors.
LEMMA OwnUnchanged ==
  ASSUME OwnInv, UNCHANGED <<loopVars, status, req, stack, called>>
  PROVE  OwnInv'
<1>1. StackInv' /\ \A q \in Req : (InCallback(q)' <=> InCallback(q)) /\ Awaited(q)' = Awaited(q)
  BY DEF OwnInv, StackInv, InCallback, Awaited
<1>2. OwnTypes' /\ FramesActive' /\ CalledOnce'
  BY <1>1 DEF OwnInv, OwnTypes, FramesActive, CalledOnce, loopVars
<1>3. HandlersOwned' /\ WaitingRegistered'
  BY <1>1 DEF OwnInv, OwnTypes, HandlersOwned, WaitingRegistered, loopVars
<1>4. SocketsOwned' /\ BatchOwned'
  BY <1>1 DEF OwnInv, OwnTypes, SocketsOwned, BatchOwned, loopVars
<1> QED
  BY <1>1, <1>2, <1>3, <1>4 DEF OwnInv

\* Descriptors that are not the requests' change hands.
LEMMA OthersFiles ==
  ASSUME OwnInv, file' \in [Fd -> Req \cup {App, NoFile}],
         \A fd \in Fd : file'[fd] # file[fd] => file[fd] \notin Req /\ file'[fd] \notin Req,
         UNCHANGED <<interest, handlers, batch, status, req, stack, called>>
  PROVE  OwnInv'
<1>1. StackInv' /\ \A q \in Req : (InCallback(q)' <=> InCallback(q)) /\ Awaited(q)' = Awaited(q)
  BY DEF OwnInv, StackInv, InCallback, Awaited
<1>2. OwnTypes' /\ FramesActive' /\ CalledOnce'
  BY <1>1 DEF OwnInv, OwnTypes, FramesActive, CalledOnce
<1>3. HandlersOwned' /\ WaitingRegistered'
  BY <1>1 DEF OwnInv, OwnTypes, HandlersOwned, WaitingRegistered
<1>4. BatchOwned'
  BY <1>1 DEF OwnInv, OwnTypes, BatchOwned
<1>5. SocketsOwned'
  <2>1. ASSUME NEW g \in Fd, NEW q \in Req
        PROVE  file'[g] = q <=> status'[q] = "active" /\ req'[q].fd = g
    <3>1. file[g] = q <=> status[q] = "active" /\ req[q].fd = g
      BY DEF OwnInv, SocketsOwned
    <3>2. file'[g] = q <=> file[g] = q
      OBVIOUS
    <3> QED
      BY <3>1, <3>2
  <2> QED
    BY <2>1 DEF SocketsOwned
<1> QED
  BY <1>1, <1>2, <1>3, <1>4, <1>5 DEF OwnInv

LEMMA AppOpensOwn ==
  ASSUME OwnInv, AppOpens
  PROVE  OwnInv'
<1>1. PICK fd \in Fd : file[fd] = NoFile /\ file' = [file EXCEPT ![fd] = App]
  BY DEF AppOpens, IsNextFd, Free
<1>2. file' \in [Fd -> Req \cup {App, NoFile}]
  BY <1>1 DEF OwnInv, OwnTypes
<1>3. \A g \in Fd : file'[g] # file[g] => file[g] \notin Req /\ file'[g] \notin Req
  BY <1>1, ClientAssumption DEF OwnInv, OwnTypes
<1> QED
  BY <1>2, <1>3, OthersFiles DEF AppOpens

\* Nothing is idle, so the cleanup finds nothing to close.
LEMMA CleanupIdles ==
  ASSUME IInv, cwh_async_pool_cleanup
  PROVE  UNCHANGED vars
<1>1. IdleEntries = {}
  BY DEF IInv, NetInv, PoolInv, IdleEntries
<1>2. {e.fd : e \in IdleEntries} = {}
  BY <1>1
<1>3. active_count' = active_count /\ pool' = pool
  <2>1. Cardinality(IdleEntries) = 0
    BY <1>1, FS_EmptySet
  <2> QED
    BY <1>1, <2>1 DEF cwh_async_pool_cleanup, IInv, NetInv, PoolInv
<1>4. ClosesPooled(IdleEntries)
  BY DEF cwh_async_pool_cleanup
<1>5. file' = [fd \in Fd |-> file[fd]] /\ interest' = [fd \in Fd |-> interest[fd]]
      /\ link' = [r \in Req |-> link[r]]
  BY <1>2, <1>4 DEF ClosesPooled, Closed
<1>6. file' = file /\ interest' = interest /\ link' = link
  BY <1>5 DEF IInv, OwnInv, OwnTypes, NetInv, NetTypes
<1> QED
  BY <1>3, <1>4, <1>6 DEF ClosesPooled, vars, loopVars, clientVars, netVars

\* No request is under way: the sockets in the pool are closed already.
LEMMA ShutdownOwn ==
  ASSUME OwnInv, cwh_async_pool_shutdown
  PROVE  OwnInv'
<1>1. \A q \in Req : status[q] # "active"
  BY DEF cwh_async_pool_shutdown
<1>2. \A fd \in Fd : file[fd] \notin Req
  BY <1>1 DEF OwnInv, SocketsOwned
<1>3. handlers = {} /\ batch = {}
  BY <1>1 DEF OwnInv, OwnTypes, HandlersOwned, BatchOwned
<1> PICK fds : fds = {e.fd : e \in pool}
  OBVIOUS
<1>4. /\ file' = Closed(fds) /\ interest' = [fd \in Fd |-> IF fd \in fds THEN {} ELSE interest[fd]]
      /\ UNCHANGED <<handlers, batch, status, req, stack, called>>
  BY DEF cwh_async_pool_shutdown, ClosesPooled
<1>5. /\ file' \in [Fd -> Req \cup {App, NoFile}]
      /\ \A fd \in Fd : file'[fd] \notin Req
  BY <1>2, <1>4, ClientAssumption DEF OwnInv, OwnTypes, Closed
<1>6. interest' \in [Fd -> SUBSET Events]
  BY <1>4 DEF OwnInv, OwnTypes
<1>7. StackInv' /\ \A q \in Req : InCallback(q)' <=> InCallback(q)
  BY <1>4 DEF OwnInv, StackInv, InCallback
<1>8. OwnTypes' /\ FramesActive' /\ CalledOnce'
  BY <1>4, <1>5, <1>6, <1>7 DEF OwnInv, OwnTypes, FramesActive, CalledOnce
<1>9. HandlersOwned' /\ WaitingRegistered' /\ BatchOwned' /\ SocketsOwned'
  BY <1>1, <1>3, <1>4, <1>5 DEF HandlersOwned, WaitingRegistered, BatchOwned, SocketsOwned
<1> QED
  BY <1>7, <1>8, <1>9 DEF OwnInv

-----------------------------------------------------------------------------
(* What is on its way, and the pool.                                       *)

\* A step about one request disturbs the amounts of that request alone.
LEMMA NetOne ==
  ASSUME NetInv, PoolInv', NetTypes', NEW r \in Req,
         \A q \in Req : status'[q] = "unused" => status[q] = "unused" /\ q # r,
         \A q \in Req : q # r =>
           /\ req'[q] = req[q] /\ link'[q] = link[q] /\ outq'[q] = outq[q]
           /\ seen'[q] = seen[q] /\ inq'[q] = inq[q] /\ replied'[q] = replied[q],
         /\ seen'[r] + outq'[r] + req'[r].unsent <= ReqLen
         /\ req'[r].state = "CONNECTING" => seen'[r] = 0 /\ outq'[r] = 0 /\ req'[r].unsent = 0
         /\ inq'[r] + req'[r].recv_len <= replied'[r]
         /\ replied'[r] <= Reply[r].whole
  PROVE  NetInv'
<1>1. Untouched'
  BY DEF NetInv, Untouched
<1>2. Amounts'
  <2>1. ASSUME NEW q \in Req
        PROVE  /\ seen'[q] + outq'[q] + req'[q].unsent <= ReqLen
               /\ req'[q].state = "CONNECTING" =>
                    seen'[q] = 0 /\ outq'[q] = 0 /\ req'[q].unsent = 0
               /\ inq'[q] + req'[q].recv_len <= replied'[q]
               /\ replied'[q] <= Reply[q].whole
    <3>1. CASE q = r
      BY <3>1
    <3>2. CASE q # r
      BY <3>2 DEF NetInv, Amounts
    <3> QED
      BY <3>1, <3>2
  <2> QED
    BY <2>1 DEF Amounts
<1> QED
  BY <1>1, <1>2 DEF NetInv

LEMMA NetUnchanged ==
  ASSUME NetInv, UNCHANGED <<pool, active_count, app_fd, netVars, status, req>>
  PROVE  NetInv'
BY DEF NetInv, PoolInv, NetTypes, Untouched, Amounts, netVars

\* What the numbers of a request are.
LEMMA Numbers ==
  ASSUME IInv, NEW r \in Req
  PROVE  /\ seen[r] \in Nat /\ seen[r] <= ReqLen /\ outq[r] \in Nat /\ outq[r] <= SndCap
         /\ inq[r] \in Nat /\ replied[r] \in Nat
         /\ replied[r] <= Reply[r].whole /\ Reply[r].whole \in Nat /\ Reply[r].whole >= 2
         /\ req[r].unsent \in Nat /\ req[r].unsent <= ReqLen
         /\ req[r].recv_len \in Nat /\ req[r].recv_len <= RecvCap
         /\ req[r].state \in States /\ req[r].fd \in Fd \cup {-1}
         /\ seen[r] + outq[r] + req[r].unsent <= ReqLen
         /\ req[r].state = "CONNECTING" => seen[r] = 0 /\ outq[r] = 0 /\ req[r].unsent = 0
         /\ inq[r] + req[r].recv_len <= replied[r]
         /\ ReqLen \in Nat /\ SndCap \in Nat /\ RecvCap \in Nat
<1>1. ReqLen \in Nat /\ SndCap \in Nat /\ RecvCap \in Nat
  BY ClientAssumption
<1>5. Reply[r].whole \in Nat /\ Reply[r].whole >= 2
  BY AtLeastHead
<1>2. /\ outq[r] \in 0 .. SndCap /\ seen[r] \in 0 .. ReqLen
      /\ inq[r] \in Nat /\ replied[r] \in Nat
  BY DEF IInv, NetInv, NetTypes
<1>3. req[r] \in Request
  BY DEF IInv, OwnInv, OwnTypes
<1>4. /\ req[r].unsent \in 0 .. ReqLen /\ req[r].recv_len \in 0 .. RecvCap
      /\ req[r].state \in States /\ req[r].fd \in Fd \cup {-1}
  BY <1>3 DEF Request
<1> QED
  BY <1>1, <1>2, <1>4, <1>5 DEF IInv, NetInv, Amounts

LEMMA ServerNet ==
  ASSUME IInv, NEW r \in Req, Server(r) \/ ServerCloses(r) \/ ServerResets(r)
  PROVE  IInv'
<1>1. UNCHANGED <<loopVars, status, req, pool, active_count, stack, called, app_fd>>
  BY DEF Server, ServerAccepts, ServerReads, ServerReplies, ServerCloses, ServerResets, clientVars
<1>2. OwnInv'
  BY <1>1, OwnUnchanged DEF IInv
<1>3. PoolInv'
  BY <1>1 DEF IInv, NetInv, PoolInv
<1>4. link[r] # "none"
  BY DEF Server, ServerAccepts, ServerReads, ServerReplies, ServerCloses, ServerResets
<1>5. \A q \in Req : status'[q] = "unused" => status[q] = "unused" /\ q # r
  BY <1>1, <1>4 DEF IInv, NetInv, Untouched
<1>6. /\ link \in [Req -> Links] /\ outq \in [Req -> 0 .. SndCap]
      /\ seen \in [Req -> 0 .. ReqLen] /\ inq \in [Req -> Nat] /\ replied \in [Req -> Nat]
  BY DEF IInv, NetInv, NetTypes
<1>7. CASE ServerAccepts(r) \/ ServerCloses(r)
  <2>1. link' \in [Req -> Links] /\ \A q \in Req : q # r => link'[q] = link[q]
    BY <1>6, <1>7 DEF ServerAccepts, ServerCloses, Links
  <2>2. UNCHANGED <<outq, seen, inq, replied>>
    BY <1>7 DEF ServerAccepts, ServerCloses
  <2>3. NetTypes'
    BY <1>6, <2>1, <2>2 DEF NetTypes
  <2>4. NetInv'
    BY <1>1, <1>3, <1>5, <2>1, <2>2, <2>3, NetOne, Numbers DEF IInv
  <2> QED
    BY <1>2, <2>4 DEF IInv
<1>8. CASE ServerReads(r)
  <2>1. /\ outq[r] > 0 /\ outq' = [outq EXCEPT ![r] = @ - 1] /\ seen' = [seen EXCEPT ![r] = @ + 1]
        /\ UNCHANGED <<link, inq, replied>>
    BY <1>8 DEF ServerReads
  <2>2. outq[r] - 1 \in 0 .. SndCap /\ seen[r] + 1 \in 0 .. ReqLen
    BY <2>1, Numbers
  <2>3. NetTypes'
    BY <1>6, <2>1, <2>2 DEF NetTypes
  <2>4. outq'[r] = outq[r] - 1 /\ seen'[r] = seen[r] + 1
        /\ \A q \in Req : q # r => outq'[q] = outq[q] /\ seen'[q] = seen[q]
    BY <1>6, <2>1
  <2>5. /\ seen'[r] + outq'[r] + req'[r].unsent <= ReqLen
        /\ req'[r].state = "CONNECTING" => seen'[r] = 0 /\ outq'[r] = 0 /\ req'[r].unsent = 0
        /\ inq'[r] + req'[r].recv_len <= replied'[r]
        /\ replied'[r] <= Reply[r].whole
    BY <1>1, <2>1, <2>4, Numbers
  <2>6. NetInv'
    BY <1>1, <1>3, <1>5, <2>1, <2>3, <2>4, <2>5, NetOne DEF IInv
  <2> QED
    BY <1>2, <2>6 DEF IInv
<1>9. CASE ServerReplies(r)
  <2>1. /\ replied[r] < Reply[r].whole /\ replied' = [replied EXCEPT ![r] = @ + 1]
        /\ inq' = [inq EXCEPT ![r] = @ + 1] /\ UNCHANGED <<link, outq, seen>>
    BY <1>9 DEF ServerReplies
  <2>2. replied[r] + 1 \in Nat /\ inq[r] + 1 \in Nat
    <3>1. inq[r] \in Nat /\ replied[r] \in Nat
      BY Numbers
    <3> QED
      BY <3>1
  <2>3. NetTypes'
    BY <1>6, <2>1, <2>2 DEF NetTypes
  <2>4. replied'[r] = replied[r] + 1 /\ inq'[r] = inq[r] + 1
        /\ \A q \in Req : q # r => replied'[q] = replied[q] /\ inq'[q] = inq[q]
    BY <1>6, <2>1
  <2>5. /\ seen'[r] + outq'[r] + req'[r].unsent <= ReqLen
        /\ req'[r].state = "CONNECTING" => seen'[r] = 0 /\ outq'[r] = 0 /\ req'[r].unsent = 0
        /\ inq'[r] + req'[r].recv_len <= replied'[r]
        /\ replied'[r] <= Reply[r].whole
    BY <1>1, <2>1, <2>4, Numbers
  <2>6. NetInv'
    BY <1>1, <1>3, <1>5, <2>1, <2>3, <2>4, <2>5, NetOne DEF IInv
  <2> QED
    BY <1>2, <2>6 DEF IInv
<1>10. CASE ServerResets(r)
  <2>1. /\ link' = [link EXCEPT ![r] = "reset"] /\ inq' = [inq EXCEPT ![r] = 0]
        /\ outq' = [outq EXCEPT ![r] = 0] /\ UNCHANGED <<seen, replied>>
    BY <1>10 DEF ServerResets
  <2>2. 0 \in 0 .. SndCap /\ 0 \in Nat
    BY Numbers
  <2>3. NetTypes'
    BY <1>6, <2>1, <2>2 DEF NetTypes, Links
  <2>4. inq'[r] = 0 /\ outq'[r] = 0
        /\ \A q \in Req : q # r => link'[q] = link[q] /\ inq'[q] = inq[q] /\ outq'[q] = outq[q]
    BY <1>6, <2>1
  <2>5. /\ seen'[r] + outq'[r] + req'[r].unsent <= ReqLen
        /\ req'[r].state = "CONNECTING" => seen'[r] = 0 /\ outq'[r] = 0 /\ req'[r].unsent = 0
        /\ inq'[r] + req'[r].recv_len <= replied'[r]
        /\ replied'[r] <= Reply[r].whole
    BY <1>1, <2>1, <2>4, Numbers
  <2>6. NetInv'
    BY <1>1, <1>3, <1>5, <2>1, <2>3, <2>4, <2>5, NetOne DEF IInv
  <2> QED
    BY <1>2, <2>6 DEF IInv
<1> QED
  BY <1>7, <1>8, <1>9, <1>10 DEF Server

LEMMA TimePassesInv ==
  ASSUME IInv, TimePasses
  PROVE  IInv'
<1>1. OwnInv'
  BY OwnUnchanged DEF IInv, TimePasses
<1>2. ASSUME NEW e \in pool
      PROVE  /\ [e EXCEPT !.expired = TRUE]
                  \in [of : Req, fd : Fd, in_use : BOOLEAN, expired : BOOLEAN]
             /\ [e EXCEPT !.expired = TRUE].in_use
  BY DEF IInv, NetInv, PoolInv
<1>3. PoolInv'
  BY <1>2 DEF IInv, NetInv, PoolInv, TimePasses
<1>4. NetTypes' /\ Untouched' /\ Amounts'
  BY DEF IInv, NetInv, NetTypes, Untouched, Amounts, TimePasses, netVars
<1> QED
  BY <1>1, <1>3, <1>4 DEF IInv, NetInv

LEMMA AppOpensInv ==
  ASSUME IInv, AppOpens
  PROVE  IInv'
<1>1. OwnInv'
  BY AppOpensOwn DEF IInv
<1>2. PoolInv'
  BY DEF IInv, NetInv, PoolInv, AppOpens
<1>3. NetTypes' /\ Untouched' /\ Amounts'
  BY DEF IInv, NetInv, NetTypes, Untouched, Amounts, AppOpens, netVars
<1> QED
  BY <1>1, <1>2, <1>3 DEF IInv, NetInv

LEMMA ShutdownInv ==
  ASSUME IInv, cwh_async_pool_shutdown
  PROVE  IInv'
<1>1. OwnInv'
  BY ShutdownOwn DEF IInv
<1>2. \A fd \in Fd, r \in Req : file[fd] # r
  BY DEF cwh_async_pool_shutdown, IInv, OwnInv, SocketsOwned
<1>3. \A e \in pool : e.fd \in Fd
  BY DEF IInv, NetInv, PoolInv
<1> PICK fds : fds = {e.fd : e \in pool}
  OBVIOUS
<1>4. fds \subseteq Fd
  BY <1>3
<1>5. link' = [r \in Req |-> IF \E fd \in fds : file[fd] = r THEN "closed" ELSE link[r]]
  BY DEF cwh_async_pool_shutdown, ClosesPooled
<1>6. \A r \in Req : link'[r] = link[r]
  BY <1>2, <1>4, <1>5
<1>7. link' \in [Req -> Links]
  <2>1. link \in [Req -> Links]
    BY DEF IInv, NetInv, NetTypes
  <2> QED
    BY <1>5, <2>1 DEF Links
<1>8. PoolInv'
  BY ClientAssumption DEF IInv, NetInv, PoolInv, cwh_async_pool_shutdown, ClosesPooled
<1>9. NetTypes' /\ Untouched' /\ Amounts'
  BY <1>6, <1>7
     DEF IInv, NetInv, NetTypes, Untouched, Amounts, cwh_async_pool_shutdown, ClosesPooled
<1> QED
  BY <1>1, <1>8, <1>9 DEF IInv, NetInv

LEMMA AddsToPool ==
  ASSUME IInv, NEW r \in Req, NEW fd \in Fd, pool_add_connection(r, fd), UNCHANGED app_fd
  PROVE  PoolInv'
<1>1. PoolInv
  BY DEF IInv, NetInv
<1>2. CASE HasRoom
  <2>1. PICK e : e = [of |-> r, fd |-> fd, in_use |-> TRUE, expired |-> FALSE]
    OBVIOUS
  <2>2. e \in [of : Req, fd : Fd, in_use : BOOLEAN, expired : BOOLEAN] /\ e.in_use
    BY <2>1
  <2>3. pool' = pool \cup {e} /\ active_count' = active_count + 1
    BY <1>2, <2>1 DEF pool_add_connection
  <2>4. active_count' \in 0 .. MaxPool
    BY <1>1, <1>2, <2>3, ClientAssumption DEF PoolInv, HasRoom
  <2> QED
    BY <1>1, <2>2, <2>3, <2>4 DEF PoolInv
<1>3. CASE ~HasRoom
  BY <1>1, <1>3 DEF pool_add_connection, PoolInv
<1> QED
  BY <1>2, <1>3

\* A request starts: nothing has been sent or received.
LEMMA StartNet ==
  ASSUME IInv, PoolInv', NEW r \in Req, status[r] = "unused",
         status' = [status EXCEPT ![r] = "active"],
         req' \in [Req -> Request], req'[r].unsent = 0, req'[r].recv_len = 0,
         \A q \in Req : q # r => req'[q] = req[q],
         NEW l \in Links, link' = link \/ link' = [link EXCEPT ![r] = l],
         UNCHANGED <<outq, seen, inq, replied>>
  PROVE  NetInv'
<1>1. NetTypes'
  BY DEF IInv, NetInv, NetTypes
<1>2. \A q \in Req : status'[q] = "unused" => status[q] = "unused" /\ q # r
  BY DEF IInv, OwnInv, OwnTypes
<1>3. \A q \in Req : q # r => link'[q] = link[q]
  BY DEF IInv, NetInv, NetTypes
<1>4. outq[r] = 0 /\ seen[r] = 0 /\ inq[r] = 0 /\ replied[r] = 0
  BY DEF IInv, NetInv, Untouched
<1>5. /\ seen'[r] + outq'[r] + req'[r].unsent <= ReqLen
      /\ req'[r].state = "CONNECTING" => seen'[r] = 0 /\ outq'[r] = 0 /\ req'[r].unsent = 0
      /\ inq'[r] + req'[r].recv_len <= replied'[r]
      /\ replied'[r] <= Reply[r].whole
  BY <1>4, ClientAssumption, AtLeastHead
<1> QED
  BY <1>1, <1>2, <1>3, <1>5, NetOne DEF IInv

\* A request starts.
LEMMA RequestInv ==
  ASSUME IInv, NEW r \in Req, cwh_async_request(r)
  PROVE  IInv'
<1>1. /\ status[r] = "unused" /\ status' = [status EXCEPT ![r] = "active"]
      /\ UNCHANGED <<batch, app_fd, outq, seen, inq, replied>>
  BY DEF cwh_async_request
<1>2. NewRequest \in Request /\ NewRequest.unsent = 0 /\ NewRequest.recv_len = 0
  BY ClientAssumption DEF NewRequest, Request, States
<1>3. req \in [Req -> Request]
  BY DEF IInv, OwnInv, OwnTypes
<1>4. PICK closed \in Links : closed = "closed"
  BY DEF Links
<1>5. pool_get_connection(r) = {}
  BY DEF pool_get_connection, IInv, NetInv, PoolInv
<1>6. ASSUME req' = [req EXCEPT ![r] = NewRequest]
      PROVE  /\ req' \in [Req -> Request] /\ req'[r].unsent = 0 /\ req'[r].recv_len = 0
             /\ \A q \in Req : q # r => req'[q] = req[q]
  BY <1>2, <1>3, <1>6
<1>7. CASE FailsEarly(r)
  <2>1. /\ req' = [req EXCEPT ![r] = NewRequest] /\ Call(r, "NET", 0, FALSE)
        /\ UNCHANGED <<file, interest, handlers, pool, active_count, link>>
    BY <1>7 DEF FailsEarly
  <2>2. OwnInv'
    BY <1>1, <2>1, StartFails DEF IInv
  <2>3. PoolInv'
    BY <1>1, <2>1 DEF IInv, NetInv, PoolInv
  <2>4. NetInv'
    BY <1>1, <1>4, <1>6, <2>1, <2>3, StartNet
  <2> QED
    BY <2>2, <2>4 DEF IInv
<1>8. ASSUME NEW fd \in Fd, FailsToConnect(r, fd) PROVE IInv'
  <2>1. /\ req' = [req EXCEPT ![r] = NewRequest] /\ Call(r, "NET", 0, FALSE)
        /\ UNCHANGED <<file, interest, handlers, link>>
    BY <1>8 DEF FailsToConnect
  <2>2. OwnInv'
    BY <1>1, <2>1, StartFails DEF IInv
  <2>3. PoolInv'
    BY <1>1, <1>8, AddsToPool DEF FailsToConnect
  <2>4. NetInv'
    BY <1>1, <1>4, <1>6, <2>1, <2>3, StartNet
  <2> QED
    BY <2>2, <2>4 DEF IInv
<1>9. ASSUME NEW fd \in Fd, file[fd] = NoFile, NEW st \in {"CONNECTING", "SENDING"},
             Connects(r, fd, st)
      PROVE  IInv'
  <2>1. /\ pool_add_connection(r, fd)
        /\ file' = [file EXCEPT ![fd] = r]
        /\ req' = [req EXCEPT ![r] = [NewRequest EXCEPT !.fd = fd, !.state = st]]
        /\ \/ /\ cwh_loop_add(fd, IF st = "CONNECTING" THEN {WRITE} ELSE {READ, WRITE}, r)
              /\ UNCHANGED <<stack, called>>
           \/ Call(r, "NET", 0, FALSE) /\ UNCHANGED <<interest, handlers>>
    BY <1>9 DEF Connects
  <2>2. OwnInv'
    BY <1>1, <1>9, <2>1, StartConnects DEF IInv
  <2>3. PoolInv'
    BY <1>1, <2>1, AddsToPool
  <2>4. PICK l \in Links : link' = [link EXCEPT ![r] = l]
    <3>1. (IF st = "CONNECTING" THEN "syn" ELSE "up") \in Links
      BY DEF Links
    <3> QED
      BY <1>9, <3>1 DEF Connects
  <2>5. PICK x : x = [NewRequest EXCEPT !.fd = fd, !.state = st]
    OBVIOUS
  <2>6. x.unsent = 0 /\ x.recv_len = 0
    BY <2>5 DEF NewRequest
  <2>7. req' \in [Req -> Request]
    BY <2>2 DEF OwnInv, OwnTypes
  <2>8. req'[r].unsent = 0 /\ req'[r].recv_len = 0 /\ \A q \in Req : q # r => req'[q] = req[q]
    BY <1>3, <2>1, <2>5, <2>6
  <2>9. NetInv'
    BY <1>1, <2>3, <2>4, <2>7, <2>8, StartNet
  <2> QED
    BY <2>2, <2>9 DEF IInv
<1> QED
  BY <1>5, <1>7, <1>8, <1>9 DEF cwh_async_request, IsNextFd, Free

\* The callback returns.
LEMMA ReturnInv ==
  ASSUME IInv, Return
  PROVE  IInv'
<1> PICK r : r = Head(stack).req
  OBVIOUS
<1>1. stack # <<>> /\ stack' = Tail(stack) /\ UNCHANGED <<batch, active_count, called, app_fd,
                                                          seen, replied>>
  BY DEF Return
<1>2. r \in Req /\ Head(stack).keep = FALSE /\ InCallback(r)
  BY <1>1, ReturnPops DEF IInv, OwnInv
<1>3. /\ DelAndClose({req[r].fd})
      /\ link' = [link EXCEPT ![r] = IF req[r].fd = -1 THEN @ ELSE "closed"]
      /\ inq' = [inq EXCEPT ![r] = 0] /\ outq' = [outq EXCEPT ![r] = 0]
      /\ UNCHANGED pool
      /\ status' = [status EXCEPT ![r] = "freed"]
      /\ req' = [req EXCEPT ![r] = NewRequest]
  BY <1>2 DEF Return, Unlisted
<1>4. OwnInv'
  BY <1>1, <1>2, <1>3, ReturnOwn DEF IInv
<1>5. PoolInv'
  BY <1>1, <1>3 DEF IInv, NetInv, PoolInv
<1>6. NewRequest.unsent = 0 /\ NewRequest.recv_len = 0 /\ NewRequest.state = "IDLE"
  BY DEF NewRequest
<1>7. req'[r] = NewRequest /\ \A q \in Req : q # r => req'[q] = req[q]
  BY <1>2, <1>3 DEF IInv, OwnInv, OwnTypes
<1>8. /\ inq'[r] = 0 /\ outq'[r] = 0
      /\ \A q \in Req : q # r => inq'[q] = inq[q] /\ outq'[q] = outq[q] /\ link'[q] = link[q]
  BY <1>2, <1>3 DEF IInv, NetInv, NetTypes
<1>9. 0 \in 0 .. SndCap /\ 0 \in Nat
  BY ClientAssumption
<1>10. NetTypes'
  BY <1>1, <1>2, <1>3, <1>9 DEF IInv, NetInv, NetTypes, Links
<1>11. \A q \in Req : status'[q] = "unused" => status[q] = "unused" /\ q # r
  BY <1>2, <1>3 DEF IInv, OwnInv, OwnTypes
<1>12. /\ seen'[r] + outq'[r] + req'[r].unsent <= ReqLen
       /\ req'[r].state = "CONNECTING" => seen'[r] = 0 /\ outq'[r] = 0 /\ req'[r].unsent = 0
       /\ inq'[r] + req'[r].recv_len <= replied'[r]
       /\ replied'[r] <= Reply[r].whole
  <2>1. seen[r] \in 0 .. ReqLen /\ replied[r] \in Nat /\ ReqLen \in Nat
    BY <1>2, ClientAssumption DEF IInv, NetInv, NetTypes
  <2>2. replied'[r] <= Reply[r].whole
    BY <1>1, <1>2 DEF IInv, NetInv, Amounts
  <2>3. inq'[r] + req'[r].recv_len <= replied'[r]
    BY <1>1, <1>6, <1>7, <1>8, <2>1
  <2> QED
    BY <1>1, <1>6, <1>7, <1>8, <2>1, <2>2, <2>3
<1>13. NetInv'
  BY <1>1, <1>2, <1>5, <1>7, <1>8, <1>10, <1>11, <1>12, NetOne DEF IInv
<1> QED
  BY <1>4, <1>13 DEF IInv

\* The loop waits.
LEMMA WaitInv ==
  ASSUME IInv, Wait
  PROVE  IInv'
BY WaitOwn, NetUnchanged DEF IInv, Wait, clientVars

-----------------------------------------------------------------------------
(* The handler.                                                            *)

\* The handler fails the request.
LEMMA FailsInv ==
  ASSUME IInv, NEW e \in batch, NEW r \in Req, Delivers(e, r), Consume(e), Fails(r),
         UNCHANGED <<file, status, pool, active_count, app_fd>>
  PROVE  IInv'
<1>1. Call(r, "NET", 0, FALSE) /\ UNCHANGED <<interest, handlers, req, netVars>>
  BY DEF Fails
<1>2. PICK err \in Errors : err = "NET"
  BY DEF Errors
<1>3. PICK p \in Nat : p = 0
  OBVIOUS
<1>4. req' \in [Req -> Request] /\ req'[r].fd = req[r].fd /\ \A q \in Req : req'[q] = req[q]
  BY <1>1 DEF IInv, OwnInv, OwnTypes
<1> HIDE DEF Errors
<1>5. OwnInv'
  BY <1>1, <1>2, <1>3, <1>4, CallbackCalls DEF IInv
<1>6. NetInv'
  BY <1>1, NetUnchanged DEF IInv
<1> QED
  BY <1>5, <1>6 DEF IInv

\* The handler sends what the socket takes.
LEMMA WritableInv ==
  ASSUME IInv, NEW e \in batch, NEW r \in Req, Delivers(e, r), Consume(e), OnWritable(r, e),
         UNCHANGED <<file, status, pool, active_count, app_fd>>
  PROVE  IInv'
<1> PICK u : u = IF req[r].state = "CONNECTING" THEN ReqLen ELSE req[r].unsent
  OBVIOUS
<1> PICK n : n = Fits(r, u)
  OBVIOUS
<1>1. CASE SendError(r, u)
  BY <1>1, FailsInv DEF OnWritable
<1>2. CASE ~SendError(r, u)
  <2>1. /\ outq' = [outq EXCEPT ![r] = @ + n]
        /\ UNCHANGED <<stack, called, link, seen, inq, replied>>
        /\ req[r].state \in {"CONNECTING", "SENDING"}
    BY <1>2 DEF OnWritable, send_request_data
  <2>2. /\ u \in Nat /\ u <= ReqLen /\ seen[r] + outq[r] + u <= ReqLen
    BY Numbers
  <2>3. /\ n \in Nat /\ n <= u /\ outq[r] + n \in 0 .. SndCap /\ u - n \in 0 .. ReqLen
        /\ seen[r] + (outq[r] + n) + (u - n) <= ReqLen
        /\ seen[r] + (outq[r] + n) <= ReqLen
    <3>1. /\ seen[r] \in Nat /\ outq[r] \in Nat /\ outq[r] <= SndCap
          /\ ReqLen \in Nat /\ SndCap \in Nat
      BY Numbers
    <3>2. n = IF u < SndCap - outq[r] THEN u ELSE SndCap - outq[r]
      BY DEF Fits
    <3>3. n \in Nat /\ n <= u /\ outq[r] + n \in Nat /\ outq[r] + n <= SndCap
      BY <2>2, <3>1, <3>2
    <3>4. u - n \in Nat /\ u - n <= ReqLen
      BY <2>2, <3>1, <3>3
    <3>5. /\ seen[r] + (outq[r] + n) + (u - n) <= ReqLen
          /\ seen[r] + (outq[r] + n) <= ReqLen
      BY <2>2, <3>1, <3>3
    <3>6. outq[r] + n \in 0 .. SndCap /\ u - n \in 0 .. ReqLen
      BY <3>1, <3>3, <3>4, InRange
    <3> QED
      BY <3>3, <3>5, <3>6
  <2>4. /\ req \in [Req -> Request] /\ outq \in [Req -> 0 .. SndCap]
    BY DEF IInv, OwnInv, OwnTypes, NetInv, NetTypes
  <2>5. outq' \in [Req -> 0 .. SndCap] /\ outq'[r] = outq[r] + n
        /\ \A q \in Req : q # r => outq'[q] = outq[q]
    BY <2>1, <2>3, <2>4
  <2>6. NetTypes' /\ PoolInv'
    BY <2>1, <2>5 DEF IInv, NetInv, NetTypes, PoolInv
  <2>7. status[r] = "active"
    BY Delivered DEF IInv
  <2>8. \A q \in Req : status'[q] = "unused" => status[q] = "unused" /\ q # r
    BY <2>7
  <2>9. 0 \in 0 .. ReqLen /\ "RECEIVING" \in States /\ "SENDING" \in States
    BY Numbers DEF States
  <2>10. CASE n = u
    <3>1. /\ req' = [req EXCEPT ![r].state = "RECEIVING", ![r].unsent = 0]
          /\ cwh_loop_mod(req[r].fd, {READ})
      BY <1>2, <2>10 DEF OnWritable, send_request_data
    <3>2. /\ req' \in [Req -> Request] /\ req'[r].fd = req[r].fd
          /\ req'[r].state = "RECEIVING" /\ req'[r].unsent = 0
          /\ req'[r].recv_len = req[r].recv_len
          /\ \A q \in Req : q # r => req'[q] = req[q]
      BY <2>4, <2>9, <3>1 DEF Request
    <3>3. OwnInv'
      BY <2>1, <3>1, <3>2, CallbackAwaitsRead DEF IInv
    <3>4. /\ seen'[r] + outq'[r] + req'[r].unsent <= ReqLen
          /\ req'[r].state = "CONNECTING" =>
               seen'[r] = 0 /\ outq'[r] = 0 /\ req'[r].unsent = 0
          /\ inq'[r] + req'[r].recv_len <= replied'[r]
          /\ replied'[r] <= Reply[r].whole
      BY <2>1, <2>3, <2>5, <3>2, Numbers
    <3>5. NetInv'
      BY <2>1, <2>5, <2>6, <2>8, <3>2, <3>4, NetOne DEF IInv
    <3> QED
      BY <3>3, <3>5 DEF IInv
  <2>11. CASE n # u
    <3>1. /\ req' = [req EXCEPT ![r].state = "SENDING", ![r].unsent = u - n]
          /\ UNCHANGED <<interest, handlers>>
      BY <1>2, <2>11 DEF OnWritable, send_request_data
    <3>2. /\ req' \in [Req -> Request] /\ req'[r].fd = req[r].fd
          /\ req'[r].state = "SENDING" /\ req'[r].unsent = u - n
          /\ req'[r].recv_len = req[r].recv_len
          /\ \A q \in Req : q # r => req'[q] = req[q]
      BY <2>3, <2>4, <2>9, <3>1 DEF Request
    <3>3. OwnInv'
      BY <2>1, <3>1, <3>2, CallbackStays DEF IInv
    <3>4. /\ seen'[r] + outq'[r] + req'[r].unsent <= ReqLen
          /\ req'[r].state = "CONNECTING" =>
               seen'[r] = 0 /\ outq'[r] = 0 /\ req'[r].unsent = 0
          /\ inq'[r] + req'[r].recv_len <= replied'[r]
          /\ replied'[r] <= Reply[r].whole
      BY <2>1, <2>3, <2>5, <3>2, Numbers
    <3>5. NetInv'
      BY <2>1, <2>5, <2>6, <2>8, <3>2, <3>4, NetOne DEF IInv
    <3> QED
      BY <3>3, <3>5 DEF IInv
  <2> QED
    BY <2>10, <2>11
<1> QED
  BY <1>1, <1>2

\* The handler takes what the socket has, as far as the buffer has room.
LEMMA ReadableInv ==
  ASSUME IInv, WellFormedReplies,
         NEW e \in batch, NEW r \in Req, Delivers(e, r), Consume(e), OnReadable(r, e),
         UNCHANGED <<file, status, pool, active_count, app_fd>>
  PROVE  IInv'
<1>1. CASE link[r] = "reset"
  BY <1>1, FailsInv DEF OnReadable
<1>2. CASE link[r] # "reset"
  <2> PICK room : room = RecvCap - req[r].recv_len
    OBVIOUS
  <2> PICK n : n = IF inq[r] < room THEN inq[r] ELSE room
    OBVIOUS
  <2> PICK len : len = req[r].recv_len + n
    OBVIOUS
  <2>1. /\ req[r].state = "RECEIVING"
        /\ inq' = [inq EXCEPT ![r] = @ - n]
        /\ req' = [req EXCEPT ![r].recv_len = len]
        /\ UNCHANGED <<interest, handlers, link, outq, seen, replied>>
        /\ \/ Call(r, IF len = 0 THEN "PARSE" ELSE "OK", len, len >= 2 /\ should_keep_alive(r))
           \/ UNCHANGED <<stack, called>>
    BY <1>2 DEF OnReadable
  <2>2. /\ n \in Nat /\ n <= inq[r] /\ len \in 0 .. RecvCap /\ len \in Nat
        /\ inq[r] - n \in Nat /\ (inq[r] - n) + len <= replied[r]
    <3>1. /\ inq[r] \in Nat /\ replied[r] \in Nat
          /\ req[r].recv_len \in Nat /\ req[r].recv_len <= RecvCap
          /\ inq[r] + req[r].recv_len <= replied[r] /\ RecvCap \in Nat
      BY Numbers
    <3>2. room \in Nat /\ n \in Nat /\ n <= inq[r] /\ n <= room
      BY <3>1
    <3>3. len \in Nat /\ len <= RecvCap
      BY <3>1, <3>2
    <3>4. inq[r] - n \in Nat /\ (inq[r] - n) + len <= replied[r]
      BY <3>1, <3>2
    <3>5. len \in 0 .. RecvCap
      BY <3>1, <3>3, InRange
    <3> QED
      BY <3>2, <3>3, <3>4, <3>5
  <2>3. /\ req \in [Req -> Request] /\ inq \in [Req -> Nat]
    BY DEF IInv, OwnInv, OwnTypes, NetInv, NetTypes
  <2>4. /\ req' \in [Req -> Request] /\ req'[r].fd = req[r].fd
        /\ req'[r].state = req[r].state /\ req'[r].unsent = req[r].unsent
        /\ req'[r].recv_len = len
        /\ \A q \in Req : q # r => req'[q] = req[q]
    BY <2>1, <2>2, <2>3 DEF Request
  <2>5. inq' \in [Req -> Nat] /\ inq'[r] = inq[r] - n
        /\ \A q \in Req : q # r => inq'[q] = inq[q]
    BY <2>1, <2>2, <2>3
  <2>6. NetTypes' /\ PoolInv'
    BY <2>1, <2>5 DEF IInv, NetInv, NetTypes, PoolInv
  <2>7. status[r] = "active"
    BY Delivered DEF IInv
  <2>8. \A q \in Req : status'[q] = "unused" => status[q] = "unused" /\ q # r
    BY <2>7
  <2>9. /\ seen'[r] + outq'[r] + req'[r].unsent <= ReqLen
        /\ req'[r].state = "CONNECTING" =>
             seen'[r] = 0 /\ outq'[r] = 0 /\ req'[r].unsent = 0
        /\ inq'[r] + req'[r].recv_len <= replied'[r]
        /\ replied'[r] <= Reply[r].whole
    BY <2>1, <2>2, <2>4, <2>5, Numbers
  <2>10. NetInv'
    BY <2>1, <2>4, <2>5, <2>6, <2>8, <2>9, NetOne DEF IInv
  <2>11. OwnInv'
    <3>1. CASE Call(r, IF len = 0 THEN "PARSE" ELSE "OK", len, len >= 2 /\ should_keep_alive(r))
      <4>1. (len >= 2 /\ should_keep_alive(r)) = FALSE
        BY DEF WellFormedReplies
      <4>2. PICK err \in Errors : err = IF len = 0 THEN "PARSE" ELSE "OK"
        BY DEF Errors
      <4>3. Call(r, err, len, FALSE)
        BY <3>1, <4>1, <4>2
      <4> HIDE DEF Errors
      <4> QED
        BY <2>1, <2>2, <2>4, <4>3, CallbackCalls DEF IInv
    <3>2. CASE UNCHANGED <<stack, called>>
      BY <2>1, <2>4, <3>2, CallbackStays DEF IInv
    <3> QED
      BY <2>1, <3>1, <3>2
  <2> QED
    BY <2>10, <2>11 DEF IInv
<1> QED
  BY <1>1, <1>2

LEMMA CallbackInv ==
  ASSUME IInv, WellFormedReplies, NEW r \in Req, Callback(r)
  PROVE  IInv'
<1>1. PICK e \in batch :
        /\ Delivers(e, r) /\ Consume(e)
        /\ OnError(r, e) \/ OnWritable(r, e) \/ OnReadable(r, e) \/ OnIgnored(r, e)
        /\ UNCHANGED <<file, status, pool, active_count, app_fd>>
  BY DEF Callback
<1>2. CASE OnError(r, e)
  BY <1>1, <1>2, FailsInv DEF OnError
<1>3. CASE OnWritable(r, e)
  BY <1>1, <1>3, WritableInv
<1>4. CASE OnReadable(r, e)
  BY <1>1, <1>4, ReadableInv
<1>5. CASE OnIgnored(r, e)
  <2>1. UNCHANGED <<interest, handlers, req, stack, called, netVars>>
    BY <1>5 DEF OnIgnored
  <2>2. req' \in [Req -> Request]
    BY <2>1 DEF IInv, OwnInv, OwnTypes
  <2>3. OwnInv'
    BY <1>1, <2>1, <2>2, CallbackStays DEF IInv
  <2>4. NetInv'
    BY <1>1, <2>1, NetUnchanged DEF IInv
  <2> QED
    BY <2>3, <2>4 DEF IInv
<1> QED
  BY <1>1, <1>2, <1>3, <1>4, <1>5

-----------------------------------------------------------------------------
(* The inductive invariant, and what follows from it.                      *)

LEMMA InitIInv == Init => IInv
<1> SUFFICES ASSUME Init PROVE IInv
  OBVIOUS
<1>1. NewRequest \in Request /\ NewRequest.fd = -1 /\ NewRequest.unsent = 0
      /\ NewRequest.recv_len = 0 /\ NewRequest.state = "IDLE"
  BY ClientAssumption DEF NewRequest, Request, States
<1>2. stack = <<>> /\ \A r \in Req : ~InCallback(r)
  BY DEF Init, InCallback
<1>3. OwnTypes
  BY <1>1 DEF Init, OwnTypes, Statuses
<1>4. StackInv
  BY <1>2 DEF StackInv
<1>5. \A r \in Req : status[r] = "unused" /\ called[r] = <<>> /\ req[r] = NewRequest
  BY DEF Init
<1>6. FramesActive /\ HandlersOwned /\ WaitingRegistered /\ BatchOwned /\ CalledOnce
  BY <1>2, <1>5
     DEF Init, FramesActive, HandlersOwned, WaitingRegistered, BatchOwned, CalledOnce
<1>7. SocketsOwned
  BY <1>5, ClientAssumption DEF Init, SocketsOwned
<1>8. PoolInv
  BY ClientAssumption DEF Init, PoolInv
<1>9. NetTypes
  BY ClientAssumption DEF Init, NetTypes, Links
<1>10. Untouched
  BY DEF Init, Untouched
<1>11. Amounts
  BY <1>1, <1>5, ClientAssumption, AtLeastHead DEF Init, Amounts
<1> QED
  BY <1>3, <1>4, <1>6, <1>7, <1>8, <1>9, <1>10, <1>11 DEF IInv, OwnInv, NetInv

LEMMA UnchangedInv ==
  ASSUME IInv, UNCHANGED vars
  PROVE  IInv'
BY OwnUnchanged, NetUnchanged DEF IInv, vars, loopVars, clientVars, netVars

LEMMA NextIInv ==
  ASSUME IInv, WellFormedReplies, [Next]_vars
  PROVE  IInv'
<1>1. CASE \E r \in Req : cwh_async_request(r)
  BY <1>1, RequestInv
<1>2. CASE cwh_async_pool_cleanup
  BY <1>2, CleanupIdles, UnchangedInv
<1>3. CASE cwh_async_pool_shutdown
  BY <1>3, ShutdownInv
<1>4. CASE AppOpens
  BY <1>4, AppOpensInv
<1>5. CASE Wait
  BY <1>5, WaitInv
<1>6. CASE \E r \in Req : Callback(r)
  BY <1>6, CallbackInv
<1>7. CASE Return
  BY <1>7, ReturnInv
<1>8. CASE TimePasses
  BY <1>8, TimePassesInv
<1>9. CASE \E r \in Req : Server(r) \/ ServerCloses(r) \/ ServerResets(r)
  BY <1>9, ServerNet
<1>10. CASE UNCHANGED vars
  BY <1>10, UnchangedInv
<1> QED
  BY <1>1, <1>2, <1>3, <1>4, <1>5, <1>6, <1>7, <1>8, <1>9, <1>10 DEF Next, User, Loop

\* IInv holds in every reachable state.
THEOREM Invariance == WellFormedReplies /\ Spec => []IInv
<1> SUFFICES ASSUME WellFormedReplies PROVE Spec => []IInv
  OBVIOUS
<1>1. IInv /\ [Next]_vars => IInv'
  BY NextIInv
<1> QED
  BY <1>1, InitIInv, PTL DEF Spec

\* Every variable stays in its range; the pool's count in particular.
THEOREM Types == WellFormedReplies /\ Spec => []TypeOK
BY Invariance, ImpliesTypeOK, PTL

\* The callback of a request is called exactly once: never again by an event
\* of the batch that it ended in, or by what a callback of its own started.
THEOREM CallbacksOnce == WellFormedReplies /\ Spec => []CalledOnce
<1>1. IInv => CalledOnce
  BY DEF IInv, OwnInv
<1> QED
  BY <1>1, Invariance, PTL

\* The loop calls back no request that was freed, and forgets none that waits.
THEOREM LoopEntriesLive == WellFormedReplies /\ Spec => []HandlersLive
<1>1. IInv => HandlersLive
  BY DEF IInv, OwnInv, HandlersOwned, WaitingRegistered, HandlersLive
<1> QED
  BY <1>1, Invariance, PTL

\* A socket is open exactly as long as its request holds its descriptor.
THEOREM NoLeaks == WellFormedReplies /\ Spec => []SocketsOwned
<1>1. IInv => SocketsOwned
  BY DEF IInv, OwnInv
<1> QED
  BY <1>1, Invariance, PTL

\* An event of the batch is never delivered to a request that took the
\* descriptor after it was reported.
THEOREM NoStaleEvents == WellFormedReplies /\ Spec => []EventsFresh
<1>1. ASSUME IInv PROVE EventsFresh
  <2>1. ASSUME NEW e \in batch PROVE Delivers(e, e.sock) /\ file[e.fd] = e.sock
    <3>1. e.sock \in Req /\ e.fd \in Fd
      BY <1>1 DEF IInv, OwnInv, OwnTypes
    <3>2. status[e.sock] = "active" /\ ~InCallback(e.sock) /\ req[e.sock].fd = e.fd
      BY <1>1 DEF IInv, OwnInv, BatchOwned
    <3>3. PICK h \in handlers : h.data = e.sock
      BY <1>1, <3>1, <3>2 DEF IInv, OwnInv, WaitingRegistered
    <3>4. h.fd = e.fd
      BY <1>1, <3>2, <3>3 DEF IInv, OwnInv, HandlersOwned
    <3>5. file[e.fd] = e.sock
      BY <1>1, <3>1, <3>2 DEF IInv, OwnInv, SocketsOwned
    <3> QED
      BY <3>3, <3>4, <3>5 DEF Delivers, find_handler
  <2> QED
    BY <2>1 DEF EventsFresh
<1> QED
  BY <1>1, Invariance, PTL

-----------------------------------------------------------------------------
(* Outcomes.                                                               *)

\* An error is reported for a reset only; a server answers whole requests.
ErrorsReal == \A e \in batch : ERROR \in e.events => link[e.sock] = "reset"
AnswersLate == \A r \in Req : replied[r] > 0 => seen[r] = ReqLen
OutcomeInv == ErrorsReal /\ AnswersLate

LEMMA InitOutcomes == Init => OutcomeInv
BY DEF Init, OutcomeInv, ErrorsReal, AnswersLate

\* What the server has seen and said stays, and so do the resets of the
\* requests that wait.
LEMMA OutcomesStay ==
  ASSUME OutcomeInv, IInv, UNCHANGED <<seen, replied>>, batch' \subseteq batch,
         \A r \in Req : link[r] = "reset" /\ status[r] = "active" /\ ~InCallback(r)
                        => link'[r] = "reset"
  PROVE  OutcomeInv'
<1>1. AnswersLate'
  BY DEF OutcomeInv, AnswersLate
<1>2. ErrorsReal'
  BY DEF OutcomeInv, ErrorsReal, IInv, OwnInv, OwnTypes, BatchOwned
<1> QED
  BY <1>1, <1>2 DEF OutcomeInv

LEMMA WaitOutcomes == ASSUME OutcomeInv, IInv, Wait PROVE OutcomeInv'
<1>1. /\ batch' \subseteq Ready(Level)
      /\ UNCHANGED <<link, seen, replied>>
  BY DEF Wait, epoll_wait, netVars
<1>2. ASSUME NEW e \in batch', ERROR \in e.events PROVE link'[e.sock] = "reset"
  <2>1. PICK g \in Fd : e = Report(g, Due(Level, g))
    BY <1>1 DEF Ready
  <2>2. e.sock = file[g] /\ ERROR \in Level[g]
    BY <1>2, <2>1 DEF Report, Due
  <2> QED
    BY <1>1, <2>2 DEF Level, READ, WRITE, ERROR
<1> QED
  BY <1>1, <1>2 DEF OutcomeInv, ErrorsReal, AnswersLate

\* A server has seen the whole request before it answers, and nothing is left
\* for it to read then.
LEMMA ServerOutcomes ==
  ASSUME OutcomeInv, IInv, NEW r \in Req, Server(r) \/ ServerCloses(r) \/ ServerResets(r)
  PROVE  OutcomeInv'
<1>1. /\ link \in [Req -> Links] /\ seen \in [Req -> 0 .. ReqLen] /\ outq \in [Req -> 0 .. SndCap]
      /\ replied \in [Req -> Nat]
  BY DEF IInv, NetInv, NetTypes
<1>2. CASE ServerReads(r)
  <2>1. seen[r] + outq[r] <= ReqLen
    <3>1. req[r].unsent \in Nat
      BY ClientAssumption DEF IInv, OwnInv, OwnTypes, Request
    <3> QED
      BY <1>1, <3>1, ClientAssumption DEF IInv, NetInv, Amounts
  <2>2. seen[r] # ReqLen
    BY <1>1, <1>2, <2>1, ClientAssumption DEF ServerReads
  <2>3. AnswersLate'
    BY <1>1, <1>2, <2>2 DEF ServerReads, OutcomeInv, AnswersLate
  <2> QED
    BY <1>2, <2>3 DEF ServerReads, OutcomeInv, ErrorsReal, loopVars
<1>3. CASE ServerReplies(r)
  BY <1>1, <1>3 DEF ServerReplies, OutcomeInv, ErrorsReal, AnswersLate, loopVars
<1>4. CASE ServerAccepts(r) \/ ServerCloses(r) \/ ServerResets(r)
  BY <1>1, <1>4, OutcomesStay DEF ServerAccepts, ServerCloses, ServerResets, loopVars
<1> QED
  BY <1>2, <1>3, <1>4 DEF Server

\* The user's code closes nothing under a request that waits.
LEMMA UserOutcomes == ASSUME OutcomeInv, IInv, User \/ TimePasses PROVE OutcomeInv'
<1>0. link \in [Req -> Links]
  BY DEF IInv, NetInv, NetTypes
<1>1. ASSUME NEW r \in Req, cwh_async_request(r) PROVE OutcomeInv'
  <2>1. status[r] = "unused" /\ UNCHANGED <<batch, seen, replied>>
    BY <1>1 DEF cwh_async_request
  <2>2. \A q \in Req : q # r => link'[q] = link[q]
    BY <1>0, <1>1 DEF cwh_async_request, FailsEarly, FailsToConnect, Connects, Reuses
  <2> QED
    BY <2>1, <2>2, OutcomesStay
<1>2. CASE cwh_async_pool_cleanup
  BY <1>2, CleanupIdles, OutcomesStay DEF vars, loopVars, netVars
<1>3. CASE cwh_async_pool_shutdown
  BY <1>3, OutcomesStay DEF cwh_async_pool_shutdown, ClosesPooled
<1>4. CASE AppOpens \/ TimePasses
  BY <1>4, OutcomesStay DEF AppOpens, TimePasses, loopVars, netVars
<1> QED
  BY <1>1, <1>2, <1>3, <1>4 DEF User

LEMMA ReturnOutcomes == ASSUME OutcomeInv, IInv, Return PROVE OutcomeInv'
<1>0. link \in [Req -> Links] /\ stack \in Seq(Frame)
  BY DEF IInv, NetInv, NetTypes, OwnInv, StackInv
<1>1. PICK r \in Req : /\ r = Head(stack).req /\ InCallback(r)
                       /\ \/ UNCHANGED link
                          \/ link' = [link EXCEPT ![r] = IF req[r].fd = -1 THEN @ ELSE "closed"]
  <2>1. stack # <<>> /\ Head(stack) = stack[1] /\ 1 \in DOMAIN stack /\ Head(stack) \in Frame
    BY <1>0 DEF Return
  <2>2. InCallback(Head(stack).req) /\ Head(stack).req \in Req
    BY <2>1 DEF InCallback, Frame
  <2> QED
    BY <2>2 DEF Return
<1>2. \A q \in Req : q # r => link'[q] = link[q]
  BY <1>0, <1>1
<1> QED
  BY <1>1, <1>2, OutcomesStay DEF Return

LEMMA CallbackOutcomes ==
  ASSUME OutcomeInv, IInv, NEW r \in Req, Callback(r)
  PROVE  OutcomeInv'
<1>1. PICK e \in batch : /\ batch' = batch \ {e}
                         /\ OnError(r, e) \/ OnWritable(r, e) \/ OnReadable(r, e) \/ OnIgnored(r, e)
  BY DEF Callback, Delivers, Consume
<1>2. UNCHANGED <<link, seen, replied>>
  BY <1>1 DEF OnError, OnWritable, OnReadable, OnIgnored, Fails, send_request_data, netVars
<1> QED
  BY <1>1, <1>2, OutcomesStay

LEMMA OutcomeInvariance == WellFormedReplies /\ Spec => [](IInv /\ OutcomeInv)
<1> SUFFICES ASSUME WellFormedReplies PROVE Spec => [](IInv /\ OutcomeInv)
  OBVIOUS
<1>1. IInv /\ OutcomeInv /\ [Next]_vars => IInv' /\ OutcomeInv'
  <2> SUFFICES ASSUME IInv, OutcomeInv, [Next]_vars PROVE OutcomeInv'
    BY NextIInv
  <2>1. CASE UNCHANGED vars
    BY <2>1, OutcomesStay DEF vars, loopVars, netVars
  <2> QED
    BY <2>1, WaitOutcomes, ServerOutcomes, UserOutcomes, ReturnOutcomes, CallbackOutcomes
       DEF Next, Loop
<1> QED
  BY <1>1, InitIInv, InitOutcomes, PTL DEF Spec

\* A request under way gets its outcome from its own callback in the loop: an
\* error, or a response as far as it has arrived.
LEMMA OutcomeOf ==
  ASSUME WellFormedReplies, IInv, OutcomeInv, Next, NEW r \in Req, FromLoop(r)
  PROVE  \/ Outcome(r).err = "NET" /\ link[r] = "reset"
         \/ \E len \in 0 .. RecvCap :
              /\ Outcome(r) = [err |-> IF len = 0 THEN "PARSE" ELSE "OK", pieces |-> len]
              /\ len <= replied[r]
              /\ response_complete(r, len) \/ len = RecvCap \/ link[r] = "fin"
<1>1. /\ called \in [Req -> Seq([err : Errors, pieces : Nat])] /\ req \in [Req -> Request]
      /\ inq \in [Req -> Nat] /\ replied \in [Req -> Nat]
  BY DEF IInv, OwnInv, OwnTypes, NetInv, NetTypes
<1>2. \A q \in Req : inq[q] \in Nat /\ replied[q] \in Nat
  <2>1. \A n \in Nat : n \in Nat
    OBVIOUS
  <2> QED
    BY <1>1, <2>1, Zenon
<1>3. ASSUME NEW q \in Req, NEW x, called' = [called EXCEPT ![q] = Append(@, x)]
      PROVE  q = r /\ Outcome(r) = x
  <2>1. q = r
    BY <1>1, <1>3 DEF FromLoop
  <2>2. called'[r] = Append(<<>>, x)
    BY <1>1, <1>3, <2>1 DEF FromLoop
  <2> QED
    BY <2>1, <2>2 DEF Outcome
<1>4. ASSUME NEW q \in Req, Call(q, "NET", 0, FALSE) PROVE q = r /\ Outcome(r).err = "NET"
  <2>1. called' = [called EXCEPT ![q] = Append(@, [err |-> "NET", pieces |-> 0])]
    BY <1>4 DEF Call
  <2>2. q = r /\ Outcome(r) = [err |-> "NET", pieces |-> 0]
    BY <1>3, <2>1
  <2> QED
    BY <2>2
<1>5. ASSUME NEW q \in Req PROVE ~cwh_async_request(q)
  <2> SUFFICES ASSUME cwh_async_request(q) PROVE FALSE
    OBVIOUS
  <2>1. status[q] = "unused" /\ status[r] = "active"
    BY DEF cwh_async_request, FromLoop
  <2>2. UNCHANGED called \/ Call(q, "NET", 0, FALSE)
    BY DEF cwh_async_request, FailsEarly, FailsToConnect, Connects, Reuses
  <2> QED
    BY <1>4, <2>1, <2>2 DEF FromLoop
<1>6. PICK q \in Req : Callback(q)
  BY <1>5 DEF Next, User, Loop, Server, FromLoop, cwh_async_pool_cleanup, cwh_async_pool_shutdown,
              ClosesPooled, AppOpens, Wait, Return, TimePasses, ServerAccepts, ServerReads,
              ServerReplies, ServerCloses, ServerResets, clientVars
<1>7. PICK e \in batch :
        /\ Delivers(e, q)
        /\ OnError(q, e) \/ OnWritable(q, e) \/ OnReadable(q, e) \/ OnIgnored(q, e)
  BY <1>6 DEF Callback, Delivers
<1>8. e.sock = q
  BY <1>7, Delivered DEF IInv
<1>9. CASE ERROR \in e.events
  <2>1. Call(q, "NET", 0, FALSE)
    BY <1>7, <1>9 DEF OnError, OnWritable, OnReadable, OnIgnored, Fails
  <2> QED
    BY <1>4, <1>8, <1>9, <2>1 DEF OutcomeInv, ErrorsReal
<1>10. CASE OnWritable(q, e)
  <2>1. Call(q, "NET", 0, FALSE) /\ link[q] = "reset"
    BY <1>10 DEF OnWritable, Fails, SendError, send_request_data, FromLoop
  <2> QED
    BY <1>4, <2>1
<1>11. CASE OnReadable(q, e)
  <2>1. CASE link[q] = "reset"
    BY <1>4, <1>11, <2>1 DEF OnReadable, Fails
  <2>2. CASE link[q] # "reset"
    <3>0. /\ inq[q] \in Nat /\ replied[q] \in Nat /\ RecvCap \in Nat
          /\ req[q].recv_len \in Nat /\ req[q].recv_len <= RecvCap
          /\ inq[q] + req[q].recv_len <= replied[q]
      <4>1. req[q].recv_len \in 0 .. RecvCap
        BY <1>1 DEF Request
      <4>2. inq[q] + req[q].recv_len <= replied[q]
        BY DEF IInv, NetInv, Amounts
      <4>3. inq[q] \in Nat /\ replied[q] \in Nat
        BY <1>2
      <4>4. RecvCap \in Nat
        BY ClientAssumption
      <4> QED
        BY <4>1, <4>2, <4>3, <4>4
    <3>1. PICK n \in Nat : n = IF inq[q] < RecvCap - req[q].recv_len THEN inq[q]
                               ELSE RecvCap - req[q].recv_len
      BY <3>0
    <3>2. PICK len \in Nat : len = req[q].recv_len + n
      BY <3>0
    <3>3. len <= RecvCap /\ len <= replied[q]
      BY <3>0, <3>1, <3>2
    <3>4. /\ response_complete(q, len) \/ len = RecvCap \/ link[q] = "fin"
          /\ Call(q, IF len = 0 THEN "PARSE" ELSE "OK", len, len >= 2 /\ should_keep_alive(q))
      BY <1>11, <2>2, <3>1, <3>2 DEF OnReadable, FromLoop
    <3>5. q = r /\ Outcome(r) = [err |-> IF len = 0 THEN "PARSE" ELSE "OK", pieces |-> len]
      <4>1. called' = [called EXCEPT ![q] = Append(@, [err |-> IF len = 0 THEN "PARSE" ELSE "OK", pieces |-> len])]
        BY <3>4 DEF Call
      <4> QED
        BY <1>3, <4>1
    <3>6. len \in 0 .. RecvCap
      BY <3>2, <3>3, ClientAssumption
    <3> QED
      BY <3>3, <3>4, <3>5, <3>6
  <2> QED
    BY <2>1, <2>2
<1>12. ~OnIgnored(q, e)
  BY DEF OnIgnored, FromLoop
<1> QED
  BY <1>7, <1>9, <1>10, <1>11, <1>12 DEF OnError

\* OkIsWhole: what recv_response_data calls a success is the whole response to
\* the whole request, unless the server closed, the buffer is full, or
\* response_complete does not see the end of this response where it is.
THEOREM SuccessIsWhole == WellFormedReplies /\ Spec => OkIsWhole
<1> DEFINE Whole == \A r \in Req : FromLoop(r) /\ Outcome(r).err = "OK" =>
                      \/ Outcome(r).pieces = Reply[r].whole /\ seen[r] = ReqLen
                      \/ Outcome(r).pieces >= 2 /\ ~EndSeen(r)
                      \/ Outcome(r).pieces = RecvCap
                      \/ link[r] = "fin"
<1> SUFFICES ASSUME WellFormedReplies PROVE Spec => OkIsWhole
  OBVIOUS
<1>1. IInv /\ OutcomeInv /\ [Next]_vars => [Whole]_vars
  <2> SUFFICES ASSUME IInv, OutcomeInv, Next, NEW r \in Req, FromLoop(r), Outcome(r).err = "OK",
                      link[r] # "fin"
               PROVE  \/ Outcome(r).pieces = Reply[r].whole /\ seen[r] = ReqLen
                      \/ Outcome(r).pieces >= 2 /\ ~EndSeen(r)
                      \/ Outcome(r).pieces = RecvCap
    OBVIOUS
  <2>1. PICK len \in 0 .. RecvCap :
          /\ Outcome(r).pieces = len /\ len <= replied[r]
          /\ response_complete(r, len) \/ len = RecvCap
    BY OutcomeOf
  <2>2. /\ replied[r] \in Nat /\ replied[r] <= Reply[r].whole /\ Reply[r].whole \in Nat
        /\ len \in Nat /\ RecvCap \in Nat
    <3>1. RecvCap \in Nat
      BY ClientAssumption
    <3> QED
      BY <3>1, Numbers
  <2>3. CASE response_complete(r, len) /\ EndSeen(r)
    <3>1. len >= 2
      BY <2>3 DEF response_complete
    <3>2. len >= Reply[r].whole
      <4>1. CASE Reply[r].finds = "length" /\ Reply[r].length >= Reply[r].whole
        <5>1. len >= Reply[r].length /\ Reply[r].length \in Nat
          BY <2>3, <4>1, ClientAssumption DEF response_complete, Replies
        <5> QED
          BY <2>2, <4>1, <5>1
      <4>2. CASE Reply[r].finds = "chunked" /\ \A m \in Reply[r].marks : m >= Reply[r].whole
        <5>1. PICK m \in Reply[r].marks : m <= len
          BY <2>3, <4>2 DEF response_complete
        <5>2. m \in Nat /\ m >= Reply[r].whole
          BY <4>2, <5>1, ClientAssumption DEF Replies
        <5> QED
          BY <2>2, <5>1, <5>2
      <4> QED
        BY <2>3, <4>1, <4>2 DEF EndSeen
    <3>3. len = Reply[r].whole
      BY <2>1, <2>2, <3>2
    <3>4. seen[r] = ReqLen
      BY <2>1, <2>2, <3>1 DEF OutcomeInv, AnswersLate
    <3> QED
      BY <2>1, <3>3, <3>4
  <2>4. CASE response_complete(r, len) /\ ~EndSeen(r)
    BY <2>1, <2>4 DEF response_complete
  <2> QED
    BY <2>1, <2>3, <2>4
<1>2. OkIsWhole <=> [][Whole]_vars
  BY DEF OkIsWhole
<1> HIDE DEF Whole
<1> QED
  BY <1>1, <1>2, OutcomeInvariance, PTL DEF Spec

\* FailuresReal: async_request_event_handler fails a request only for a reset
\* of its own connection, or a response that ended before it began.
THEOREM FailureHasCause == WellFormedReplies /\ Spec => FailuresReal
<1> DEFINE Real == \A r \in Req : FromLoop(r) =>
                     /\ Outcome(r).err = "NET" => link[r] = "reset"
                     /\ Outcome(r).err = "PARSE" => link[r] = "fin"
<1> SUFFICES ASSUME WellFormedReplies PROVE Spec => FailuresReal
  OBVIOUS
<1>1. IInv /\ OutcomeInv /\ [Next]_vars => [Real]_vars
  <2> SUFFICES ASSUME IInv, OutcomeInv, Next, NEW r \in Req, FromLoop(r)
               PROVE  /\ Outcome(r).err = "NET" => link[r] = "reset"
                      /\ Outcome(r).err = "PARSE" => link[r] = "fin"
    OBVIOUS
  <2>1. CASE Outcome(r).err = "NET" /\ link[r] = "reset"
    BY <2>1
  <2>2. ASSUME NEW len \in 0 .. RecvCap,
               Outcome(r) = [err |-> IF len = 0 THEN "PARSE" ELSE "OK", pieces |-> len],
               response_complete(r, len) \/ len = RecvCap \/ link[r] = "fin"
        PROVE  Outcome(r).err # "NET" /\ (Outcome(r).err = "PARSE" => link[r] = "fin")
    BY <2>2, ClientAssumption DEF response_complete
  <2> QED
    BY <2>1, <2>2, OutcomeOf
<1>2. FailuresReal <=> [][Real]_vars
  BY DEF FailuresReal
<1> HIDE DEF Real
<1> QED
  BY <1>1, <1>2, OutcomeInvariance, PTL DEF Spec

=============================================================================
