---------------------------- MODULE ServerService ----------------------------
(***************************************************************************)
(* What the asynchronous server promises its clients, without descriptors, *)
(* events, buffers or callbacks: a client that arrives waits in a queue,   *)
(* is admitted in arrival order while fewer than Limit sessions are open   *)
(* and the server is up, reads the answers to ever later requests, and its *)
(* session ends once and for all.  An answer announces its length first;   *)
(* it comes whole when that is at most Room, and is cut off there without  *)
(* notice when it is more.  AsyncServer implements this (see Service       *)
(* there).                                                                 *)
(***************************************************************************)
EXTENDS Integers, Sequences, FiniteSets

CONSTANTS
  Client,   \* clients, each with one session
  Limit,    \* sessions open at a time
  Request,  \* requests a client may make: 1 .. Request
  Announced, \* [1 .. Request -> Nat \ {0}]: units the answer to each announces
  Room      \* units of an answer that are sent

VARIABLES
  up,       \* the server has not been stopped
  waiting,  \* clients in arrival order, not admitted yet
  open,     \* clients with an open session
  over,     \* clients whose session has ended
  read      \* [Client -> Seq(Unit)]: units each client has read

serviceVars == <<up, waiting, open, over, read>>

Waiting == {waiting[i] : i \in DOMAIN waiting}

Unit == [req : 1 .. Request, nth : 1 .. Room]

\* The units of the answer to a request that are sent.
Given(r) == IF Announced[r] < Room THEN Announced[r] ELSE Room

\* Answers, one after another, to later and later requests, each as far as it
\* is sent; the last may be unfinished.
InOrder(units) ==
  \A i \in DOMAIN units :
    \/ /\ units[i].nth = 1
       /\ i > 1 => /\ units[i - 1].req < units[i].req
                   /\ units[i - 1].nth = Given(units[i - 1].req)
    \/ /\ i > 1
       /\ units[i].req = units[i - 1].req /\ units[i].nth = units[i - 1].nth + 1

SInit ==
  /\ up = TRUE /\ waiting = <<>> /\ open = {} /\ over = {}
  /\ read = [c \in Client |-> <<>>]

Arrive(c) ==
  /\ up /\ c \notin Waiting \cup open \cup over
  /\ waiting' = Append(waiting, c)
  /\ UNCHANGED <<up, open, over, read>>

Admit ==
  /\ up /\ waiting # <<>> /\ Cardinality(open) < Limit
  /\ open' = open \cup {Head(waiting)}
  /\ waiting' = Tail(waiting)
  /\ UNCHANGED <<up, over, read>>

\* The server may run out of a resource while admitting.
TurnAway ==
  /\ up /\ waiting # <<>> /\ Cardinality(open) < Limit
  /\ over' = over \cup {Head(waiting)}
  /\ waiting' = Tail(waiting)
  /\ UNCHANGED <<up, open, read>>

\* What was sent may arrive after the session has ended.
Read(c, unit) ==
  /\ c \in open \cup over
  /\ InOrder(Append(read[c], unit))
  /\ read' = [read EXCEPT ![c] = Append(@, unit)]
  /\ UNCHANGED <<up, waiting, open, over>>

\* Sessions end one at a time, or several in one sweep of the idle ones.
End(C) ==
  /\ C # {} /\ C \subseteq open
  /\ open' = open \ C
  /\ over' = over \cup C
  /\ UNCHANGED <<up, waiting, read>>

Shutdown ==
  /\ up
  /\ up' = FALSE
  /\ over' = over \cup open \cup Waiting
  /\ open' = {} /\ waiting' = <<>>
  /\ UNCHANGED read

SNext ==
  \/ \E c \in Client : Arrive(c) \/ \E unit \in Unit : Read(c, unit)
  \/ Admit
  \/ TurnAway
  \/ \E C \in SUBSET Client : End(C)
  \/ Shutdown

SSpec == SInit /\ [][SNext]_serviceVars

=============================================================================
