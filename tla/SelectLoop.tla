------------------------------ MODULE SelectLoop ------------------------------
(***************************************************************************)
(* The portable event loop: select.c behind the cwh_loop_* calls of        *)
(* loop.c, with a program whose callbacks add, change and remove           *)
(* registrations while the loop walks the list of them.  Entries live in   *)
(* cells of memory that are freed and allocated again: a cell that is      *)
(* freed keeps its link, as the C library leaves it, until it is allocated *)
(* again, and the walk may stand on it.                                    *)
(***************************************************************************)
EXTENDS Integers, FiniteSets, FiniteSetsExt

CONSTANTS Cell,    \* memory for entries
          NULL,
          Fd,      \* descriptors the program registers
          Interests,   \* for each, the sets of events it registers it for
          Exceptional,   \* those with exceptional conditions (urgent data)
          MaxOps   \* calls of the loop one callback makes

ASSUME SelectAssumption == /\ IsFiniteSet(Cell) /\ NULL \notin Cell
                           /\ Fd \subseteq Nat /\ IsFiniteSet(Fd)
                           /\ MaxOps \in Nat /\ Exceptional \subseteq Fd
                           /\ Interests \in [Fd -> SUBSET SUBSET {"READ", "WRITE"}]

READ == "READ"
WRITE == "WRITE"
ERROR == "ERROR"
MostEvents == 3 * Cardinality(Fd)   \* that select can count; the count stops there
Blank == [fd |-> 0, events |-> {}, next |-> NULL]

VARIABLES
  mem,       \* the cells
  alive,     \* those that are allocated
  handlers,  \* the head of the list
  max_fd,
  mode,      \* the program is out of the loop, or in cwh_loop_run with the flag
             \* running set, or in its last wait: run_once, or run after a stop
  pc,        \* where cwh_select_wait is: out, walk, callback, or lost
  bits,      \* what select has left in the descriptor sets
  ret, event_count, curr,
  ops,       \* calls made by the callback that runs
  due,       \* (history) entries reported by this select and not yet called;
             \* forgotten once the wait is risky
  risky      \* (history) in this wait a callback has removed its own entry
             \* and then added or removed one

list == <<mem, alive, handlers, max_fd>>
walk == <<bits, ret, event_count, curr>>
vars == <<list, mode, pc, walk, ops, due, risky>>

\* cwh_loop_new and cwh_select_create.
Init == /\ mem = [c \in Cell |-> Blank]
        /\ alive = {} /\ handlers = NULL /\ max_fd = -1
        /\ mode = "none" /\ pc = "out" /\ bits = [fd \in Fd |-> {}]
        /\ ret = 0 /\ event_count = 0 /\ curr = NULL
        /\ ops = 0 /\ due = {} /\ risky = FALSE

-----------------------------------------------------------------------------
(***************************************************************************)
(* Registrations                                                           *)
(***************************************************************************)
find_handler(fd) == {c \in alive : mem[c].fd = fd}

\* The cell or head whose link leads to c.
LinksTo(c) == {d \in alive : mem[d].next = c}

update_max_fd(C) == Max({mem[c].fd : c \in C} \cup {-1})

\* The new entry goes to the head of the list.  (Variant: to its end, where
\* the walk has still to pass.)
LinkedLast(c, fd, events) ==
  LET new == [fd |-> fd, events |-> events, next |-> NULL]
      last == LinksTo(NULL)
  IN  /\ mem' = [d \in Cell |-> IF d = c THEN new
                                ELSE IF d \in last THEN [mem[d] EXCEPT !.next = c]
                                ELSE mem[d]]
      /\ handlers' = IF last = {} THEN c ELSE handlers
Linked(c, fd, events) ==
  /\ mem' = [mem EXCEPT ![c] = [fd |-> fd, events |-> events, next |-> handlers]]
  /\ handlers' = c

\* What calloc may return; outside a wait one free cell is like another.
Allocates == IF pc = "out" /\ alive # Cell THEN {CHOOSE c \in Cell : c \notin alive}
             ELSE Cell \ alive

cwh_select_add(fd, events) ==
  /\ find_handler(fd) = {}
  /\ \E c \in Allocates :
       /\ Linked(c, fd, events)
       /\ alive' = alive \cup {c}
  /\ max_fd' = Max({fd, max_fd})
  /\ UNCHANGED due

cwh_select_mod(fd, events) ==
  /\ \E c \in find_handler(fd) : mem[c].events # events /\ mem' = [mem EXCEPT ![c].events = events]
  /\ UNCHANGED <<alive, handlers, max_fd, due>>

\* What max_fd is once c is gone.  (Variant: what it was.)
OldMax(c) == max_fd
NewMax(c) == update_max_fd(alive \ {c})

\* The link of a freed cell stays; its other fields are overwritten.
cwh_select_del(fd) ==
  \E c \in find_handler(fd) :
    /\ mem' = [d \in Cell |->
                 IF d = c THEN [mem[d] EXCEPT !.fd = 0, !.events = {}]
                 ELSE IF d \in LinksTo(c) THEN [mem[d] EXCEPT !.next = mem[c].next]
                 ELSE mem[d]]
    /\ handlers' = IF handlers = c THEN mem[c].next ELSE handlers
    /\ alive' = alive \ {c}
    /\ max_fd' = NewMax(c)
    /\ due' = due \ {c}

\* Only a run that is under way looks at the flag.
cwh_select_stop == mode = "run" /\ mode' = "last" /\ UNCHANGED <<list, due>>

\* One call of the program, from a callback or from outside the loop.
cwh_loop_add == \E fd \in Fd : \E events \in Interests[fd] : cwh_select_add(fd, events)
cwh_loop_mod == \E fd \in Fd : \E events \in Interests[fd] : cwh_select_mod(fd, events)
cwh_loop_del == \E fd \in Fd : cwh_select_del(fd)
cwh_loop_stop == cwh_select_stop

Call == cwh_loop_add \/ cwh_loop_mod \/ cwh_loop_del
ProgramCalls == /\ pc = "out" /\ mode = "none" /\ Call
                /\ UNCHANGED <<mode, pc, walk, ops, risky>>

(***************************************************************************)
(* Running: cwh_loop_run sets the flag first, so that a stop that came     *)
(* before it is lost; cwh_loop_run_once does not look at it.               *)
(***************************************************************************)
cwh_loop_run == /\ mode = "none" /\ mode' = "run"
                /\ UNCHANGED <<list, pc, walk, ops, due, risky>>

cwh_loop_run_once == /\ mode = "none" /\ mode' = "last"
                     /\ UNCHANGED <<list, pc, walk, ops, due, risky>>

cwh_loop_free == /\ mode = "none" /\ alive' = {} /\ handlers' = NULL /\ max_fd' = -1
                 /\ mem' = [c \in Cell |-> Blank]
                 /\ UNCHANGED <<mode, pc, walk, ops, due, risky>>

\* cwh_select_wait returns, and with it run_once, or run when it was stopped.
\* Nothing reads the links of freed cells any more.
WaitReturns == /\ pc' = "out" /\ due' = {} /\ risky' = FALSE /\ curr' = NULL
               /\ bits' = [fd \in Fd |-> {}] /\ ret' = 0 /\ event_count' = 0
               /\ mem' = [c \in Cell |-> IF c \in alive THEN mem[c] ELSE Blank]
               /\ UNCHANGED <<alive, handlers, max_fd, ops>>
LoopGoesOn == mode' = IF mode = "run" THEN "run" ELSE "none"

\* What select may report of an entry: the third set is always watched.
Reports(c) == SUBSET (mem[c].events \cup (IF mem[c].fd \in Exceptional THEN {ERROR} ELSE {}))

Waiting == pc = "out" /\ mode # "none"

\* Nothing registered, nothing ready in time, or a signal.
NothingReady == Waiting /\ WaitReturns /\ LoopGoesOn

\* An error of select ends the run.
SelectFails == Waiting /\ alive # {} /\ WaitReturns /\ mode' = "none"

Select ==
  /\ Waiting
  /\ \E B \in [alive -> SUBSET {READ, WRITE, ERROR}] :
       /\ \A c \in alive : B[c] \in Reports(c)
       /\ bits' = [fd \in Fd |-> UNION {B[c] : c \in find_handler(fd)}]
       /\ ret' = Cardinality({r \in alive \X {READ, WRITE, ERROR} : r[2] \in B[r[1]]})
       /\ ret' > 0
       /\ due' = {c \in alive : B[c] # {}}
  /\ pc' = "walk" /\ curr' = handlers /\ event_count' = 0
  /\ UNCHANGED <<list, mode, ops, risky>>

(***************************************************************************)
(* The walk                                                                *)
(***************************************************************************)
\* (Variant: to the end of the list, however many were reported.)
UncountedMore == curr # NULL
More == curr # NULL /\ event_count < ret

WalkEnds == pc = "walk" /\ ~More /\ WaitReturns /\ LoopGoesOn

\* The walk stands on a freed cell whose descriptor and callback it reads:
\* anything may happen.
WalkIsLost == /\ pc = "walk" /\ More /\ curr \notin alive /\ pc' = "lost"
              /\ UNCHANGED <<list, mode, walk, ops, due, risky>>

Passes == /\ pc = "walk" /\ More /\ curr \in alive /\ bits[mem[curr].fd] = {}
          /\ curr' = mem[curr].next
          /\ UNCHANGED <<list, mode, pc, bits, ret, event_count, ops, due, risky>>

CallsBack == /\ pc = "walk" /\ More /\ curr \in alive /\ bits[mem[curr].fd] # {}
             /\ pc' = "callback" /\ due' = IF risky THEN {} ELSE due \ {curr}
             /\ UNCHANGED <<list, mode, walk, ops, risky>>

CallbackCalls == /\ pc = "callback" /\ ops < MaxOps /\ ops' = ops + 1
                 /\ \/ Call /\ UNCHANGED mode
                    \/ cwh_loop_stop
                 /\ risky' = (risky \/ (curr \notin alive /\ alive' # alive))
                 /\ UNCHANGED <<pc, walk>>

CallbackReturns == /\ pc = "callback" /\ pc' = "walk"
                   /\ event_count' = Min({event_count + 1, MostEvents})
                   /\ curr' = mem[curr].next
                   /\ ops' = 0
                   /\ UNCHANGED <<list, mode, bits, ret, due, risky>>

Loop == NothingReady \/ SelectFails \/ Select \/ WalkEnds \/ WalkIsLost \/ Passes
          \/ CallsBack \/ CallbackReturns
Program == ProgramCalls \/ cwh_loop_run \/ cwh_loop_run_once \/ cwh_loop_free \/ CallbackCalls
Next == Loop \/ Program

Spec == Init /\ [][Next]_vars
FairSpec == Spec /\ WF_vars(Loop)

-----------------------------------------------------------------------------
(***************************************************************************)
(* The entries that are alive hang together: each is reached once from the *)
(* head, no descriptor is registered twice, and max_fd is the largest of   *)
(* them, so that select watches all: after any sequence of registrations,  *)
(* in callbacks or out of them.                                            *)
(***************************************************************************)
Order == {place \in [alive -> 1..Cardinality(alive)] :
            \A c, d \in alive : place[c] = place[d] => c = d}
ListSound ==
  /\ \E place \in Order :
       /\ \A c \in alive : /\ place[c] = 1 <=> handlers = c
                           /\ IF mem[c].next = NULL THEN place[c] = Cardinality(alive)
                              ELSE /\ mem[c].next \in alive
                                   /\ place[mem[c].next] = place[c] + 1
  /\ alive = {} => handlers = NULL
  /\ \A c, d \in alive : mem[c].fd = mem[d].fd => c = d
  /\ max_fd = update_max_fd(alive)

(***************************************************************************)
(* A wait calls back each entry that select reported and that no callback  *)
(* has removed, exactly once, and no other: none added on the way, none    *)
(* for the events of a descriptor's earlier registration; and it never     *)
(* stands on freed memory.  All this unless a callback removes its own     *)
(* entry and then adds or removes one, which moves the links the walk      *)
(* goes by.                                                                *)
(***************************************************************************)
OrderlyDispatch ==
  [][/\ pc = "walk" /\ pc' = "callback" => curr \in due \/ risky
     /\ pc = "walk" /\ pc' = "out" => due = {} \/ risky
     /\ pc' = "lost" => risky]_vars

(***************************************************************************)
(* A wait that has something to dispatch ends, whatever the callbacks do   *)
(* to the list, since it makes no more calls than select counted events.   *)
(***************************************************************************)
WaitEnds == pc = "walk" ~> pc \in {"out", "lost"}

=============================================================================
