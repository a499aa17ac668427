--------------------------- MODULE SelectLoopProofs ---------------------------
(***************************************************************************)
(* Proofs about SelectLoop, for any number of entries, descriptors and     *)
(* calls that a callback makes.                                            *)
(***************************************************************************)
EXTENDS SelectLoop, FiniteSetTheorems, FunctionTheorems, WellFoundedInduction, TLAPS

\* Every variable stays in its range; what is to be called back is registered.
Entries == [fd : Nat, events : SUBSET {READ, WRITE}, next : Cell \cup {NULL}]
TypeOK ==
  /\ mem \in [Cell -> Entries] /\ alive \subseteq Cell /\ handlers \in Cell \cup {NULL}
  /\ max_fd \in Int /\ \A c \in alive : mem[c].fd \in Fd
  /\ mode \in {"none", "run", "last"} /\ pc \in {"out", "walk", "callback", "lost"}
  /\ bits \in [Fd -> SUBSET {READ, WRITE, ERROR}]
  /\ ret \in Nat /\ event_count \in Nat /\ curr \in Cell \cup {NULL}
  /\ due \subseteq alive /\ risky \in BOOLEAN
  /\ mode = "none" => pc = "out"
  /\ pc = "out" => due = {}
  /\ pc = "callback" => curr \in Cell

\* The list, with the place of each entry in it.
Chain(place) ==
  /\ place \in Order
  /\ \A c \in alive : /\ place[c] = 1 <=> handlers = c
                      /\ IF mem[c].next = NULL THEN place[c] = Cardinality(alive)
                         ELSE /\ mem[c].next \in alive
                              /\ place[mem[c].next] = place[c] + 1
Registered ==
  /\ alive = {} => handlers = NULL
  /\ \A c, d \in alive : mem[c].fd = mem[d].fd => c = d
  /\ max_fd = update_max_fd(alive)

\* Until a wait is risky, what it has still to call back are the entries that
\* select reported at and after the one the walk comes to.
Reported(c)   == bits[mem[c].fd] # {}
From(place, c) ==
  IF c = NULL THEN due = {}
  ELSE c \in alive /\ due = {d \in alive : place[d] >= place[c] /\ Reported(d)}
Ahead(place) ==
  ~risky =>
    /\ pc = "walk" => From(place, curr)
    /\ pc = "callback" =>
         IF curr \in alive
         THEN due = {d \in alive : place[d] > place[curr] /\ Reported(d)}
         ELSE From(place, mem[curr].next)

\* It has enough calls left for them.
Counted == /\ pc = "walk" => event_count + Cardinality(due) <= ret
           /\ pc = "callback" => event_count + 1 + Cardinality(due) <= ret

SelectInv == /\ TypeOK /\ Registered /\ Counted
             /\ \E place \in Order : Chain(place) /\ Ahead(place)

-----------------------------------------------------------------------------
(* The greatest element of a finite set of numbers.                        *)

IsMax(m, S) == m \in S /\ \A x \in S : m >= x

\* By induction on the size of the set: there would be a least size with no
\* greatest element.
LEMMA MaxExists ==
  ASSUME NEW S, S \subseteq Int, IsFiniteSet(S), S # {}
  PROVE  \E m \in S : IsMax(m, S)
<1> DEFINE Bad(n) == \E T \in SUBSET Int : /\ IsFiniteSet(T) /\ T # {} /\ Cardinality(T) = n
                                           /\ ~ \E m \in T : IsMax(m, T)
           B == {n \in Nat : Bad(n)}
<1>1. SUFFICES B = {}
  <2>1. Cardinality(S) \in Nat /\ Cardinality(S) \notin B
    BY <1>1, FS_CardinalityType
  <2> QED
    BY <2>1
<1>2. SUFFICES ASSUME B # {} PROVE FALSE
  OBVIOUS
<1>3. PICK n \in B : \A k \in B : ~(<<k, n>> \in OpToRel(<, Nat))
  <2>1. B \subseteq Nat
    OBVIOUS
  <2> HIDE DEF B
  <2> QED
    BY <1>2, <2>1, WFMin, NatLessThanWellFounded
<1>4. n \in Nat /\ \A k \in Nat : k < n => k \notin B
  BY <1>3 DEF OpToRel
<1>5. PICK T \in SUBSET Int : /\ IsFiniteSet(T) /\ T # {} /\ Cardinality(T) = n
                              /\ ~ \E m \in T : IsMax(m, T)
  OBVIOUS
<1>6. PICK x \in T : TRUE
  BY <1>5
<1> DEFINE R == T \ {x}
<1>7. IsFiniteSet(R) /\ Cardinality(R) = n - 1 /\ Cardinality(R) \in Nat
  BY <1>5, <1>6, FS_RemoveElement, FS_CardinalityType
<1>8. R # {}
  <2> SUFFICES ASSUME R = {} PROVE FALSE
    OBVIOUS
  <2>1. IsMax(x, T) /\ x \in Int
    BY <1>6 DEF IsMax
  <2> QED
    BY <1>5, <1>6, <2>1
<1>9. PICK m \in R : IsMax(m, R)
  <2>1. n - 1 \in Nat /\ n - 1 < n
    BY <1>4, <1>7
  <2>2. n - 1 \notin B
    BY <1>4, <2>1
  <2>3. ~Bad(n - 1)
    BY <2>1, <2>2
  <2>4. R \in SUBSET Int
    OBVIOUS
  <2> HIDE DEF R
  <2> QED
    BY <1>7, <1>8, <2>3, <2>4
<1>10. m \in Int /\ x \in Int /\ m \in T /\ \A y \in T : y \in Int /\ (y = x \/ m >= y)
  BY <1>6, <1>9 DEF IsMax
<1>11. IsMax(m, T) \/ IsMax(x, T)
  BY <1>6, <1>10 DEF IsMax
<1> QED
  BY <1>5, <1>6, <1>10, <1>11

LEMMA MaxIs ==
  ASSUME NEW S, S \subseteq Int, NEW m, IsMax(m, S)
  PROVE  Max(S) = m
<1>1. \E x \in S : \A y \in S : x >= y
  BY DEF IsMax
<1>2. Max(S) \in S /\ \A y \in S : Max(S) >= y
  BY <1>1 DEF Max
<1>3. Max(S) >= m /\ m >= Max(S) /\ m \in Int /\ Max(S) \in Int
  BY <1>2 DEF IsMax
<1> QED
  BY <1>3

LEMMA MaxWith ==
  ASSUME NEW S, S \subseteq Int, IsFiniteSet(S), S # {}, NEW x \in Int
  PROVE  Max(S) \in Int /\ Max(S \cup {x}) = Max({x, Max(S)})
<1>1. PICK m \in S : IsMax(m, S)
  BY MaxExists
<1>2. Max(S) = m /\ m \in Int
  BY <1>1, MaxIs
<1>3. CASE x >= m
  <2>1. IsMax(x, S \cup {x}) /\ IsMax(x, {x, m})
    BY <1>1, <1>2, <1>3 DEF IsMax
  <2>2. Max(S \cup {x}) = x
    BY <2>1, MaxIs
  <2>3. Max({x, m}) = x
    BY <1>2, <2>1, MaxIs
  <2> QED
    BY <1>2, <2>2, <2>3
<1>4. CASE m >= x
  <2>1. IsMax(m, S \cup {x}) /\ IsMax(m, {x, m})
    BY <1>1, <1>2, <1>4 DEF IsMax
  <2>2. Max(S \cup {x}) = m
    BY <1>2, <2>1, MaxIs
  <2>3. Max({x, m}) = m
    BY <1>2, <2>1, MaxIs
  <2> QED
    BY <1>2, <2>2, <2>3
<1> QED
  BY <1>2, <1>3, <1>4

LEMMA MinOfTwo ==
  ASSUME NEW x \in Nat, NEW y \in Nat
  PROVE  Min({x, y}) \in Nat /\ Min({x, y}) <= x
<1>1. \E m \in {x, y} : \A z \in {x, y} : m =< z
  OBVIOUS
<1>2. Min({x, y}) \in {x, y} /\ \A z \in {x, y} : Min({x, y}) =< z
  BY <1>1 DEF Min
<1> QED
  BY <1>2

-----------------------------------------------------------------------------
(* What a registration added or removed does to the list.                  *)

LEMMA EntryCount == TypeOK => IsFiniteSet(alive) /\ Cardinality(alive) \in Nat
<1> SUFFICES ASSUME TypeOK PROVE IsFiniteSet(alive)
  BY FS_CardinalityType
<1> QED
  BY SelectAssumption, FS_Subset DEF TypeOK

\* The list begins with an entry unless it is empty.
LEMMA HeadListed ==
  ASSUME TypeOK, Registered, NEW p, Chain(p)
  PROVE  IF handlers = NULL THEN alive = {} ELSE handlers \in alive /\ p[handlers] = 1
<1> DEFINE n == Cardinality(alive)
           T == 1 .. n
<1>1. IsFiniteSet(alive) /\ n \in Nat /\ NULL \notin alive
  BY EntryCount, SelectAssumption DEF TypeOK
<1>2. CASE alive = {}
  BY <1>2 DEF Registered
<1>3. CASE alive # {}
  <2>1. n # 0
    BY <1>1, <1>3, FS_EmptySet
  <2>2. p \in [alive -> T] /\ \A c, d \in alive : p[c] = p[d] => c = d
    BY DEF Chain, Order
  <2>3. p \in Injection(alive, T)
    BY <2>2, Fun_IsInj
  <2>4. IsFiniteSet(T) /\ Cardinality(T) = n
    BY <1>1, <2>1, FS_Interval
  <2>5. p \in Surjection(alive, T)
    <3> HIDE DEF T
    <3> QED
      BY <2>3, <2>4, FS_Injection
  <2>6. 1 \in T
    BY <1>1, <2>1
  <2> HIDE DEF T
  <2>7. PICK c \in alive : p[c] = 1
    BY <2>5, <2>6, Fun_SurjectionProperties
  <2>8. handlers = c
    BY <2>7 DEF Chain
  <2> QED
    BY <1>1, <2>7, <2>8
<1> QED
  BY <1>2, <1>3

\* q orders the entries as p does, and puts the new ones first.
SameOrder(p, q) ==
  /\ \A c, d \in alive \cap alive' : p[c] > p[d] <=> q[c] > q[d]
  /\ \A c \in alive' \ alive : \A d \in alive : q[c] < q[d]

LEMMA AddListed ==
  ASSUME TypeOK, Registered, NEW p, Chain(p), NEW fd \in Fd, NEW events \in Interests[fd],
         cwh_select_add(fd, events)
  PROVE  /\ Registered' /\ mem' \in [Cell -> Entries] /\ alive' \subseteq Cell
         /\ handlers' \in Cell \cup {NULL} /\ max_fd' \in Int
         /\ \A c \in alive' : mem'[c].fd \in Fd
         /\ \A c \in alive : mem'[c] = mem[c]
         /\ alive \subseteq alive' /\ alive' # alive /\ due' = due
         /\ \E q : Chain(q)' /\ SameOrder(p, q)
<1> DEFINE n == Cardinality(alive)
<1>1. IsFiniteSet(alive) /\ n \in Nat /\ alive \subseteq Cell /\ NULL \notin Cell
  BY EntryCount, SelectAssumption DEF TypeOK
<1>2. PICK a \in Cell \ alive :
        /\ mem' = [mem EXCEPT ![a] = [fd |-> fd, events |-> events, next |-> handlers]]
        /\ handlers' = a /\ alive' = alive \cup {a}
  BY <1>1 DEF cwh_select_add, Allocates, Linked
<1>3. find_handler(fd) = {} /\ max_fd' = Max({fd, max_fd}) /\ due' = due
  BY DEF cwh_select_add
<1>4. fd \in Nat /\ events \in SUBSET {READ, WRITE}
  BY SelectAssumption DEF READ, WRITE
<1>5. mem' \in [Cell -> Entries]
  BY <1>2, <1>4 DEF TypeOK, Entries
<1>6. mem'[a] = [fd |-> fd, events |-> events, next |-> handlers]
      /\ \A c \in Cell : c # a => mem'[c] = mem[c]
  BY <1>2 DEF TypeOK
<1>7. \A c \in alive : c # a /\ mem'[c] = mem[c] /\ mem[c].fd # fd
  BY <1>1, <1>2, <1>3, <1>6 DEF find_handler
<1>8. \A c \in alive' : mem'[c].fd \in Fd
  BY <1>2, <1>6, <1>7 DEF TypeOK
<1>9. Cardinality(alive') = n + 1 /\ IsFiniteSet(alive')
  BY <1>1, <1>2, FS_AddElement
<1> DEFINE fds == {mem[c].fd : c \in alive}
<1>10. max_fd' = update_max_fd(alive)' /\ max_fd' \in Int
  <2>1. fds \subseteq Int /\ IsFiniteSet(fds)
    <3>1. fds \subseteq Fd
      BY DEF TypeOK
    <3> HIDE DEF fds
    <3>2. IsFiniteSet(Fd) /\ Fd \subseteq Int /\ fds \in SUBSET Fd
      BY <3>1, SelectAssumption
    <3> QED
      BY <3>2, FS_Subset
  <2>2. IsFiniteSet(fds \cup {-1}) /\ fds \cup {-1} \subseteq Int /\ fds \cup {-1} # {}
    BY <2>1, FS_AddElement
  <2>3. {mem'[c].fd : c \in alive'} = fds \cup {fd}
    BY <1>2, <1>6, <1>7
  <2>4. max_fd = Max(fds \cup {-1})
    BY DEF Registered, update_max_fd
  <2> HIDE DEF fds
  <2>5. Max((fds \cup {-1}) \cup {fd}) = Max({fd, max_fd})
    <3>1. fd \in Int
      BY <1>4
    <3>2. Max((fds \cup {-1}) \cup {fd}) = Max({fd, Max(fds \cup {-1})})
      BY <2>2, <3>1, MaxWith
    <3> QED
      BY <2>4, <3>2
  <2>6. (fds \cup {-1}) \cup {fd} = {mem'[c].fd : c \in alive'} \cup {-1}
    BY <2>3
  <2>7. Max({fd, max_fd}) \in Int
    <3>1. fd \in Int /\ max_fd \in Int
      BY <1>4 DEF TypeOK
    <3>2. Max({max_fd} \cup {fd}) = Max({fd, Max({max_fd})}) /\ Max({max_fd}) \in Int
      BY <3>1, FS_Singleton, MaxWith
    <3>3. \E m \in {fd, max_fd} : IsMax(m, {fd, max_fd})
      BY <3>1 DEF IsMax
    <3> QED
      BY <3>1, <3>3, MaxIs
  <2> QED
    BY <1>3, <2>5, <2>6, <2>7 DEF update_max_fd
<1>11. Registered'
  <2>1. \A c, d \in alive' : mem'[c].fd = mem'[d].fd => c = d
    BY <1>2, <1>6, <1>7 DEF Registered
  <2>2. alive' # {}
    BY <1>2
  <2> QED
    BY <1>10, <2>1, <2>2 DEF Registered
<1>0. PICK q : q = [c \in alive \cup {a} |-> IF c = a THEN 1 ELSE p[c] + 1]
  OBVIOUS
<1>12. /\ p \in [alive -> 1 .. n] /\ \A c, d \in alive : p[c] = p[d] => c = d
       /\ \A c \in alive : p[c] \in 1 .. n
  BY DEF Chain, Order
<1>13. q[a] = 1 /\ \A c \in alive : q[c] = p[c] + 1 /\ q[c] \in Int /\ q[c] > 1
  BY <1>0, <1>1, <1>7, <1>12
<1> HIDE DEF n
<1>14. q \in Order'
  <2>1. \A c \in alive' : q[c] \in 1 .. n + 1
    BY <1>1, <1>2, <1>12, <1>13
  <2>2. q \in [alive' -> 1 .. Cardinality(alive')]
    BY <1>0, <1>2, <1>9, <2>1
  <2>3. \A c, d \in alive' : q[c] = q[d] => c = d
    <3> SUFFICES ASSUME NEW c \in alive \cup {a}, NEW d \in alive \cup {a}, q[c] = q[d]
                 PROVE  c = d
      BY <1>2
    <3> QED
      BY <1>12, <1>13
  <2> QED
    BY <2>2, <2>3 DEF Order
<1>15. Chain(q)'
  <2>1. ASSUME NEW c \in alive'
        PROVE  /\ q[c] = 1 <=> handlers' = c
               /\ IF mem'[c].next = NULL THEN q[c] = Cardinality(alive')
                  ELSE mem'[c].next \in alive' /\ q[mem'[c].next] = q[c] + 1
    <3>1. CASE c = a
      <4>1. mem'[c].next = handlers
        BY <1>6, <3>1
      <4>2. CASE handlers = NULL
        <5>1. alive = {}
          BY <4>2, HeadListed
        <5>2. n = 0
          BY <5>1, FS_EmptySet DEF n
        <5> QED
          BY <1>2, <1>9, <1>13, <3>1, <4>1, <4>2, <5>2
      <4>3. CASE handlers # NULL
        <5>1. handlers \in alive /\ p[handlers] = 1
          BY <4>3, HeadListed
        <5> QED
          BY <1>1, <1>2, <1>13, <3>1, <4>1, <4>3, <5>1
      <4> QED
        BY <4>2, <4>3
    <3>2. CASE c \in alive
      <4>1. mem'[c].next = mem[c].next /\ handlers' # c /\ q[c] # 1
        BY <1>2, <1>7, <1>13, <3>2
      <4>2. IF mem[c].next = NULL THEN p[c] = n
            ELSE mem[c].next \in alive /\ p[mem[c].next] = p[c] + 1
        BY <3>2 DEF Chain, n
      <4> QED
        BY <1>1, <1>2, <1>9, <1>13, <3>2, <4>1, <4>2
    <3> QED
      BY <1>2, <3>1, <3>2
  <2> QED
    BY <1>14, <2>1 DEF Chain
<1>16. SameOrder(p, q)
  <2>1. \A c \in alive : q[c] = p[c] + 1 /\ p[c] \in Int
    BY <1>1, <1>12, <1>13
  <2>2. \A c, d \in alive : p[c] > p[d] <=> q[c] > q[d]
    BY <2>1
  <2> QED
    BY <1>2, <1>13, <2>2 DEF SameOrder
<1> QED
  BY <1>1, <1>2, <1>3, <1>5, <1>7, <1>8, <1>10, <1>11, <1>15, <1>16

LEMMA DelListed ==
  ASSUME TypeOK, Registered, NEW p, Chain(p), NEW fd \in Fd, cwh_select_del(fd)
  PROVE  /\ Registered' /\ mem' \in [Cell -> Entries] /\ alive' \subseteq Cell
         /\ handlers' \in Cell \cup {NULL} /\ max_fd' \in Int
         /\ \A c \in alive' : mem'[c].fd \in Fd
         /\ \E x \in alive : /\ alive' = alive \ {x} /\ due' = due \ {x}
                             /\ mem'[x].next = mem[x].next
         /\ \A c \in alive' : mem'[c].fd = mem[c].fd
         /\ \E q : Chain(q)' /\ SameOrder(p, q)
<1> DEFINE n == Cardinality(alive)
<1>1. IsFiniteSet(alive) /\ n \in Nat /\ alive \subseteq Cell /\ NULL \notin Cell
  BY EntryCount, SelectAssumption DEF TypeOK
<1>2. PICK x \in alive :
        /\ mem' = [d \in Cell |->
                     IF d = x THEN [mem[d] EXCEPT !.fd = 0, !.events = {}]
                     ELSE IF d \in LinksTo(x) THEN [mem[d] EXCEPT !.next = mem[x].next]
                     ELSE mem[d]]
        /\ handlers' = IF handlers = x THEN mem[x].next ELSE handlers
        /\ alive' = alive \ {x} /\ max_fd' = NewMax(x) /\ due' = due \ {x}
  BY DEF cwh_select_del, find_handler
<1>3. \A c \in Cell : /\ mem[c] \in Entries /\ mem[c].fd \in Nat
                      /\ mem[c].events \in SUBSET {READ, WRITE} /\ mem[c].next \in Cell \cup {NULL}
  BY DEF TypeOK, Entries
<1>4. /\ mem'[x] = [mem[x] EXCEPT !.fd = 0, !.events = {}]
      /\ \A c \in Cell : c # x =>
           mem'[c] = IF c \in LinksTo(x) THEN [mem[c] EXCEPT !.next = mem[x].next] ELSE mem[c]
  BY <1>1, <1>2
<1>5. \A c \in Cell : c # x => /\ mem'[c].fd = mem[c].fd
                               /\ mem'[c].next = IF c \in alive /\ mem[c].next = x
                                                 THEN mem[x].next ELSE mem[c].next
  BY <1>3, <1>4 DEF LinksTo, Entries
<1>6. mem'[x].next = mem[x].next
  BY <1>1, <1>3, <1>4 DEF Entries
<1>7. mem' \in [Cell -> Entries]
  <2>1. ASSUME NEW c \in Cell
        PROVE  /\ [mem[c] EXCEPT !.fd = 0, !.events = {}] \in Entries
               /\ [mem[c] EXCEPT !.next = mem[x].next] \in Entries
    BY <1>1, <1>3 DEF Entries
  <2> QED
    BY <1>2, <1>3, <2>1
<1>8. handlers' \in Cell \cup {NULL}
  BY <1>1, <1>2, <1>3 DEF TypeOK
<1>9. \A c \in alive' : mem'[c].fd = mem[c].fd /\ mem'[c].fd \in Fd
  BY <1>1, <1>2, <1>5 DEF TypeOK
<1>10. max_fd' = update_max_fd(alive)' /\ max_fd' \in Int
  <2> DEFINE S == {mem[c].fd : c \in alive \ {x}} \cup {-1}
  <2>1. max_fd' = Max(S)
    BY <1>2 DEF NewMax, update_max_fd
  <2>2. {mem'[c].fd : c \in alive'} = {mem[c].fd : c \in alive \ {x}}
    BY <1>2, <1>9
  <2>3. S \subseteq Int /\ IsFiniteSet(S) /\ S # {}
    <3> DEFINE R == {mem[c].fd : c \in alive \ {x}}
    <3>1. R \subseteq Fd
      BY DEF TypeOK
    <3> HIDE DEF R
    <3>2. IsFiniteSet(Fd) /\ Fd \subseteq Int /\ R \in SUBSET Fd
      BY <3>1, SelectAssumption
    <3>3. IsFiniteSet(R) /\ IsFiniteSet(R \cup {-1})
      BY <3>2, FS_Subset, FS_AddElement
    <3> QED
      BY <3>2, <3>3 DEF R
  <2>4. max_fd' = update_max_fd(alive)'
    BY <2>1, <2>2 DEF update_max_fd
  <2> HIDE DEF S
  <2>5. Max(S) \in Int
    BY <2>3, MaxWith
  <2> QED
    BY <2>1, <2>4, <2>5
<1>11. Cardinality(alive') = n - 1 /\ IsFiniteSet(alive')
  BY <1>1, <1>2, FS_RemoveElement
<1>12. /\ p \in [alive -> 1 .. n] /\ \A c, d \in alive : p[c] = p[d] => c = d
       /\ \A c \in alive : p[c] \in 1 .. n
  BY DEF Chain, Order
<1>13. \A c \in alive : /\ p[c] = 1 <=> handlers = c
                        /\ IF mem[c].next = NULL THEN p[c] = n
                           ELSE mem[c].next \in alive /\ p[mem[c].next] = p[c] + 1
  BY DEF Chain
<1>14. PICK q : q = [c \in alive \ {x} |-> IF p[c] > p[x] THEN p[c] - 1 ELSE p[c]]
  OBVIOUS
<1> HIDE DEF n
<1>15. \A c \in alive \ {x} : \/ p[c] > p[x] /\ q[c] = p[c] - 1
                              \/ p[c] < p[x] /\ q[c] = p[c]
  BY <1>1, <1>12, <1>14
<1> DEFINE P == p[x]
<1>x. P \in Int /\ 1 <= P /\ P <= n
  BY <1>1, <1>12
<1>c. ASSUME NEW c \in alive'
       PROVE  /\ c \in alive /\ c # x /\ c \in Cell
              /\ p[c] \in Int /\ 1 <= p[c] /\ p[c] <= n /\ q[c] \in Int
              /\ \/ p[c] > P /\ q[c] = p[c] - 1
                 \/ p[c] < P /\ q[c] = p[c]
  <2>1. c \in alive /\ c # x /\ c \in Cell
    BY <1>1, <1>2
  <2>2. p[c] \in Int /\ 1 <= p[c] /\ p[c] <= n
    BY <1>1, <1>12, <2>1
  <2>3. \/ p[c] > P /\ q[c] = p[c] - 1
        \/ p[c] < P /\ q[c] = p[c]
    BY <1>15, <2>1
  <2> QED
    BY <2>1, <2>2, <2>3
<1> HIDE DEF P
<1>16. \A c, d \in alive \ {x} : p[c] > p[d] <=> q[c] > q[d]
  BY <1>1, <1>12, <1>15
<1>17. q \in Order'
  <2>1. ASSUME NEW c \in alive' PROVE q[c] \in 1 .. n - 1
    BY <1>1, <1>x, <1>c
  <2>2. q \in [alive' -> 1 .. Cardinality(alive')]
    BY <1>2, <1>11, <1>14, <2>1
  <2>3. ASSUME NEW c \in alive', NEW d \in alive', q[c] = q[d]
        PROVE  c = d
    <3>1. p[c] = p[d]
      <4>1. ~(p[c] > p[d]) /\ ~(p[d] > p[c])
        <5>1. c \in alive \ {x} /\ d \in alive \ {x}
          BY <1>2
        <5>2. q[c] \in Int /\ ~(q[c] > q[d]) /\ ~(q[d] > q[c])
          BY <1>c, <2>3
        <5> QED
          BY <1>16, <5>1, <5>2
      <4> QED
        BY <1>c, <4>1
    <3> QED
      BY <1>12, <1>c, <3>1
  <2> QED
    BY <2>2, <2>3 DEF Order
<1>18. ASSUME NEW c \in alive'
       PROVE  /\ q[c] = 1 <=> handlers' = c
              /\ IF mem'[c].next = NULL THEN q[c] = Cardinality(alive')
                 ELSE mem'[c].next \in alive' /\ q[mem'[c].next] = q[c] + 1
  <2>1. c \in alive /\ c # x /\ c \in Cell
    BY <1>1, <1>2
  <2>2. q[c] = 1 <=> handlers' = c
    <3>1. CASE handlers = x
      <4>1. p[x] = 1 /\ q[c] = p[c] - 1
        BY <1>1, <1>12, <1>13, <1>15, <2>1, <3>1
      <4>2. CASE mem[x].next = NULL
        <5>1. P = n /\ P = 1
          BY <1>13, <4>1, <4>2 DEF P
        <5> QED
          BY <1>x, <1>c, <5>1
      <4>3. CASE mem[x].next # NULL
        <5> DEFINE e == mem[x].next
        <5>3. e \in alive /\ p[e] = p[x] + 1
          BY <1>13, <4>3
        <5>4. handlers' = e
          BY <1>2, <3>1
        <5>1. e \in alive /\ p[e] = 2 /\ handlers' = e
          BY <4>1, <5>3, <5>4
        <5>2. q[c] = 1 <=> p[c] = p[e]
          BY <1>c, <4>1, <5>1
        <5> QED
          BY <1>12, <2>1, <5>1, <5>2
      <4> QED
        BY <4>2, <4>3
    <3>2. CASE handlers # x
      <4>1. p[x] # 1
        BY <1>13, <3>2
      <4> QED
        <5>1. q[c] = 1 <=> p[c] = 1
          BY <1>x, <1>c, <4>1 DEF P
        <5> QED
          BY <1>2, <1>13, <2>1, <3>2, <5>1
    <3> QED
      BY <3>1, <3>2
  <2>3. CASE mem[c].next = x
    <3>1. mem'[c].next = mem[x].next /\ p[x] = p[c] + 1 /\ q[c] = p[c] /\ x # NULL
      BY <1>1, <1>5, <1>12, <1>13, <1>15, <2>1, <2>3
    <3>2. CASE mem[x].next = NULL
      <4>1. P = n /\ P = p[c] + 1 /\ mem'[c].next = NULL
        BY <1>13, <3>1, <3>2 DEF P
      <4>2. q[c] = n - 1
        BY <1>c, <3>1, <4>1
      <4> QED
        BY <1>11, <2>2, <4>1, <4>2
    <3>3. CASE mem[x].next # NULL
      <4> DEFINE e == mem[x].next
      <4>1. e \in alive /\ p[e] = p[x] + 1 /\ e # x
        BY <1>12, <1>13, <3>3
      <4>2. q[e] = p[e] - 1
        BY <1>12, <1>15, <4>1
      <4> QED
        <5>1. e \in alive' /\ mem'[c].next = e /\ e # NULL
          BY <1>2, <3>1, <3>3, <4>1
        <5>2. q[e] = q[c] + 1
          BY <1>c, <2>1, <3>1, <4>1, <4>2
        <5> QED
          BY <2>2, <5>1, <5>2
    <3> QED
      BY <2>2, <3>2, <3>3
  <2>4. CASE mem[c].next # x
    <3>1. mem'[c].next = mem[c].next
      BY <1>5, <2>1, <2>4
    <3>2. CASE mem[c].next = NULL
      <4>1. q[c] = n - 1
        <5>1. p[c] = n
          BY <1>13, <2>1, <3>2
        <5> QED
          BY <1>1, <1>x, <1>c, <5>1 DEF P
      <4> QED
        BY <1>1, <1>11, <1>12, <1>13, <1>15, <2>1, <2>2, <3>1, <3>2, <4>1
    <3>3. CASE mem[c].next # NULL
      <4> DEFINE e == mem[c].next
      <4>1. e \in alive /\ e # x /\ p[e] = p[c] + 1
        BY <1>13, <2>1, <2>4, <3>3
      <4>2. q[e] = q[c] + 1
        BY <1>1, <1>12, <1>15, <2>1, <4>1
      <4> QED
        <5>1. e \in alive' /\ mem'[c].next = e /\ e # NULL
          BY <1>2, <3>1, <3>3, <4>1
        <5> QED
          BY <2>2, <4>2, <5>1
    <3> QED
      BY <3>2, <3>3
  <2> QED
    BY <2>2, <2>3, <2>4
<1>19. Chain(q)'
  BY <1>17, <1>18 DEF Chain
<1>20. Registered'
  <2>1. \A c, d \in alive' : mem'[c].fd = mem'[d].fd => c = d
    <3>1. \A c, d \in alive : mem[c].fd = mem[d].fd => c = d
      BY DEF Registered
    <3>2. alive' \subseteq alive
      BY <1>2
    <3> QED
      BY <1>9, <3>1, <3>2
  <2>2. ASSUME alive' = {} PROVE handlers' = NULL
    <3>1. alive = {x}
      BY <1>2, <2>2
    <3>2. n = 1
      BY <3>1, FS_Singleton DEF n
    <3>3. p[x] = 1 /\ mem[x].next = NULL
      <4>1. p[x] = 1
        BY <1>12, <3>2
      <4>2. CASE mem[x].next # NULL
        BY <1>12, <1>13, <3>1, <4>1, <4>2
      <4> QED
        BY <4>1, <4>2
    <3> QED
      BY <1>2, <1>13, <3>3
  <2> QED
    BY <1>10, <2>1, <2>2 DEF Registered
<1>21. SameOrder(p, q)
  BY <1>2, <1>16 DEF SameOrder
<1>22. alive' \subseteq Cell
  BY <1>1, <1>2
<1> QED
  BY <1>2, <1>6, <1>7, <1>8, <1>9, <1>10, <1>19, <1>20, <1>21, <1>22

LEMMA ModListed ==
  ASSUME TypeOK, Registered, NEW p, Chain(p), NEW fd \in Fd, NEW events \in Interests[fd],
         cwh_select_mod(fd, events)
  PROVE  /\ Registered' /\ mem' \in [Cell -> Entries]
         /\ \A c \in Cell : mem'[c].fd = mem[c].fd /\ mem'[c].next = mem[c].next
         /\ UNCHANGED <<alive, handlers, max_fd, due>> /\ Chain(p)'
<1>1. PICK x \in alive : mem' = [mem EXCEPT ![x].events = events]
  BY DEF cwh_select_mod, find_handler
<1>2. UNCHANGED <<alive, handlers, max_fd, due>>
  BY DEF cwh_select_mod
<1>3. events \in SUBSET {READ, WRITE} /\ alive \subseteq Cell
  BY SelectAssumption DEF READ, WRITE, TypeOK
<1>4. \A c \in Cell : mem[c] \in Entries
  BY DEF TypeOK
<1>5. mem' \in [Cell -> Entries]
  BY <1>1, <1>3 DEF TypeOK, Entries
<1>6. \A c \in Cell : mem'[c].fd = mem[c].fd /\ mem'[c].next = mem[c].next
  BY <1>1, <1>3, <1>4 DEF TypeOK, Entries
<1>7. {mem'[c].fd : c \in alive} = {mem[c].fd : c \in alive}
  BY <1>3, <1>6
<1>8. Registered'
  <2>1. max_fd' = update_max_fd(alive)'
    BY <1>2, <1>7 DEF Registered, update_max_fd
  <2>2. \A c, d \in alive' : mem'[c].fd = mem'[d].fd => c = d
    BY <1>2, <1>3, <1>6 DEF Registered
  <2> QED
    BY <1>2, <2>1, <2>2 DEF Registered
<1>9. Chain(p)'
  BY <1>2, <1>3, <1>6 DEF Chain, Order
<1> QED
  BY <1>2, <1>5, <1>6, <1>8, <1>9

-----------------------------------------------------------------------------
(* Every step keeps SelectInv.                                             *)

LEMMA PlaceFacts ==
  ASSUME TypeOK, NEW p, Chain(p)
  PROVE  \A c \in alive : /\ p[c] \in Nat /\ c \in Cell /\ c # NULL
                          /\ \A d \in alive : p[c] = p[d] => c = d
<1>1. p \in [alive -> 1 .. Cardinality(alive)] /\ \A c, d \in alive : p[c] = p[d] => c = d
  BY DEF Chain, Order
<1>2. \A c \in alive : p[c] \in Nat
  BY <1>1, EntryCount
<1> QED
  BY <1>1, <1>2, SelectAssumption DEF TypeOK

\* What comes after an entry is what comes from the next one on.
LEMMA Beyond ==
  ASSUME TypeOK, NEW p, Chain(p), NEW c \in alive
  PROVE  /\ From(p, mem[c].next) <=> due = {d \in alive : p[d] > p[c] /\ Reported(d)}
         /\ mem[c].next # NULL => /\ mem[c].next \in alive /\ mem[c].next # c
                                  /\ \A d \in alive : p[d] > p[c] <=> p[d] >= p[mem[c].next]
<1> DEFINE e == mem[c].next
           n == Cardinality(alive)
<1>1. \A d \in alive : p[d] \in Nat
  BY PlaceFacts
<1>2. CASE e = NULL
  <2>1. p[c] = n /\ \A d \in alive : p[d] <= n
    BY <1>2, EntryCount DEF Chain, Order
  <2>2. \A d \in alive : ~(p[d] > p[c])
    BY <1>1, <2>1
  <2> QED
    BY <1>2, <2>2 DEF From
<1>3. CASE e # NULL
  <2>1. e \in alive /\ p[e] = p[c] + 1
    BY <1>3 DEF Chain
  <2>2. e # c /\ \A d \in alive : p[d] > p[c] <=> p[d] >= p[e]
    BY <1>1, <2>1
  <2>3. From(p, e) <=> due = {d \in alive : p[d] >= p[e] /\ Reported(d)}
    BY <1>3, <2>1 DEF From
  <2>4. {d \in alive : p[d] >= p[e] /\ Reported(d)} = {d \in alive : p[d] > p[c] /\ Reported(d)}
    BY <2>2
  <2> QED
    BY <2>1, <2>2, <2>3, <2>4
<1> QED
  BY <1>2, <1>3

LEMMA DueCount == TypeOK => IsFiniteSet(due) /\ Cardinality(due) \in Nat
<1> SUFFICES ASSUME TypeOK PROVE IsFiniteSet(due)
  BY FS_CardinalityType
<1> QED
  BY EntryCount, FS_Subset DEF TypeOK

\* A step that leaves the list alone.
LEMMA SameList ==
  ASSUME Registered, NEW p, Chain(p), UNCHANGED <<alive, handlers, max_fd>>,
         \A c \in alive : mem'[c] = mem[c]
  PROVE  Registered' /\ Chain(p)'
<1>1. {mem'[c].fd : c \in alive} = {mem[c].fd : c \in alive}
  OBVIOUS
<1>2. max_fd' = update_max_fd(alive)'
  BY <1>1 DEF Registered, update_max_fd
<1>3. Registered'
  BY <1>2 DEF Registered
<1>4. Chain(p)'
  BY DEF Chain, Order
<1> QED
  BY <1>3, <1>4

LEMMA WaitReturnsInv ==
  ASSUME SelectInv, WaitReturns, mode' \in {"none", "run", "last"}
  PROVE  SelectInv'
<1>1. TypeOK /\ Registered
  BY DEF SelectInv
<1>2. PICK p : Chain(p)
  BY DEF SelectInv
<1>3. /\ pc' = "out" /\ due' = {} /\ risky' = FALSE /\ curr' = NULL
      /\ bits' = [fd \in Fd |-> {}] /\ ret' = 0 /\ event_count' = 0
      /\ mem' = [c \in Cell |-> IF c \in alive THEN mem[c] ELSE Blank]
      /\ UNCHANGED <<alive, handlers, max_fd>>
  BY DEF WaitReturns
<1>4. \A c \in alive : mem'[c] = mem[c]
  BY <1>1, <1>3 DEF TypeOK
<1>5. Registered' /\ Chain(p)'
  BY <1>1, <1>2, <1>3, <1>4, SameList
<1>6. mem' \in [Cell -> Entries]
  <2>1. Blank \in Entries
    BY DEF Blank, Entries
  <2> QED
    BY <1>1, <1>3, <2>1 DEF TypeOK
<1>7. TypeOK'
  BY <1>1, <1>3, <1>4, <1>6 DEF TypeOK
<1>8. Counted' /\ Ahead(p)'
  BY <1>3 DEF Counted, Ahead
<1> QED
  BY <1>5, <1>7, <1>8 DEF SelectInv, Chain

LEMMA SelectInvSelect == ASSUME SelectInv, Select PROVE SelectInv'
<1>1. TypeOK /\ Registered
  BY DEF SelectInv
<1>2. PICK p : Chain(p)
  BY DEF SelectInv
<1> DEFINE Ev == {READ, WRITE, ERROR}
<1>3. PICK B \in [alive -> SUBSET Ev] :
        /\ bits' = [fd \in Fd |-> UNION {B[c] : c \in find_handler(fd)}]
        /\ ret' = Cardinality({r \in alive \X Ev : r[2] \in B[r[1]]})
        /\ due' = {c \in alive : B[c] # {}}
  BY DEF Select
<1>4. /\ pc' = "walk" /\ curr' = handlers /\ event_count' = 0 /\ mode # "none"
      /\ UNCHANGED <<list, mode, ops, risky>>
  BY DEF Select, Waiting
<1>5. UNCHANGED <<mem, alive, handlers, max_fd>>
  BY <1>4 DEF list
<1>6. Registered' /\ Chain(p)'
  BY <1>1, <1>2, <1>5, SameList
<1> DEFINE R == {r \in alive \X Ev : r[2] \in B[r[1]]}
<1>7. IsFiniteSet(R) /\ Cardinality(R) \in Nat
  <2>1. IsFiniteSet({READ, WRITE, ERROR})
    <3>1. IsFiniteSet({READ}) /\ IsFiniteSet({READ} \cup {WRITE})
          /\ IsFiniteSet(({READ} \cup {WRITE}) \cup {ERROR})
      BY FS_Singleton, FS_AddElement
    <3>2. ({READ} \cup {WRITE}) \cup {ERROR} = {READ, WRITE, ERROR}
      OBVIOUS
    <3> QED
      BY <3>1, <3>2
  <2>2. IsFiniteSet(alive)
    BY <1>1, EntryCount
  <2> HIDE DEF Ev
  <2>3. IsFiniteSet(alive \X Ev)
    BY <2>1, <2>2, FS_Product DEF Ev
  <2>4. R \in SUBSET (alive \X Ev)
    OBVIOUS
  <2> HIDE DEF R
  <2> QED
    BY <2>3, <2>4, FS_Subset, FS_CardinalityType
<1>8. due' \subseteq alive /\ IsFiniteSet(due')
  <2>1. due' \in SUBSET alive
    BY <1>3
  <2> QED
    BY <1>1, <2>1, EntryCount, FS_Subset
<1>9. Cardinality(due') <= ret'
  <2> DEFINE D == {c \in alive : B[c] # {}}
             F == [c \in D |-> <<c, CHOOSE e \in B[c] : TRUE>>]
  <2>1. \A c \in D : (CHOOSE e \in B[c] : TRUE) \in B[c]
    OBVIOUS
  <2>2. \A c \in D : F[c] \in R /\ F[c][1] = c
    <3> SUFFICES ASSUME NEW c \in D PROVE F[c] \in R /\ F[c][1] = c
      OBVIOUS
    <3>1. PICK e \in B[c] : F[c] = <<c, e>>
      BY <2>1
    <3>2. c \in alive /\ e \in Ev
      BY <1>3
    <3> QED
      BY <3>1, <3>2
  <2> HIDE DEF R
  <2>3. F \in [D -> R]
    BY <2>2
  <2>4. \A a, b \in D : F[a] = F[b] => a = b
    BY <2>2
  <2> HIDE DEF D, F
  <2>5. F \in Injection(D, R)
    BY <2>3, <2>4, Fun_IsInj
  <2>6. Cardinality(D) <= Cardinality(R)
    BY <1>7, <2>5, FS_Injection
  <2> QED
    BY <1>3, <2>6 DEF D, R
<1>10. \A c \in alive : mem[c].fd \in Fd /\ bits'[mem[c].fd] = B[c]
  <2> SUFFICES ASSUME NEW c \in alive PROVE bits'[mem[c].fd] = B[c]
    BY <1>1 DEF TypeOK
  <2>1. find_handler(mem[c].fd) = {c}
    BY <1>1 DEF find_handler, Registered
  <2>2. mem[c].fd \in Fd
    BY <1>1 DEF TypeOK
  <2> QED
    BY <1>3, <2>1, <2>2
<1>11. TypeOK'
  <2>1. \A fd \in Fd : UNION {B[c] : c \in find_handler(fd)} \in SUBSET Ev
    BY <1>3 DEF find_handler
  <2>2. bits' \in [Fd -> SUBSET {READ, WRITE, ERROR}]
    BY <1>3, <2>1
  <2>3. ret' \in Nat
    BY <1>3, <1>7
  <2>4. curr' \in Cell \cup {NULL}
    BY <1>1, <1>4 DEF TypeOK
  <2>5. due' \subseteq alive' /\ risky' \in BOOLEAN
    BY <1>1, <1>4, <1>5, <1>8 DEF TypeOK
  <2> QED
    BY <1>1, <1>4, <1>5, <2>2, <2>3, <2>4, <2>5 DEF TypeOK
<1>12. Counted'
  <2>1. Cardinality(due') \in Nat /\ ret' \in Nat
    BY <1>3, <1>7, <1>8, FS_CardinalityType
  <2> QED
    BY <1>4, <1>9, <2>1 DEF Counted
<1>13. From(p, curr)'
  <2>1. CASE handlers = NULL
    <3>1. alive = {}
      BY <1>1, <1>2, <2>1, HeadListed
    <3> QED
      BY <1>3, <1>4, <2>1, <3>1 DEF From
  <2>2. CASE handlers # NULL
    <3>1. handlers \in alive /\ p[handlers] = 1
      BY <1>1, <1>2, <2>2, HeadListed
    <3>2. \A d \in alive : p[d] >= 1
      BY <1>1, <1>2, EntryCount DEF Chain, Order
    <3>3. \A d \in alive : Reported(d)' <=> B[d] # {}
      BY <1>5, <1>10 DEF Reported
    <3>4. due' = {d \in alive : p[d] >= p[handlers] /\ Reported(d)'}
      BY <1>3, <3>1, <3>2, <3>3
    <3> QED
      BY <1>4, <1>5, <2>2, <3>1, <3>4 DEF From
  <2> QED
    BY <2>1, <2>2
<1>14. Ahead(p)'
  BY <1>4, <1>13 DEF Ahead
<1> QED
  BY <1>6, <1>11, <1>12, <1>14 DEF SelectInv, Chain

\* The steps of the walk.
LEMMA WalkInv ==
  ASSUME SelectInv, WalkIsLost \/ Passes \/ CallsBack \/ CallbackReturns
  PROVE  SelectInv'
<1>1. TypeOK /\ Registered /\ Counted
  BY DEF SelectInv
<1>2. PICK p : Chain(p) /\ Ahead(p)
  BY DEF SelectInv
<1>3. UNCHANGED <<mem, alive, handlers, max_fd, mode, bits, ret, risky>>
  BY DEF WalkIsLost, Passes, CallsBack, CallbackReturns, list, walk
<1>4. Registered' /\ Chain(p)'
  BY <1>1, <1>2, <1>3, SameList
<1>5. \A q \in Order : Chain(q)' => q \in Order'
  BY DEF Chain
<1>6. \A c : Reported(c)' <=> Reported(c)
  BY <1>3 DEF Reported
<1>7. IsFiniteSet(due) /\ Cardinality(due) \in Nat /\ event_count \in Nat /\ ret \in Nat
  BY <1>1, DueCount DEF TypeOK
<1>8. CASE WalkIsLost
  <2>1. TypeOK' /\ Counted' /\ Ahead(p)'
    BY <1>1, <1>3, <1>8 DEF WalkIsLost, walk, TypeOK, Counted, Ahead
  <2> QED
    BY <1>4, <2>1 DEF SelectInv, Chain
<1>9. CASE Passes
  <2>1. /\ curr \in alive /\ ~Reported(curr) /\ curr' = mem[curr].next /\ pc = "walk"
        /\ UNCHANGED <<pc, event_count, due>>
    BY <1>9 DEF Passes, Reported
  <2>2. TypeOK'
    <3>1. curr' \in Cell \cup {NULL}
      BY <1>1, <2>1 DEF TypeOK, Entries
    <3> QED
      BY <1>1, <1>3, <2>1, <3>1 DEF TypeOK
  <2>3. Counted'
    BY <1>1, <1>3, <2>1 DEF Counted
  <2>4. ASSUME ~risky PROVE From(p, mem[curr].next)
    <3>1. due = {d \in alive : p[d] >= p[curr] /\ Reported(d)}
      BY <1>1, <1>2, <2>1, <2>4, PlaceFacts DEF Ahead, From
    <3>2. \A d \in alive : p[d] >= p[curr] /\ Reported(d) <=> p[d] > p[curr] /\ Reported(d)
      BY <1>1, <1>2, <2>1, PlaceFacts
    <3>3. due = {d \in alive : p[d] > p[curr] /\ Reported(d)}
      BY <3>1, <3>2
    <3> QED
      BY <1>1, <1>2, <2>1, <3>3, Beyond
  <2>5. Ahead(p)'
    BY <1>3, <1>6, <2>1, <2>4 DEF Ahead, From
  <2> QED
    BY <1>4, <2>2, <2>3, <2>5 DEF SelectInv, Chain
<1>10. CASE CallsBack
  <2>1. /\ curr \in alive /\ Reported(curr) /\ pc = "walk" /\ pc' = "callback"
        /\ due' = (IF risky THEN {} ELSE due \ {curr}) /\ event_count < ret
        /\ UNCHANGED <<event_count, curr>>
    BY <1>10 DEF CallsBack, Reported, More, walk
  <2>2. TypeOK'
    BY <1>1, <1>3, <2>1 DEF TypeOK
  <2>3. ~risky => due = {d \in alive : p[d] >= p[curr] /\ Reported(d)}
    BY <1>1, <1>2, <2>1, PlaceFacts DEF Ahead, From
  <2>4. Counted'
    <3>1. CASE risky
      <4>1. Cardinality(due') = 0
        BY <2>1, <3>1, FS_EmptySet
      <4> QED
        BY <1>3, <1>7, <2>1, <4>1 DEF Counted
    <3>2. CASE ~risky
      <4>1. curr \in due
        BY <1>1, <1>2, <2>1, <2>3, <3>2, PlaceFacts
      <4>2. Cardinality(due') = Cardinality(due) - 1
        BY <1>7, <2>1, <3>2, <4>1, FS_RemoveElement
      <4>3. event_count + Cardinality(due) <= ret
        BY <1>1, <2>1 DEF Counted
      <4> QED
        BY <1>3, <1>7, <2>1, <4>2, <4>3 DEF Counted
    <3> QED
      BY <3>1, <3>2
  <2>5. Ahead(p)'
    <3>1. \A d \in alive : (p[d] >= p[curr] /\ d # curr) <=> p[d] > p[curr]
      BY <1>1, <1>2, <2>1, PlaceFacts
    <3>2. ~risky => due' = {d \in alive : p[d] > p[curr] /\ Reported(d)}
      BY <2>1, <2>3, <3>1
    <3> QED
      BY <1>3, <1>6, <2>1, <3>2 DEF Ahead
  <2> QED
    BY <1>4, <2>2, <2>4, <2>5 DEF SelectInv, Chain
<1>11. CASE CallbackReturns
  <2>1. /\ pc = "callback" /\ pc' = "walk" /\ curr' = mem[curr].next /\ due' = due
        /\ event_count' = Min({event_count + 1, MostEvents})
    BY <1>11 DEF CallbackReturns
  <2>2. curr \in Cell /\ curr' \in Cell \cup {NULL}
    BY <1>1, <2>1 DEF TypeOK, Entries
  <2>3. event_count' \in Nat /\ event_count' <= event_count + 1
    <3>1. MostEvents \in Nat /\ event_count + 1 \in Nat
      <4>1. Cardinality(Fd) \in Nat
        BY SelectAssumption, FS_CardinalityType
      <4> QED
        BY <1>7, <4>1 DEF MostEvents
    <3> QED
      BY <2>1, <3>1, MinOfTwo
  <2>4. TypeOK'
    BY <1>1, <1>3, <2>1, <2>2, <2>3 DEF TypeOK
  <2>5. Counted'
    <3>1. event_count + 1 + Cardinality(due) <= ret
      BY <1>1, <2>1 DEF Counted
    <3> QED
      BY <1>3, <1>7, <2>1, <2>3, <3>1 DEF Counted
  <2>6. ~risky => From(p, mem[curr].next)
    BY <1>1, <1>2, <2>1, Beyond DEF Ahead
  <2>7. Ahead(p)'
    BY <1>3, <1>6, <2>1, <2>6 DEF Ahead, From
  <2> QED
    BY <1>4, <2>4, <2>5, <2>7 DEF SelectInv, Chain
<1> QED
  BY <1>8, <1>9, <1>10, <1>11

LEMMA LaterPlaces ==
  ASSUME TypeOK', NEW q, Chain(q)'
  PROVE  \A d \in alive' : q[d] \in Nat
<1>1. alive' \in SUBSET Cell /\ IsFiniteSet(Cell)
  BY SelectAssumption DEF TypeOK
<1>2. Cardinality(alive') \in Nat
  BY <1>1, FS_Subset, FS_CardinalityType
<1>3. q \in [alive' -> 1 .. Cardinality(alive')]
  BY DEF Chain, Order
<1> QED
  BY <1>2, <1>3

\* A call that a callback makes moves no entry that is still to be called back
\* out of the way of the walk.
LEMMA CallbackCallsInv == ASSUME SelectInv, CallbackCalls PROVE SelectInv'
<1>1. TypeOK /\ Registered /\ Counted /\ pc = "callback"
  BY DEF SelectInv, CallbackCalls
<1>2. PICK p : Chain(p) /\ Ahead(p)
  BY DEF SelectInv
<1>3. /\ UNCHANGED <<pc, bits, ret, event_count, curr>>
      /\ risky' = (risky \/ (curr \notin alive /\ alive' # alive))
      /\ curr \in Cell
  BY <1>1 DEF CallbackCalls, walk, TypeOK
<1>4. IsFiniteSet(due) /\ Cardinality(due) \in Nat /\ event_count \in Nat /\ ret \in Nat
  BY <1>1, DueCount DEF TypeOK
<1>5. ASSUME due' \subseteq due PROVE Counted'
  <2>1. due' \in SUBSET due
    BY <1>5
  <2>2. IsFiniteSet(due') /\ Cardinality(due') <= Cardinality(due)
    BY <1>4, <2>1, FS_Subset
  <2>3. Cardinality(due') \in Nat /\ event_count + 1 + Cardinality(due) <= ret
    BY <1>1, <2>2, FS_CardinalityType DEF Counted
  <2> QED
    BY <1>1, <1>3, <1>4, <2>2, <2>3 DEF Counted
<1>6. ASSUME NEW fd \in Fd, NEW events \in Interests[fd], cwh_select_add(fd, events), UNCHANGED mode
      PROVE  SelectInv'
  <2>1. /\ Registered' /\ mem' \in [Cell -> Entries] /\ alive' \subseteq Cell
        /\ handlers' \in Cell \cup {NULL} /\ max_fd' \in Int
        /\ \A c \in alive' : mem'[c].fd \in Fd
        /\ \A c \in alive : mem'[c] = mem[c]
        /\ alive \subseteq alive' /\ alive' # alive /\ due' = due
        /\ \E q : Chain(q)' /\ SameOrder(p, q)
    BY <1>1, <1>2, <1>6, AddListed
  <2>2. PICK q : Chain(q)' /\ SameOrder(p, q)
    BY <2>1
  <2>3. TypeOK'
    BY <1>1, <1>3, <1>6, <2>1 DEF TypeOK
  <2>4. Ahead(q)'
    <3> SUFFICES ASSUME ~risky'
                 PROVE  curr \in alive' /\ due = {d \in alive' : q[d] > q[curr] /\ Reported(d)'}
      BY <1>1, <1>3, <2>1 DEF Ahead
    <3>1. ~risky /\ curr \in alive
      BY <1>3, <2>1
    <3>2. due = {d \in alive : p[d] > p[curr] /\ Reported(d)}
      BY <1>1, <1>2, <3>1 DEF Ahead
    <3>3. \A d \in alive : Reported(d)' <=> Reported(d)
      BY <1>3, <2>1 DEF Reported
    <3>4. \A d \in alive : p[d] > p[curr] <=> q[d] > q[curr]
      BY <2>1, <2>2, <3>1 DEF SameOrder
    <3>5. \A d \in alive' \ alive : ~(q[d] > q[curr])
      <4>1. \A d \in alive' : q[d] \in Nat
        BY <2>2, <2>3, LaterPlaces
      <4> QED
        BY <2>1, <2>2, <3>1, <4>1 DEF SameOrder
    <3> QED
      BY <2>1, <3>1, <3>2, <3>3, <3>4, <3>5
  <2> QED
    BY <1>5, <2>1, <2>2, <2>3, <2>4 DEF SelectInv, Chain
<1>7. ASSUME NEW fd \in Fd, cwh_select_del(fd), UNCHANGED mode PROVE SelectInv'
  <2>1. /\ Registered' /\ mem' \in [Cell -> Entries] /\ alive' \subseteq Cell
        /\ handlers' \in Cell \cup {NULL} /\ max_fd' \in Int
        /\ \A c \in alive' : mem'[c].fd \in Fd
        /\ \E x \in alive : /\ alive' = alive \ {x} /\ due' = due \ {x}
                            /\ mem'[x].next = mem[x].next
        /\ \A c \in alive' : mem'[c].fd = mem[c].fd
        /\ \E q : Chain(q)' /\ SameOrder(p, q)
    BY <1>1, <1>2, <1>7, DelListed
  <2>2. PICK q : Chain(q)' /\ SameOrder(p, q)
    BY <2>1
  <2>3. PICK x \in alive : alive' = alive \ {x} /\ due' = due \ {x} /\ mem'[x].next = mem[x].next
    BY <2>1
  <2>4. TypeOK'
    <3>1. due' \subseteq alive'
      BY <1>1, <2>3 DEF TypeOK
    <3> QED
      BY <1>1, <1>3, <1>7, <2>1, <3>1 DEF TypeOK
  <2>5. Ahead(q)'
    <3> SUFFICES ASSUME ~risky'
                 PROVE  IF curr \in alive'
                        THEN due' = {d \in alive' : q[d] > q[curr] /\ Reported(d)'}
                        ELSE From(q, mem[curr].next)'
      <4>1. curr \notin alive' /\ ~risky' => mem'[curr].next = mem[curr].next
        BY <1>3, <2>3
      <4> QED
        BY <1>1, <1>3, <4>1 DEF Ahead, From
    <3>1. ~risky /\ curr \in alive
      BY <1>3, <2>3
    <3>2. due = {d \in alive : p[d] > p[curr] /\ Reported(d)}
      BY <1>1, <1>2, <3>1 DEF Ahead
    <3>3. \A d \in alive' : Reported(d)' <=> Reported(d)
      BY <1>3, <2>1 DEF Reported
    <3>4. \A c, d \in alive' : p[c] > p[d] <=> q[c] > q[d]
      BY <2>2, <2>3 DEF SameOrder
    <3>5. CASE curr \in alive'
      BY <2>3, <3>2, <3>3, <3>4, <3>5
    <3>6. CASE curr \notin alive'
      <4> DEFINE e == mem[curr].next
      <4>1. x = curr /\ e = mem'[curr].next
        BY <2>3, <3>1, <3>6
      <4>2. From(p, e)
        BY <1>1, <1>2, <3>1, <3>2, Beyond
      <4>3. CASE e = NULL
        BY <1>3, <2>3, <3>6, <4>1, <4>2, <4>3 DEF From
      <4>4. CASE e # NULL
        <5>1. e \in alive /\ e # curr
          BY <1>1, <1>2, <3>1, <4>4, Beyond
        <5>2. e \in alive' /\ due = {d \in alive : p[d] >= p[e] /\ Reported(d)}
          BY <2>3, <4>1, <4>2, <4>4, <5>1 DEF From
        <5>3. \A d \in alive' : p[d] >= p[e] <=> q[d] >= q[e]
          <6>1. \A d \in alive' : p[d] \in Nat /\ q[d] \in Nat
            BY <1>1, <1>2, <2>2, <2>3, <2>4, LaterPlaces, PlaceFacts
          <6> QED
            BY <3>4, <5>2, <6>1
        <5>4. due' = {d \in alive' : q[d] >= q[e] /\ Reported(d)'}
          BY <2>3, <3>3, <4>1, <5>2, <5>3
        <5> QED
          BY <1>3, <3>6, <4>1, <4>4, <5>2, <5>4 DEF From
      <4> QED
        BY <4>3, <4>4
    <3> QED
      BY <3>5, <3>6
  <2> QED
    BY <1>5, <2>1, <2>2, <2>3, <2>4, <2>5 DEF SelectInv, Chain
<1>8. ASSUME NEW fd \in Fd, NEW events \in Interests[fd], cwh_select_mod(fd, events), UNCHANGED mode
      PROVE  SelectInv'
  <2>1. /\ Registered' /\ mem' \in [Cell -> Entries]
        /\ \A c \in Cell : mem'[c].fd = mem[c].fd /\ mem'[c].next = mem[c].next
        /\ UNCHANGED <<alive, handlers, max_fd, due>> /\ Chain(p)'
    BY <1>1, <1>2, <1>8, ModListed
  <2>2. TypeOK'
    BY <1>1, <1>3, <1>8, <2>1 DEF TypeOK
  <2>3. risky' = risky /\ \A d \in alive : Reported(d)' <=> Reported(d)
    BY <1>1, <1>3, <2>1 DEF Reported, TypeOK
  <2>4. Ahead(p)'
    BY <1>1, <1>2, <1>3, <2>1, <2>3 DEF Ahead, From
  <2> QED
    BY <1>5, <2>1, <2>2, <2>4 DEF SelectInv, Chain
<1>9. ASSUME cwh_select_stop PROVE SelectInv'
  <2>1. UNCHANGED <<mem, alive, handlers, max_fd, due>> /\ mode' = "last"
    BY <1>9 DEF cwh_select_stop, list
  <2>2. Registered' /\ Chain(p)'
    BY <1>1, <1>2, <2>1, SameList
  <2>3. TypeOK' /\ Ahead(p)'
    BY <1>1, <1>2, <1>3, <2>1 DEF TypeOK, Ahead, From, Reported
  <2> QED
    BY <1>5, <2>1, <2>2, <2>3 DEF SelectInv, Chain
<1> QED
  BY <1>6, <1>7, <1>8, <1>9
     DEF CallbackCalls, Call, cwh_loop_add, cwh_loop_mod, cwh_loop_del, cwh_loop_stop

\* A call made outside the loop.
LEMMA ProgramCallsInv == ASSUME SelectInv, ProgramCalls PROVE SelectInv'
<1>1. TypeOK /\ Registered /\ pc = "out"
  BY DEF SelectInv, ProgramCalls
<1>2. PICK p : Chain(p)
  BY DEF SelectInv
<1>3. UNCHANGED <<mode, pc, bits, ret, event_count, curr, ops, risky>>
  BY DEF ProgramCalls, walk
<1>4. Counted' /\ \A q : Ahead(q)'
  BY <1>1, <1>3 DEF Counted, Ahead
<1>5. ASSUME TypeOK', Registered', \E q : Chain(q)' PROVE SelectInv'
  BY <1>4, <1>5 DEF SelectInv, Chain
<1>6. ASSUME NEW fd \in Fd, NEW events \in Interests[fd], cwh_select_add(fd, events)
      PROVE  SelectInv'
  <2>1. /\ Registered' /\ mem' \in [Cell -> Entries] /\ alive' \subseteq Cell
        /\ handlers' \in Cell \cup {NULL} /\ max_fd' \in Int
        /\ \A c \in alive' : mem'[c].fd \in Fd
        /\ alive \subseteq alive' /\ due' = due
        /\ \E q : Chain(q)'
    BY <1>1, <1>2, <1>6, AddListed
  <2>2. TypeOK'
    BY <1>1, <1>3, <2>1 DEF TypeOK
  <2> QED
    BY <1>5, <2>1, <2>2
<1>7. ASSUME NEW fd \in Fd, cwh_select_del(fd) PROVE SelectInv'
  <2>1. /\ Registered' /\ mem' \in [Cell -> Entries] /\ alive' \subseteq Cell
        /\ handlers' \in Cell \cup {NULL} /\ max_fd' \in Int
        /\ \A c \in alive' : mem'[c].fd \in Fd
        /\ \E x \in alive : alive' = alive \ {x} /\ due' = due \ {x}
        /\ \E q : Chain(q)'
    BY <1>1, <1>2, <1>7, DelListed
  <2>2. due' \subseteq alive'
    BY <1>1, <2>1 DEF TypeOK
  <2>3. TypeOK'
    BY <1>1, <1>3, <2>1, <2>2 DEF TypeOK
  <2> QED
    BY <1>5, <2>1, <2>3
<1>8. ASSUME NEW fd \in Fd, NEW events \in Interests[fd], cwh_select_mod(fd, events)
      PROVE  SelectInv'
  <2>1. /\ Registered' /\ mem' \in [Cell -> Entries]
        /\ \A c \in Cell : mem'[c].fd = mem[c].fd /\ mem'[c].next = mem[c].next
        /\ UNCHANGED <<alive, handlers, max_fd, due>> /\ Chain(p)'
    BY <1>1, <1>2, <1>8, ModListed
  <2>2. TypeOK'
    BY <1>1, <1>3, <2>1 DEF TypeOK
  <2> QED
    BY <1>5, <2>1, <2>2
<1> QED
  BY <1>6, <1>7, <1>8 DEF ProgramCalls, Call, cwh_loop_add, cwh_loop_mod, cwh_loop_del

LEMMA MaxOfNone == Max({mem[c].fd : c \in {}} \cup {-1}) = -1
<1>1. {mem[c].fd : c \in {}} \cup {-1} = {-1}
  OBVIOUS
<1>2. IsMax(-1, {-1}) /\ {-1} \subseteq Int
  BY DEF IsMax
<1>3. Max({-1}) = -1
  BY <1>2, MaxIs
<1> QED
  BY <1>1, <1>3

LEMMA InitInv == Init => SelectInv
<1> SUFFICES ASSUME Init PROVE SelectInv
  OBVIOUS
<1>1. TypeOK
  <2>1. Blank \in Entries
    BY DEF Blank, Entries
  <2>2. mem \in [Cell -> Entries] /\ bits \in [Fd -> SUBSET {READ, WRITE, ERROR}]
    BY <2>1 DEF Init
  <2>3. alive = {} /\ handlers = NULL /\ max_fd = -1 /\ mode = "none" /\ pc = "out"
        /\ ret = 0 /\ event_count = 0 /\ curr = NULL /\ due = {} /\ risky = FALSE
    BY DEF Init
  <2>4. max_fd \in Int /\ ret \in Nat /\ event_count \in Nat
    BY <2>3
  <2>5. alive \subseteq Cell /\ due \subseteq alive /\ \A c \in alive : mem[c].fd \in Fd
    BY <2>3
  <2> QED
    BY <2>2, <2>3, <2>4, <2>5 DEF TypeOK
<1>4. Registered
  BY MaxOfNone DEF Init, Registered, update_max_fd
<1>2. Chain([c \in {} |-> 0])
  BY DEF Init, Chain, Order
<1>3. Counted /\ \A p : Ahead(p)
  BY DEF Init, Counted, Ahead
<1> QED
  BY <1>1, <1>2, <1>3, <1>4 DEF SelectInv, Chain

LEMMA FreeInv == ASSUME SelectInv, cwh_loop_free PROVE SelectInv'
<1>1. TypeOK /\ pc = "out" /\ due = {}
  BY DEF SelectInv, cwh_loop_free, TypeOK
<1>2. /\ alive' = {} /\ handlers' = NULL /\ max_fd' = -1 /\ mem' = [c \in Cell |-> Blank]
      /\ UNCHANGED <<mode, pc, bits, ret, event_count, curr, due, risky>>
  BY DEF cwh_loop_free, walk
<1>3. Max({mem'[c].fd : c \in {}} \cup {-1}) = -1
  <2>1. {mem'[c].fd : c \in {}} = {mem[c].fd : c \in {}}
    OBVIOUS
  <2> QED
    BY <2>1, MaxOfNone
<1>4. TypeOK'
  BY <1>1, <1>2 DEF TypeOK, Blank, Entries
<1>5. Registered'
  BY <1>2, <1>3 DEF Registered, update_max_fd
<1>6. PICK q : q = [c \in {} |-> 0]
  OBVIOUS
<1>7. Chain(q)'
  BY <1>2, <1>6 DEF Chain, Order
<1>8. Counted' /\ Ahead(q)'
  BY <1>1, <1>2 DEF Counted, Ahead
<1> QED
  BY <1>4, <1>5, <1>7, <1>8 DEF SelectInv, Chain

LEMMA NextInv == SelectInv /\ [Next]_vars => SelectInv'
<1> SUFFICES ASSUME SelectInv, [Next]_vars PROVE SelectInv'
  OBVIOUS
<1>1. CASE NothingReady \/ SelectFails \/ WalkEnds
  <2>1. WaitReturns /\ mode' \in {"none", "run", "last"}
    BY <1>1 DEF NothingReady, SelectFails, WalkEnds, LoopGoesOn
  <2> QED
    BY <2>1, WaitReturnsInv
<1>2. ASSUME UNCHANGED <<list, pc, walk, due, risky>>, mode' \in {"none", "run", "last"},
             mode' = "none" => pc = "out"
      PROVE  SelectInv'
  <2>1. /\ UNCHANGED <<mem, alive, handlers, max_fd, pc, bits, ret, event_count, curr, due, risky>>
        /\ TypeOK /\ Registered /\ Counted
    BY <1>2 DEF list, walk, SelectInv
  <2>2. PICK p : Chain(p) /\ Ahead(p)
    BY DEF SelectInv
  <2>3. Registered' /\ Chain(p)'
    BY <2>1, <2>2, SameList
  <2>4. TypeOK'
    BY <1>2, <2>1 DEF TypeOK
  <2>5. Counted' /\ Ahead(p)'
    BY <2>1, <2>2 DEF Counted, Ahead, From, Reported
  <2> QED
    BY <2>3, <2>4, <2>5 DEF SelectInv, Chain
<1>3. CASE cwh_loop_run \/ cwh_loop_run_once
  BY <1>2, <1>3 DEF cwh_loop_run, cwh_loop_run_once
<1>4. CASE UNCHANGED vars
  BY <1>2, <1>4 DEF vars, SelectInv, TypeOK
<1> QED
  BY <1>1, <1>3, <1>4, SelectInvSelect, WalkInv, ProgramCallsInv, FreeInv, CallbackCallsInv
     DEF Next, Loop, Program

LEMMA Invariance == Spec => []SelectInv
BY InitInv, NextInv, PTL DEF Spec

\* ListSound: whatever is added, changed and removed, in callbacks or out of
\* them, the list holds each entry once and select watches the largest of their
\* descriptors (cwh_select_add, cwh_select_mod, cwh_select_del, update_max_fd).
THEOREM ListStaysSound == Spec => []ListSound
<1>1. SelectInv => ListSound
  BY DEF SelectInv, Registered, Chain, ListSound
<1> QED
  BY <1>1, Invariance, PTL

\* OrderlyDispatch: a wait calls back each entry that was reported and is still
\* registered, once, and no other, and stands on no freed memory, unless a
\* callback removed its own entry and then changed the list (cwh_select_wait).
THEOREM DispatchIsOrderly == Spec => OrderlyDispatch
<1> DEFINE Orderly == /\ pc = "walk" /\ pc' = "callback" => curr \in due \/ risky
                      /\ pc = "walk" /\ pc' = "out" => due = {} \/ risky
                      /\ pc' = "lost" => risky
<1>1. SelectInv /\ [Next]_vars => [Orderly]_vars
  <2> SUFFICES ASSUME SelectInv, Next PROVE Orderly
    OBVIOUS
  <2>1. TypeOK /\ Counted
    BY DEF SelectInv
  <2>2. PICK p : Chain(p) /\ Ahead(p)
    BY DEF SelectInv
  <2>3. CASE CallsBack
    <3>1. pc = "walk" /\ pc' = "callback" /\ curr \in alive /\ Reported(curr)
      BY <2>3 DEF CallsBack, Reported
    <3>2. ~risky => curr \in due
      BY <2>1, <2>2, <3>1, PlaceFacts DEF Ahead, From
    <3> QED
      BY <3>1, <3>2
  <2>4. CASE WalkEnds
    <3>1. pc = "walk" /\ pc' = "out" /\ (curr = NULL \/ ~(event_count < ret))
      BY <2>4 DEF WalkEnds, WaitReturns, More
    <3>2. CASE curr = NULL
      BY <2>2, <3>1, <3>2 DEF Ahead, From
    <3>3. CASE ~(event_count < ret)
      <4>1. /\ IsFiniteSet(due) /\ Cardinality(due) \in Nat /\ event_count \in Nat /\ ret \in Nat
            /\ event_count + Cardinality(due) <= ret
        BY <2>1, <3>1, DueCount DEF TypeOK, Counted
      <4>2. Cardinality(due) = 0
        BY <3>3, <4>1
      <4> QED
        BY <3>1, <4>1, <4>2, FS_EmptySet
    <3> QED
      BY <3>1, <3>2, <3>3
  <2>5. CASE WalkIsLost
    <3>1. pc = "walk" /\ pc' = "lost" /\ curr # NULL /\ curr \notin alive
      BY <2>5 DEF WalkIsLost, More
    <3> QED
      BY <2>2, <3>1 DEF Ahead, From
  <2>6. CASE NothingReady \/ SelectFails
    BY <2>6 DEF NothingReady, SelectFails, Waiting, WaitReturns
  <2>7. CASE Select \/ Passes \/ CallbackReturns
    BY <2>7 DEF Select, Passes, CallbackReturns, Waiting
  <2>8. CASE Program
    <3>1. (pc' = pc /\ pc # "lost") \/ mode = "none"
      BY <2>8 DEF Program, ProgramCalls, cwh_loop_run, cwh_loop_run_once, cwh_loop_free,
                  CallbackCalls
    <3>2. mode = "none" => pc = "out" /\ pc' = pc
      BY <2>1, <2>8 DEF TypeOK, Program, ProgramCalls, cwh_loop_run, cwh_loop_run_once,
                        cwh_loop_free, CallbackCalls
    <3> QED
      BY <3>1, <3>2
  <2> QED
    BY <2>3, <2>4, <2>5, <2>6, <2>7, <2>8 DEF Next, Loop
<1>2. OrderlyDispatch <=> [][Orderly]_vars
  BY DEF OrderlyDispatch
<1> HIDE DEF Orderly
<1> QED
  BY <1>1, <1>2, Invariance, PTL DEF Spec

=============================================================================
