-------------------------- MODULE SyncClientProofs --------------------------
(***************************************************************************)
(* Proofs about SyncClient, for every set of hosts, every program, every   *)
(* redirect a server may answer with and every size of the pool.           *)
(***************************************************************************)
EXTENDS SyncClient, FiniteSetTheorems, FunctionTheorems, SequenceTheorems, TLAPS

Items(q)    == {q[i] : i \in DOMAIN q}
Distinct(q) == \A i, j \in DOMAIN q : q[i] = q[j] => i = j

\* The call has a connection where it needs one.
Connected == call # Idle /\ call.phase # "connect" => call.conn \in Conn

\* SocketsOwned, with the connections of the pool all different.
OpenSockets == {c \in Conn : link[c] \in {"up", "fin", "reset"}}
Owned ==
  alive => /\ OpenSockets = Used \cup Pooled
           /\ Used \cap Pooled = {}
           /\ Distinct(pool)
           /\ g_pool_size = Len(pool) /\ Len(pool) <= MaxPool

\* What cwh_run has accepted or will accept: each is there once, it has not
\* been closed at this end, and no other server has it.
Waiting == Items(backlog) \cup ({client_sock} \ {NoConn})
Queued ==
  /\ Distinct(backlog) /\ client_sock \notin Items(backlog)
  /\ \A c \in Waiting : link[c] \in {"up", "left"} /\ (c \in Conn => host[c] \in OwnHost)

PoolInv == TypeOK /\ Connected /\ Owned /\ Queued

\* What is on a connection is of the exchange under way, or it is unsettled.
Mine(r) == r.call = Len(todo) /\ r.hop = call.redirect_count
AllMine(c) ==
  /\ \A i \in DOMAIN outbox[c] : Mine(outbox[c][i])
  /\ \A i \in DOMAIN inbox[c] : Mine(inbox[c][i].req)
  /\ \A i \in DOMAIN due[c] : Mine(due[c][i].req)
Clean(c) == outbox[c] = <<>> /\ inbox[c] = <<>> /\ due[c] = <<>>
Closed(c) == /\ link[c] = "none" => outbox[c] = <<>>
             /\ link[c] \in {"none", "left"} => due[c] = <<>>
Settled ==
  /\ alive => \A c \in Used : host[c] = call.url.host /\ (c \notin unsettled => AllMine(c))
  /\ alive => \A c \in Pooled : c \notin unsettled => Clean(c)
  /\ \A c \in Conn : Closed(c)

-----------------------------------------------------------------------------
(* The connections that stay in the pool.                                  *)

Rank(S, i) == Cardinality({j \in S : j <= i})

LEMMA Ranks ==
  ASSUME NEW n \in Nat, NEW S \in SUBSET (1 .. n)
  PROVE  /\ IsFiniteSet(S) /\ Cardinality(S) \in Nat
         /\ \A i \in S : Rank(S, i) \in 1 .. Cardinality(S)
         /\ \A i, k \in S : Rank(S, i) = Rank(S, k) => i = k
         /\ \A m \in 1 .. Cardinality(S) : \E i \in S : Rank(S, i) = m
<1>1. IsFiniteSet(S) /\ Cardinality(S) \in Nat
  <2>1. IsFiniteSet(1 .. n)
    BY FS_Interval
  <2> QED
    BY <2>1, FS_Subset, FS_CardinalityType
<1>2. ASSUME NEW i \in S
      PROVE  /\ IsFiniteSet({j \in S : j <= i}) /\ Rank(S, i) \in Nat
             /\ Rank(S, i) \in 1 .. Cardinality(S)
  <2> DEFINE B == {j \in S : j <= i}
  <2>1. IsFiniteSet(B) /\ Cardinality(B) <= Cardinality(S) /\ Cardinality(B) \in Nat
    <3>1. B \in SUBSET S
      OBVIOUS
    <3>2. IsFiniteSet(B) /\ Cardinality(B) <= Cardinality(S)
      BY <1>1, <3>1, FS_Subset
    <3> QED
      BY <3>2, FS_CardinalityType
  <2>2. B # {}
    <3>1. i \in B
      OBVIOUS
    <3> QED
      BY <3>1
  <2>3. Cardinality(B) # 0
    BY <2>1, <2>2, FS_EmptySet
  <2> QED
    BY <1>1, <2>1, <2>3 DEF Rank
<1>3. ASSUME NEW i \in S, NEW k \in S, i < k
      PROVE  Rank(S, i) < Rank(S, k)
  <2> DEFINE B(h) == {j \in S : j <= h}
  <2>1. B(i) \in SUBSET B(k) /\ k \in B(k) /\ k \notin B(i)
    <3>1. i \in Int /\ k \in Int /\ \A h \in S : h \in Int
      OBVIOUS
    <3>2. \A h \in S : h <= i => h <= k
      BY <1>3, <3>1
    <3>3. k <= k /\ ~(k <= i)
      BY <1>3, <3>1
    <3> QED
      BY <3>2, <3>3
  <2>2. IsFiniteSet(B(k)) /\ Cardinality(B(i)) <= Cardinality(B(k))
        /\ (Cardinality(B(k)) = Cardinality(B(i)) => B(k) = B(i))
    BY <1>2, <2>1, FS_Subset
  <2>3. Cardinality(B(k)) # Cardinality(B(i))
    BY <2>1, <2>2
  <2>4. Rank(S, i) \in Nat /\ Rank(S, k) \in Nat
    BY <1>2
  <2> HIDE DEF B
  <2>5. Rank(S, i) = Cardinality(B(i)) /\ Rank(S, k) = Cardinality(B(k))
    BY DEF Rank, B
  <2> QED
    BY <2>2, <2>3, <2>4, <2>5
<1>4. ASSUME NEW i \in S, NEW k \in S, Rank(S, i) = Rank(S, k)
      PROVE  i = k
  <2>1. i < k \/ k < i \/ i = k
    OBVIOUS
  <2>2. Rank(S, i) \in Nat
    BY <1>2
  <2> QED
    BY <1>3, <1>4, <2>1, <2>2
<1>5. ASSUME NEW m \in 1 .. Cardinality(S) PROVE \E i \in S : Rank(S, i) = m
  <2> DEFINE F == [i \in S |-> Rank(S, i)]
             T == 1 .. Cardinality(S)
  <2>1. F \in [S -> T]
    BY <1>2
  <2>2. F \in Injection(S, T)
    BY <1>4, <2>1, Fun_IsInj
  <2>3. IsFiniteSet(T) /\ Cardinality(T) = Cardinality(S)
    BY <1>1, FS_Interval
  <2>4. F \in Surjection(S, T)
    <3> HIDE DEF F, T
    <3> QED
      BY <2>2, <2>3, FS_Injection
  <2>5. \A t \in T : \E i \in S : F[i] = t
    <3> HIDE DEF F, T
    <3> QED
      BY <2>4, Fun_SurjectionProperties
  <2> QED
    BY <2>5
<1> QED
  BY <1>1, <1>2, <1>4, <1>5

\* As many places of a sequence hold what is in C as C has members.
LEMMA Places ==
  ASSUME NEW q \in Seq(Conn), Distinct(q), NEW C, C \subseteq Items(q)
  PROVE  LET P == {i \in DOMAIN q : q[i] \in C} IN
           IsFiniteSet(P) /\ IsFiniteSet(C) /\ Cardinality(C) = Cardinality(P)
<1> DEFINE P == {i \in DOMAIN q : q[i] \in C}
           F == [i \in P |-> q[i]]
<1>1. IsFiniteSet(P)
  <2>1. Len(q) \in Nat /\ DOMAIN q = 1 .. Len(q)
    BY LenProperties
  <2>2. IsFiniteSet(1 .. Len(q)) /\ P \in SUBSET (1 .. Len(q))
    BY <2>1, FS_Interval
  <2> QED
    BY <2>2, FS_Subset
<1>2. F \in [P -> C] /\ \A i, j \in P : F[i] = F[j] => i = j
  BY DEF Distinct
<1>3. \A c \in C : \E i \in P : F[i] = c
  BY DEF Items
<1>4. F \in Bijection(P, C)
  BY <1>2, <1>3, Fun_IsBij
<1>5. ExistsBijection(P, C)
  BY <1>4, Fun_ExistsBij
<1> QED
  BY <1>1, <1>5, FS_Bijection

LEMMA Stay ==
  ASSUME pool \in Seq(Conn), Distinct(pool), NEW C, C \subseteq Pooled
  PROVE  /\ Unpooled(C) \in Seq(Conn) /\ Distinct(Unpooled(C))
         /\ Items(Unpooled(C)) = Pooled \ C
         /\ IsFiniteSet(C) /\ Cardinality(C) \in Nat
         /\ Len(Unpooled(C)) = Len(pool) - Cardinality(C)
<1> DEFINE stay == {i \in DOMAIN pool : pool[i] \notin C}
           L    == Len(pool)
           at(n) == CHOOSE i \in stay : Rank(stay, i) = n
           q    == [n \in 1 .. Cardinality(stay) |-> pool[at(n)]]
<1>1. L \in Nat /\ DOMAIN pool = 1 .. L /\ \A i \in 1 .. L : pool[i] \in Conn
  BY LenProperties, ElementOfSeq
<1>2. stay \in SUBSET (1 .. L)
  BY <1>1
<1>3. Unpooled(C) = q
  BY DEF Unpooled, Rank
<1>4. /\ IsFiniteSet(stay) /\ Cardinality(stay) \in Nat
      /\ \A i \in stay : Rank(stay, i) \in 1 .. Cardinality(stay)
      /\ \A i, k \in stay : Rank(stay, i) = Rank(stay, k) => i = k
      /\ \A m \in 1 .. Cardinality(stay) : \E i \in stay : Rank(stay, i) = m
  <2> HIDE DEF stay, L
  <2> QED
    BY <1>1, <1>2, Ranks
<1>5. \A n \in 1 .. Cardinality(stay) : at(n) \in stay /\ Rank(stay, at(n)) = n
  <2> HIDE DEF stay
  <2> QED
    BY <1>4
<1>6. \A i \in stay : at(Rank(stay, i)) = i
  <2> HIDE DEF stay, at
  <2> QED
    BY <1>4, <1>5
<1>7. \A i \in stay : i \in 1 .. L /\ pool[i] \in Conn /\ pool[i] \notin C
  BY <1>1
<1> HIDE DEF at
<1>8. q \in [1 .. Cardinality(stay) -> Conn]
  BY <1>5, <1>7
<1>9. q \in Seq(Conn) /\ Len(q) = Cardinality(stay) /\ DOMAIN q = 1 .. Cardinality(stay)
  <2> HIDE DEF stay, q
  <2>1. q \in Seq(Conn)
    BY <1>4, <1>8, SeqDef
  <2> QED
    BY <1>4, <1>8, <2>1, LenProperties
<1>10. Distinct(q)
  <2>1. ASSUME NEW n \in 1 .. Cardinality(stay), NEW m \in 1 .. Cardinality(stay), q[n] = q[m]
        PROVE  n = m
    <3>1. pool[at(n)] = pool[at(m)] /\ at(n) \in stay /\ at(m) \in stay
      BY <1>5, <2>1
    <3>2. at(n) = at(m)
      BY <3>1 DEF Distinct
    <3> QED
      BY <1>5, <3>2
  <2> QED
    BY <1>9, <2>1 DEF Distinct
<1>11. Items(q) = Pooled \ C
  <2>1. ASSUME NEW n \in 1 .. Cardinality(stay) PROVE q[n] \in Pooled \ C
    BY <1>1, <1>5 DEF Pooled
  <2>2. ASSUME NEW i \in DOMAIN pool, pool[i] \notin C
        PROVE  \E n \in 1 .. Cardinality(stay) : q[n] = pool[i]
    <3>1. i \in stay
      BY <2>2
    <3>2. Rank(stay, i) \in 1 .. Cardinality(stay) /\ q[Rank(stay, i)] = pool[i]
      BY <1>4, <1>6, <3>1
    <3> QED
      BY <3>2
  <2>3. Items(q) = {q[n] : n \in 1 .. Cardinality(stay)}
    BY <1>9 DEF Items
  <2> HIDE DEF q, stay
  <2>4. \A c \in Pooled \ C : c \in Items(q)
    BY <2>2, <2>3 DEF Pooled
  <2>5. \A c \in Items(q) : c \in Pooled \ C
    BY <2>1, <2>3
  <2> QED
    BY <2>4, <2>5
<1>12. /\ IsFiniteSet(C) /\ Cardinality(C) \in Nat
       /\ Cardinality(stay) = L - Cardinality(C)
  <2> DEFINE P == {i \in DOMAIN pool : pool[i] \in C}
  <2>1. IsFiniteSet(P) /\ IsFiniteSet(C) /\ Cardinality(C) = Cardinality(P)
    BY Places DEF Pooled, Items
  <2>2. stay = (1 .. L) \ P /\ (1 .. L) \cap P = P
    BY <1>1
  <2>3. IsFiniteSet(1 .. L) /\ Cardinality(1 .. L) = L
    <3> HIDE DEF L
    <3>1. L \in Nat /\ L \in Int /\ 1 \in Int
      BY <1>1
    <3>2. IsFiniteSet(1 .. L) /\ Cardinality(1 .. L) = IF 1 > L THEN 0 ELSE L - 1 + 1
      BY <3>1, FS_Interval
    <3> QED
      BY <3>1, <3>2
  <2>4. Cardinality((1 .. L) \ P) = Cardinality(1 .. L) - Cardinality((1 .. L) \cap P)
    BY <2>3, FS_Difference
  <2> QED
    BY <2>1, <2>2, <2>3, <2>4, FS_CardinalityType
<1> QED
  BY <1>3, <1>9, <1>10, <1>11, <1>12

-----------------------------------------------------------------------------
(* What closing, pooling and taking out do to the sockets.                 *)

NetOK == /\ link \in [Conn \cup Rival -> Links]
         /\ inbox \in [Conn -> Seq(Answers)] /\ outbox \in [Conn -> Seq(Requests)]
         /\ due \in [Conn -> Seq(Answers)]
PoolOK == /\ pool \in Seq(Conn) /\ Distinct(pool) /\ old \subseteq Conn
          /\ g_pool_size \in 0 .. MaxPool /\ g_pool_size = Len(pool) /\ Len(pool) <= MaxPool

LEMMA PoolFacts ==
  ASSUME TypeOK, Owned, alive
  PROVE  /\ PoolOK /\ NetOK /\ Pooled \subseteq Conn /\ Len(pool) \in Nat
         /\ OpenSockets = Used \cup Pooled /\ Used \cap Pooled = {}
<1>1. pool \in Seq(Conn)
  BY DEF TypeOK
<1>2. Pooled \subseteq Conn /\ Len(pool) \in Nat
  BY <1>1, ElementOfSeq, LenProperties DEF Pooled
<1>3. NetOK
  BY DEF TypeOK, NetOK
<1>4. PoolOK
  BY DEF TypeOK, Owned, PoolOK
<1> QED
  BY <1>2, <1>3, <1>4 DEF Owned

LEMMA TakenOut ==
  ASSUME TypeOK, Owned, alive, NEW C, C \subseteq Pooled, PoolWithout(C)
  PROVE  PoolOK' /\ Pooled' = Pooled \ C
<1>1. PoolOK /\ Len(pool) \in Nat
  BY PoolFacts
<1>2. /\ pool' \in Seq(Conn) /\ Distinct(pool') /\ Items(pool') = Pooled \ C
      /\ Cardinality(C) \in Nat /\ Len(pool') = Len(pool) - Cardinality(C)
  BY <1>1, Stay DEF PoolWithout, PoolOK
<1>3. Len(pool') \in Nat
  BY <1>2, LenProperties
<1>4. g_pool_size' = Len(pool')
  BY <1>1, <1>2 DEF PoolWithout, SizeWithout, PoolOK
<1>5. Len(pool') <= MaxPool /\ g_pool_size' \in 0 .. MaxPool
  <2>1. MaxPool \in Nat /\ Len(pool) <= MaxPool
    BY <1>1, SyncAssumption DEF PoolOK
  <2> QED
    BY <1>1, <1>2, <1>3, <1>4, <2>1
<1>6. old' \subseteq Conn
  BY <1>1 DEF PoolWithout, PoolOK
<1>7. Pooled' = Pooled \ C
  BY <1>2 DEF Pooled, Items
<1> QED
  BY <1>2, <1>4, <1>5, <1>6, <1>7 DEF PoolOK

LEMMA HungUp ==
  ASSUME NetOK, NEW C, C \subseteq OpenSockets, Hangup(C)
  PROVE  NetOK' /\ OpenSockets' = OpenSockets \ C
<1>1. C \subseteq Conn /\ \A c \in C : link[c] \in {"up", "fin", "reset"}
  BY DEF OpenSockets
<1>2. \A c \in Conn \cup Rival : link[c] \in Links
  BY DEF NetOK
<1>3. link' \in [Conn \cup Rival -> Links]
  BY <1>2 DEF Hangup, Links
<1>4. /\ inbox' \in [Conn -> Seq(Answers)] /\ due' \in [Conn -> Seq(Answers)]
      /\ outbox' \in [Conn -> Seq(Requests)]
  BY EmptySeq DEF Hangup, NetOK
<1>5. \A c \in Conn : link'[c] = IF c \notin C THEN link[c]
                                 ELSE IF Lingers(c) THEN "left" ELSE "none"
  BY DEF Hangup
<1>6. OpenSockets' = OpenSockets \ C
  BY <1>5 DEF OpenSockets
<1> QED
  BY <1>3, <1>4, <1>6 DEF NetOK

\* cwh_run still sees what the client has closed.
LEMMA HungUpQueued ==
  ASSUME NetOK, Queued, NEW C, C \subseteq OpenSockets,
         link' = [c \in Conn \cup Rival |-> IF c \notin C THEN link[c]
                                            ELSE IF Lingers(c) THEN "left" ELSE "none"],
         Waiting \subseteq Conn \cup Rival, UNCHANGED <<backlog, client_sock, host>>
  PROVE  Queued'
<1>1. Waiting' = Waiting
  BY DEF Waiting, Items
<1>2. ASSUME NEW c \in Waiting
      PROVE  link'[c] \in {"up", "left"} /\ (c \in Conn => host'[c] \in OwnHost)
  <2>1. link[c] \in {"up", "left"} /\ (c \in Conn => host[c] \in OwnHost)
    BY DEF Queued
  <2>2. CASE c \in C
    BY <2>1, <2>2 DEF OpenSockets, Lingers
  <2>3. CASE c \notin C
    BY <2>1, <2>3
  <2> QED
    BY <2>2, <2>3
<1> QED
  BY <1>1, <1>2 DEF Queued, Distinct, Items

LEMMA WaitingSockets ==
  ASSUME TypeOK
  PROVE  Waiting \subseteq Conn \cup Rival
BY ElementOfSeq DEF TypeOK, Waiting, Items

\* An item more in front of a sequence without repetition, or the first gone.
LEMMA DistinctFront ==
  ASSUME NEW p, NEW q, Len(p) \in Nat, DOMAIN p = 1 .. Len(p), DOMAIN q = 1 .. 1 + Len(p),
         \A i \in 1 .. Len(p) : q[i + 1] = p[i] /\ p[i] # q[1], Distinct(p)
  PROVE  Distinct(q)
<1>0. PICK L \in Nat : L = Len(p)
  OBVIOUS
<1> SUFFICES ASSUME NEW k \in 1 .. 1 + L, NEW l \in 1 .. 1 + L, q[k] = q[l] PROVE k = l
  BY <1>0 DEF Distinct
<1>1. ASSUME NEW m \in 1 .. 1 + L, m # 1
      PROVE  m - 1 \in DOMAIN p /\ q[m] = p[m - 1] /\ q[m] # q[1]
  <2>1. m - 1 \in 1 .. L /\ (m - 1) + 1 = m
    BY <1>1
  <2> QED
    BY <1>0, <2>1
<1>2. CASE k = 1 \/ l = 1
  BY <1>1, <1>2
<1>3. CASE k # 1 /\ l # 1
  <2>1. p[k - 1] = p[l - 1] /\ k - 1 \in DOMAIN p /\ l - 1 \in DOMAIN p
    BY <1>1, <1>3
  <2>2. k - 1 = l - 1
    BY <2>1 DEF Distinct
  <2> QED
    BY <2>2
<1> QED
  BY <1>2, <1>3

LEMMA DistinctRest ==
  ASSUME NEW L \in Nat \ {0}, NEW p, NEW q, DOMAIN p = 1 .. L, DOMAIN q = 1 .. L - 1,
         \A i \in 1 .. L - 1 : q[i] = p[i + 1], Distinct(p)
  PROVE  Distinct(q)
<1> SUFFICES ASSUME NEW i \in 1 .. L - 1, NEW j \in 1 .. L - 1, q[i] = q[j] PROVE i = j
  BY DEF Distinct
<1>1. i + 1 \in DOMAIN p /\ j + 1 \in DOMAIN p /\ p[i + 1] = p[j + 1]
  OBVIOUS
<1>2. i + 1 = j + 1
  BY <1>1 DEF Distinct
<1> QED
  BY <1>2

\* A connection more at the head of the pool.
LEMMA PutIn ==
  ASSUME NEW c \in Conn, PoolOK, c \notin Pooled, g_pool_size < MaxPool,
         pool' = <<c>> \o pool, g_pool_size' = g_pool_size + 1, old' = old \ {c}
  PROVE  PoolOK' /\ Pooled' = Pooled \cup {c}
<1> DEFINE L == Len(pool)
<1>1. pool \in Seq(Conn) /\ L \in Nat /\ DOMAIN pool = 1 .. L
  BY LenProperties DEF PoolOK
<1>2. <<c>> \in Seq(Conn) /\ Len(<<c>>) = 1 /\ <<c>>[1] = c
  OBVIOUS
<1>3. /\ pool' \in Seq(Conn) /\ Len(pool') = 1 + L
      /\ \A i \in 1 .. 1 + L : pool'[i] = IF i <= 1 THEN <<c>>[i] ELSE pool[i - 1]
  BY <1>1, <1>2, ConcatProperties
<1>4. DOMAIN pool' = 1 .. 1 + L
  BY <1>3, LenProperties
<1>5. pool'[1] = c /\ \A i \in 1 .. L : pool'[i + 1] = pool[i]
  BY <1>1, <1>2, <1>3
<1>6. \A k \in 1 .. 1 + L : k = 1 \/ \E i \in 1 .. L : k = i + 1
  <2>1. ASSUME NEW k \in 1 .. 1 + L, k # 1 PROVE k - 1 \in 1 .. L /\ k = (k - 1) + 1
    BY <1>1, <2>1
  <2> QED
    BY <2>1
<1>7. \A i \in 1 .. L : pool[i] # c
  BY <1>1 DEF Pooled
<1> HIDE DEF L
<1>8. Distinct(pool')
  <2>1. Distinct(pool)
    BY DEF PoolOK
  <2>2. \A i \in 1 .. L : pool'[i + 1] = pool[i] /\ pool[i] # pool'[1]
    BY <1>5, <1>7
  <2> QED
    BY <1>1, <1>4, <2>1, <2>2, DistinctFront DEF L
<1>9. Pooled' = Pooled \cup {c}
  <2>1. Pooled' = {pool'[k] : k \in 1 .. 1 + L}
    BY <1>4 DEF Pooled
  <2>2. Pooled = {pool[i] : i \in 1 .. L}
    BY <1>1 DEF Pooled
  <2>3. \A i \in 1 .. L : i + 1 \in 1 .. 1 + L
    BY <1>1
  <2>4. 1 \in 1 .. 1 + L
    BY <1>1
  <2>5. ASSUME NEW k \in 1 .. 1 + L PROVE pool'[k] \in Pooled \cup {c}
    <3>1. CASE k = 1
      BY <1>5, <3>1
    <3>2. ASSUME NEW i \in 1 .. L, k = i + 1 PROVE pool'[k] \in Pooled \cup {c}
      BY <1>5, <2>2, <3>2
    <3> QED
      BY <1>6, <3>1, <3>2
  <2>6. ASSUME NEW d \in Pooled \cup {c} PROVE d \in Pooled'
    <3>1. CASE d = c
      BY <1>5, <2>1, <2>4, <3>1
    <3>2. ASSUME NEW i \in 1 .. L, d = pool[i] PROVE d \in Pooled'
      <4>1. i + 1 \in 1 .. 1 + L /\ d = pool'[i + 1]
        BY <1>5, <2>3, <3>2
      <4> QED
        BY <2>1, <4>1
    <3> QED
      BY <2>2, <3>1, <3>2
  <2> QED
    BY <2>1, <2>5, <2>6
<1>10. /\ g_pool_size' \in 0 .. MaxPool /\ g_pool_size' = Len(pool') /\ Len(pool') <= MaxPool
  <2>1. MaxPool \in Nat /\ g_pool_size = L
    BY SyncAssumption DEF PoolOK, L
  <2> QED
    BY <1>1, <1>3, <2>1
<1>11. old' \subseteq Conn
  BY DEF PoolOK
<1> QED
  BY <1>3, <1>8, <1>9, <1>10, <1>11 DEF PoolOK

\* The connection of the call goes into the pool or is closed.
LEMMA GivenBack ==
  ASSUME TypeOK, Owned, Queued, alive, NEW c, c \in Used, NEW ka, NEW left \in Seq(Answers),
         cwh_close(c, ka, left), UNCHANGED <<backlog, client_sock, host>>
  PROVE  PoolOK' /\ NetOK' /\ OpenSockets' = Pooled' /\ Queued'
<1>1. /\ PoolOK /\ NetOK /\ Pooled \subseteq Conn
      /\ OpenSockets = Used \cup Pooled /\ Used \cap Pooled = {} /\ Used = {c}
  BY PoolFacts DEF Used
<1>2. c \in OpenSockets /\ c \in Conn /\ c \notin Pooled
  BY <1>1 DEF OpenSockets
<1>3. CASE MayPool(ka)
  <2>1. PoolOK' /\ Pooled' = Pooled \cup {c}
    BY <1>1, <1>2, <1>3, PutIn DEF cwh_close, MayPool
  <2>2. UNCHANGED <<link, outbox, due>> /\ inbox' = [inbox EXCEPT ![c] = left]
    BY <1>3 DEF cwh_close
  <2>3. NetOK'
    BY <1>1, <1>2, <2>2 DEF NetOK
  <2>4. OpenSockets' = OpenSockets
    BY <2>2 DEF OpenSockets
  <2>5. Queued'
    BY <2>2 DEF Queued, Waiting, Items, Distinct
  <2> QED
    BY <1>1, <2>1, <2>3, <2>4, <2>5
<1>4. CASE ~MayPool(ka)
  <2>1. Hangup({c}) /\ UNCHANGED poolVars
    BY <1>4 DEF cwh_close
  <2>2. NetOK' /\ OpenSockets' = OpenSockets \ {c}
    BY <1>1, <1>2, <2>1, HungUp
  <2>3. PoolOK' /\ Pooled' = Pooled
    BY <1>1, <2>1 DEF PoolOK, poolVars, Pooled, Distinct
  <2>4. Queued'
    BY <1>1, <1>2, <2>1, WaitingSockets, HungUpQueued DEF Hangup
  <2> QED
    BY <1>1, <1>2, <2>2, <2>3, <2>4
<1> QED
  BY <1>3, <1>4

-----------------------------------------------------------------------------
(* Every step keeps PoolInv.                                               *)

CallOK   == alive \in BOOLEAN /\ call \in Calling \cup {Idle} /\ todo \in Seq(Calls)
ConnOK   == /\ keep_alive \in [Conn -> BOOLEAN] /\ host \in [Conn -> Host]
            /\ unsettled \subseteq Conn
ServerOK == /\ backlog \in Seq(Conn \cup Rival) /\ client_sock \in Conn \cup Rival \cup {NoConn}
            /\ answered \in BOOLEAN

LEMMA Parts == ASSUME TypeOK PROVE CallOK /\ NetOK /\ ConnOK /\ ServerOK
BY DEF TypeOK, CallOK, NetOK, ConnOK, ServerOK

\* What a step of the client has to show.
LEMMA Together ==
  ASSUME CallOK', NetOK', ConnOK', ServerOK', PoolOK', Connected', Queued',
         alive' => OpenSockets' = Used' \cup Pooled' /\ Used' \cap Pooled' = {}
  PROVE  PoolInv'
BY DEF PoolInv, TypeOK, CallOK, NetOK, ConnOK, ServerOK, PoolOK, Owned

\* The same for a step that leaves the pool and the call alone.
LEMMA Apart ==
  ASSUME PoolInv, NetOK', ConnOK', ServerOK', Queued', OpenSockets' = OpenSockets,
         UNCHANGED <<poolVars, alive, call, todo>>
  PROVE  PoolInv'
<1>1. TypeOK'
  BY DEF PoolInv, TypeOK, NetOK, ConnOK, ServerOK, poolVars
<1>2. Owned'
  BY DEF PoolInv, Owned, poolVars, Used, Pooled, Distinct
<1>3. Connected'
  BY DEF PoolInv, Connected
<1> QED
  BY <1>1, <1>2, <1>3 DEF PoolInv

LEMMA CallFacts ==
  ASSUME TypeOK, Connected, NEW phase \in {"connect", "send", "body", "read"}, In(phase)
  PROVE  /\ alive /\ call \in Calling /\ call # Idle /\ call.phase = phase
         /\ call.url \in Urls /\ call.url.host \in Host
         /\ phase = "connect" => Used = {}
         /\ phase # "connect" => Used = {call.conn} /\ call.conn \in Conn
<1>1. alive /\ call.phase = phase /\ call # Idle /\ call \in Calling
  BY DEF In, Idle, TypeOK
<1>2. call.url \in Urls /\ call.url.host \in Host
  BY <1>1 DEF Calling, Urls
<1> QED
  BY <1>1, <1>2 DEF Used, Connected

LEMMA ExpiredPooled ==
  ASSUME PoolOK, NEW h
  PROVE  /\ Expired(h) \subseteq Pooled
         /\ Fresh(h) # {} => /\ Found(h) \in Pooled \ Expired(h) /\ host[Found(h)] = h
<1>1. Expired(h) \subseteq Pooled
  BY DEF Expired, Matches, Pooled
<1>2. ASSUME Fresh(h) # {}
      PROVE  Found(h) \in Pooled \ Expired(h) /\ host[Found(h)] = h
  <2> DEFINE S == Fresh(h)
             first == CHOOSE i \in S : \A j \in S : i <= j
  <2>1. S \subseteq DOMAIN pool /\ S \subseteq Nat /\ S # {}
    BY <1>2, LenProperties DEF Fresh, Matches, PoolOK
  <2>2. \E i \in S : \A j \in S : i <= j
    <3> HIDE DEF S
    <3>1. PICK i \in S : \A j \in S : ~(<<j, i>> \in OpToRel(<, Nat))
      BY <2>1, WFMin, NatLessThanWellFounded
    <3>2. \A j \in S : ~(j < i)
      BY <2>1, <3>1 DEF OpToRel
    <3>3. \A j \in S : i <= j
      BY <2>1, <3>2
    <3> QED
      BY <3>3
  <2>3. first \in S
    <3> HIDE DEF S
    <3> QED
      BY <2>2
  <2>4. Found(h) = pool[first]
    BY DEF Found
  <2> HIDE DEF first
  <2>5. first \in DOMAIN pool /\ first \in Fresh(h) /\ host[pool[first]] = h
    BY <2>3 DEF Fresh, Matches
  <2>6. pool[first] \in Pooled
    BY <2>5 DEF Pooled
  <2>7. pool[first] \notin Expired(h)
    BY <2>5 DEF Expired, PoolOK, Distinct, Matches
  <2> QED
    BY <2>4, <2>5, <2>6, <2>7
<1> QED
  BY <1>1, <1>2

\* One more in the queue of cwh_run.
LEMMA Enqueued ==
  ASSUME backlog \in Seq(Conn \cup Rival), Distinct(backlog), NEW c \in Conn \cup Rival,
         c \notin Items(backlog), backlog' = Append(backlog, c)
  PROVE  /\ backlog' \in Seq(Conn \cup Rival) /\ Distinct(backlog')
         /\ Items(backlog') = Items(backlog) \cup {c}
<1>1. /\ backlog' \in Seq(Conn \cup Rival) /\ Len(backlog') = Len(backlog) + 1
      /\ backlog'[Len(backlog) + 1] = c
      /\ \A i \in 1 .. Len(backlog) : backlog'[i] = backlog[i]
  BY AppendProperties
<1>2. /\ Len(backlog) \in Nat
      /\ DOMAIN backlog = 1 .. Len(backlog) /\ DOMAIN backlog' = 1 .. Len(backlog) + 1
  BY <1>1, LenProperties
<1>3. \A i \in 1 .. Len(backlog) + 1 : i \in 1 .. Len(backlog) \/ i = Len(backlog) + 1
  BY <1>2
<1>4. \A i \in 1 .. Len(backlog) : backlog[i] # c
  BY <1>2 DEF Items
<1>5. Distinct(backlog')
  BY <1>1, <1>2, <1>3, <1>4 DEF Distinct
<1>6. Len(backlog) + 1 \in 1 .. Len(backlog) + 1 /\ 1 .. Len(backlog) \subseteq 1 .. Len(backlog) + 1
  BY <1>2
<1>7. /\ Items(backlog') = {backlog'[i] : i \in 1 .. Len(backlog) + 1}
      /\ Items(backlog) = {backlog[i] : i \in 1 .. Len(backlog)}
  BY <1>2 DEF Items
<1>8. \A i \in 1 .. Len(backlog) + 1 : backlog'[i] \in Items(backlog) \cup {c}
  BY <1>1, <1>3, <1>7
<1>9. \A i \in 1 .. Len(backlog) : backlog[i] \in Items(backlog')
  BY <1>1, <1>6, <1>7
<1>10. c \in Items(backlog')
  BY <1>1, <1>6, <1>7
<1> QED
  BY <1>1, <1>5, <1>7, <1>8, <1>9, <1>10

LEMMA BeginPool == ASSUME PoolInv, Begin PROVE PoolInv'
<1>1. TypeOK /\ Owned /\ Queued /\ alive /\ Connected
  BY DEF PoolInv, Begin, In
<1>2. Head(todo) \in Calls /\ Tail(todo) \in Seq(Calls)
  BY <1>1, HeadTailProperties DEF Begin, TypeOK
<1>3. Head(todo).url \in Urls /\ Head(todo).method \in {"GET", "POST"}
  BY <1>2, EmptySeq DEF Calls, Urls
<1>4. 0 \in 0 .. MaxRedirects - 1
  BY SyncAssumption
<1>5. call' \in Calling /\ call'.phase = "connect"
  BY <1>3, <1>4 DEF Begin, Calling
<1>6. call = Idle
  BY <1>1 DEF Begin, In, TypeOK, Calling
<1>7. /\ OpenSockets' = OpenSockets /\ Pooled' = Pooled /\ Used = {} /\ Used' = {}
      /\ CallOK' /\ NetOK' /\ ConnOK' /\ ServerOK' /\ PoolOK' /\ Queued' /\ Connected'
  <2>1. OpenSockets' = OpenSockets /\ Pooled' = Pooled /\ Used = {} /\ Used' = {}
    BY <1>5, <1>6 DEF Begin, netVars, poolVars, OpenSockets, Pooled, Used
  <2>2. CallOK' /\ Connected'
    BY <1>1, <1>2, <1>5 DEF Begin, CallOK, Connected
  <2>3. NetOK' /\ ConnOK' /\ ServerOK'
    BY <1>1, Parts DEF Begin, NetOK, ConnOK, ServerOK, netVars, connVars, serverVars
  <2>4. PoolOK'
    BY <1>1, PoolFacts DEF Begin, PoolOK, poolVars, Distinct
  <2>5. Queued'
    BY <1>1 DEF Begin, Queued, Waiting, Items, Distinct, netVars, connVars, serverVars
  <2> QED
    BY <2>1, <2>2, <2>3, <2>4, <2>5
<1> QED
  BY <1>1, <1>7, PoolFacts, Together

LEMMA ReusePool == ASSUME PoolInv, Reuse PROVE PoolInv'
<1> DEFINE h == call.url.host
           c == Found(h)
           gone == Expired(h)
<1>1. TypeOK /\ Owned /\ Queued /\ Connected /\ In("connect") /\ Fresh(h) # {}
  BY DEF PoolInv, Reuse
<1>2. alive /\ call \in Calling /\ Used = {}
  BY <1>1, CallFacts
<1>3. /\ PoolOK /\ NetOK /\ Pooled \subseteq Conn
      /\ OpenSockets = Used \cup Pooled
  BY <1>1, <1>2, PoolFacts
<1>4. gone \subseteq Pooled /\ c \in Pooled \ gone
  BY <1>1, <1>3, ExpiredPooled
<1>5. /\ call' = [call EXCEPT !.phase = "send", !.conn = c]
      /\ PoolWithout(gone \cup {c}) /\ Hangup(gone)
      /\ UNCHANGED <<alive, todo, unsettled, connVars, serverVars>>
  BY DEF Reuse
<1> HIDE DEF c, gone, h
<1>6. PoolOK' /\ Pooled' = Pooled \ (gone \cup {c})
  BY <1>1, <1>2, <1>4, <1>5, TakenOut
<1>7. NetOK' /\ OpenSockets' = OpenSockets \ gone
  BY <1>2, <1>3, <1>4, <1>5, HungUp
<1>8. Queued'
  BY <1>1, <1>2, <1>3, <1>4, <1>5, WaitingSockets, HungUpQueued
     DEF Hangup, serverVars, connVars
<1>9. call' \in Calling /\ call'.phase = "send" /\ call'.conn = c /\ c \in Conn
  BY <1>2, <1>3, <1>4, <1>5 DEF Calling
<1>10. CallOK' /\ Connected' /\ Used' = {c}
  BY <1>1, <1>2, <1>5, <1>9, Parts DEF CallOK, Connected, Used, Idle
<1>11. ConnOK' /\ ServerOK'
  BY <1>1, <1>5, Parts DEF ConnOK, ServerOK, connVars, serverVars
<1>12. OpenSockets' = Used' \cup Pooled' /\ Used' \cap Pooled' = {}
  BY <1>2, <1>3, <1>4, <1>6, <1>7, <1>10
<1> QED
  BY <1>6, <1>7, <1>8, <1>10, <1>11, <1>12, Together

LEMMA OpenPool == ASSUME PoolInv, Open PROVE PoolInv'
<1> DEFINE h == call.url.host
           gone == Expired(h)
<1>1. TypeOK /\ Owned /\ Queued /\ Connected /\ In("connect")
  BY DEF PoolInv, Open
<1>2. alive /\ call \in Calling /\ Used = {} /\ h \in Host
  BY <1>1, CallFacts
<1>3. /\ PoolOK /\ NetOK /\ Pooled \subseteq Conn
      /\ OpenSockets = Used \cup Pooled
  BY <1>1, <1>2, PoolFacts
<1>4. gone \subseteq Pooled
  BY <1>3, ExpiredPooled
<1>5. PICK c \in Conn :
        /\ link[c] = "none"
        /\ PoolWithout(gone)
        /\ call' = [call EXCEPT !.phase = "send", !.conn = c]
        /\ host' = [host EXCEPT ![c] = h]
        /\ keep_alive' = [keep_alive EXCEPT ![c] = FALSE]
        /\ unsettled' = unsettled \ {c}
        /\ link' = [d \in Conn \cup Rival |->
                      IF d = c THEN "up" ELSE IF d \notin gone THEN link[d]
                      ELSE IF Lingers(d) THEN "left" ELSE "none"]
        /\ inbox' = [d \in Conn |-> IF d \in gone \cup {c} THEN <<>> ELSE inbox[d]]
        /\ outbox' = [d \in Conn |-> IF d \in gone /\ ~Lingers(d) THEN <<>> ELSE outbox[d]]
        /\ due' = [d \in Conn |-> IF d \in gone THEN <<>> ELSE due[d]]
        /\ backlog' = IF h \in OwnHost THEN Append(backlog, c) ELSE backlog
  BY DEF Open
<1>6. UNCHANGED <<alive, todo, client_sock, answered>>
  BY DEF Open
<1> HIDE DEF gone, h
<1>7. c \notin OpenSockets /\ c \notin gone /\ c \notin Pooled
  BY <1>3, <1>4, <1>5 DEF OpenSockets
<1>8. PoolOK' /\ Pooled' = Pooled \ gone
  BY <1>1, <1>2, <1>4, <1>5, TakenOut
<1>9. NetOK'
  <2>1. link' \in [Conn \cup Rival -> Links]
    BY <1>3, <1>5 DEF NetOK, Links
  <2>2. /\ inbox' \in [Conn -> Seq(Answers)] /\ due' \in [Conn -> Seq(Answers)]
        /\ outbox' \in [Conn -> Seq(Requests)]
    BY <1>3, <1>5, EmptySeq DEF NetOK
  <2> QED
    BY <2>1, <2>2 DEF NetOK
<1>10. OpenSockets' = (OpenSockets \ gone) \cup {c}
  <2>1. \A d \in Conn : link'[d] = IF d = c THEN "up" ELSE IF d \notin gone THEN link[d]
                                   ELSE IF Lingers(d) THEN "left" ELSE "none"
    BY <1>5
  <2> QED
    BY <2>1 DEF OpenSockets
<1>11. call' \in Calling /\ call'.phase = "send" /\ call'.conn = c
  BY <1>2, <1>5 DEF Calling
<1>12. CallOK' /\ Connected' /\ Used' = {c}
  BY <1>1, <1>2, <1>6, <1>11, Parts DEF CallOK, Connected, Used, Idle
<1>13. backlog \in Seq(Conn \cup Rival) /\ Len(backlog) \in Nat /\ Waiting \subseteq Conn \cup Rival
  BY <1>1, WaitingSockets, LenProperties DEF TypeOK
<1>14. ConnOK' /\ ServerOK'
  <2>1. backlog' \in Seq(Conn \cup Rival)
    BY <1>5, <1>13, AppendProperties
  <2> QED
    BY <1>1, <1>2, <1>5, <1>6, <2>1, Parts DEF ConnOK, ServerOK
<1>15. c \notin Waiting
  BY <1>1, <1>5 DEF Queued
<1>16. Distinct(backlog') /\ Items(backlog') = Items(backlog) \cup (IF h \in OwnHost THEN {c} ELSE {})
  <2>1. CASE h \in OwnHost
    <3>1. c \notin Items(backlog)
      BY <1>15 DEF Waiting
    <3> QED
      BY <1>1, <1>5, <1>13, <2>1, <3>1, Enqueued DEF Queued
  <2>2. CASE h \notin OwnHost
    BY <1>1, <1>5, <2>2 DEF Queued
  <2> QED
    BY <2>1, <2>2
<1>17. Queued'
  <2>1. Waiting' = Waiting \cup (IF h \in OwnHost THEN {c} ELSE {})
    BY <1>6, <1>16 DEF Waiting
  <2>2. client_sock' \notin Items(backlog')
    <3>1. c # client_sock
      BY <1>15, <1>5, SyncAssumption DEF Waiting
    <3> QED
      BY <1>1, <1>6, <1>16, <3>1 DEF Queued
  <2>3. ASSUME NEW d \in Waiting
        PROVE  link'[d] \in {"up", "left"} /\ (d \in Conn => host'[d] \in OwnHost)
    <3>1. d \in Conn \cup Rival /\ d # c
      BY <1>13, <1>15
    <3>2. link[d] \in {"up", "left"} /\ (d \in Conn => host[d] \in OwnHost)
      BY <1>1 DEF Queued
    <3>3. host'[d] = host[d]
      BY <1>1, <1>5, <3>1 DEF TypeOK
    <3>4. d \in gone => link[d] = "up" /\ Lingers(d)
      BY <1>2, <1>3, <1>4, <3>2 DEF OpenSockets, Lingers
    <3> QED
      BY <1>5, <3>1, <3>2, <3>3, <3>4
  <2>4. link'[c] = "up" /\ host'[c] = h
    BY <1>1, <1>5 DEF TypeOK
  <2>5. \A d \in Waiting' : link'[d] \in {"up", "left"} /\ (d \in Conn => host'[d] \in OwnHost)
    BY <2>1, <2>3, <2>4
  <2> QED
    BY <1>16, <2>2, <2>5 DEF Queued
<1>18. OpenSockets' = Used' \cup Pooled' /\ Used' \cap Pooled' = {}
  BY <1>2, <1>3, <1>4, <1>7, <1>8, <1>10, <1>12
<1> QED
  BY <1>8, <1>9, <1>12, <1>14, <1>17, <1>18, Together

LEMMA OpenFailsPool == ASSUME PoolInv, OpenFails PROVE PoolInv'
<1> DEFINE gone == Expired(call.url.host)
<1>1. TypeOK /\ Owned /\ Queued /\ Connected /\ In("connect")
  BY DEF PoolInv, OpenFails
<1>2. alive /\ Used = {}
  BY <1>1, CallFacts
<1>3. PoolOK /\ NetOK /\ OpenSockets = Used \cup Pooled
  BY <1>1, <1>2, PoolFacts
<1>4. gone \subseteq Pooled
  BY <1>3, ExpiredPooled
<1>5. /\ call' = Idle /\ PoolWithout(gone) /\ Hangup(gone)
      /\ UNCHANGED <<alive, todo, unsettled, connVars, serverVars>>
  BY DEF OpenFails, Return
<1> HIDE DEF gone
<1>6. PoolOK' /\ Pooled' = Pooled \ gone
  BY <1>1, <1>2, <1>4, <1>5, TakenOut
<1>7. NetOK' /\ OpenSockets' = OpenSockets \ gone
  BY <1>2, <1>3, <1>4, <1>5, HungUp
<1>8. Queued'
  BY <1>1, <1>2, <1>3, <1>4, <1>5, WaitingSockets, HungUpQueued
     DEF Hangup, serverVars, connVars
<1>9. CallOK' /\ Connected' /\ Used' = {}
  BY <1>1, <1>5, Parts DEF CallOK, Connected, Used
<1>10. ConnOK' /\ ServerOK'
  BY <1>1, <1>5, Parts DEF ConnOK, ServerOK, connVars, serverVars
<1> QED
  BY <1>2, <1>3, <1>6, <1>7, <1>8, <1>9, <1>10, Together

LEMMA SendPool ==
  ASSUME PoolInv, NEW part \in {"head", "body"}, Send(part) \/ SendRefused(part)
  PROVE  PoolInv'
<1>1. TypeOK /\ Owned /\ Queued /\ Connected
  BY DEF PoolInv
<1>2. PICK phase \in {"send", "body"} : In(phase)
  BY DEF Send, SendRefused, SendPhase
<1>3. /\ alive /\ call \in Calling /\ call # Idle /\ call.phase = phase
      /\ call.url \in Urls /\ Used = {call.conn} /\ call.conn \in Conn
  BY <1>1, <1>2, CallFacts
<1>4. /\ PoolOK /\ NetOK /\ OpenSockets = Used \cup Pooled /\ Used \cap Pooled = {}
  BY <1>1, <1>3, PoolFacts
<1>5. /\ Go(AfterSend(part)) /\ AfterSend(part) \in {"body", "read"}
      /\ UNCHANGED <<alive, todo, unsettled, poolVars, connVars, serverVars, inbox, due>>
  BY DEF Send, SendRefused, AfterSend
<1>6. call' \in Calling /\ call'.phase \in {"body", "read"} /\ call'.conn = call.conn /\ call' # Idle
  BY <1>3, <1>5 DEF Go, Calling, Idle
<1>7. CallOK' /\ Connected' /\ Used' = Used
  BY <1>1, <1>3, <1>5, <1>6, Parts DEF CallOK, Connected, Used
<1>8. PoolOK' /\ Pooled' = Pooled /\ ConnOK' /\ ServerOK'
  BY <1>1, <1>4, <1>5, Parts
     DEF PoolOK, Distinct, Pooled, ConnOK, ServerOK, poolVars, connVars, serverVars
<1>9. NetOK' /\ OpenSockets' = OpenSockets /\ Queued'
  <2>1. CASE Send(part)
    <3>1. Request(part) \in Requests
      <4>1. Len(todo) \in Nat
        BY <1>1, LenProperties DEF TypeOK
      <4>2. call.redirect_count \in Nat /\ HasBody \in BOOLEAN
        BY <1>3, SyncAssumption DEF Calling, HasBody
      <4> QED
        BY <1>3, <4>1, <4>2 DEF Request, Requests
    <3>2. outbox' = [outbox EXCEPT ![call.conn] = Append(@, Request(part))] /\ link' = link
      BY <2>1 DEF Send
    <3>3. Append(outbox[call.conn], Request(part)) \in Seq(Requests)
      BY <1>3, <1>4, <3>1, AppendProperties DEF NetOK
    <3>4. NetOK'
      BY <1>4, <1>5, <3>2, <3>3 DEF NetOK
    <3>5. OpenSockets' = OpenSockets /\ Queued'
      BY <1>1, <1>5, <3>2
         DEF OpenSockets, Queued, Waiting, Items, Distinct, connVars, serverVars
    <3> QED
      BY <3>4, <3>5
  <2>2. CASE SendRefused(part)
    <3>1. PICK l \in {"fin", "reset"} :
            /\ link[call.conn] = "fin" /\ link' = [link EXCEPT ![call.conn] = l]
            /\ UNCHANGED outbox
      BY <2>2 DEF SendRefused
    <3>2. NetOK'
      BY <1>3, <1>4, <1>5, <3>1 DEF NetOK, Links
    <3>3. /\ link'[call.conn] \in {"fin", "reset"}
          /\ \A c \in Conn \cup Rival : c # call.conn => link'[c] = link[c]
      BY <1>3, <1>4, <3>1 DEF NetOK
    <3>4. OpenSockets' = OpenSockets
      BY <1>3, <3>1, <3>3 DEF OpenSockets
    <3>5. Queued'
      <4>1. call.conn \notin Waiting /\ Waiting \subseteq Conn \cup Rival
        BY <1>1, <3>1, WaitingSockets DEF Queued
      <4> QED
        BY <1>1, <1>5, <3>3, <4>1
           DEF Queued, Waiting, Items, Distinct, connVars, serverVars
    <3> QED
      BY <3>2, <3>4, <3>5
  <2> QED
    BY <2>1, <2>2
<1> QED
  BY <1>4, <1>7, <1>8, <1>9, Together

\* The call has an error or the last answer, or goes on elsewhere.
LEMMA GiveBackPool ==
  ASSUME PoolInv, NEW phase \in {"send", "body", "read"}, In(phase),
         NEW ka, NEW left \in Seq(Answers), cwh_close(call.conn, ka, left),
         call' = Idle \/ (call' \in Calling /\ call'.phase = "connect"),
         keep_alive' \in [Conn -> BOOLEAN], unsettled' \subseteq Conn,
         UNCHANGED <<alive, todo, host, serverVars>>
  PROVE  PoolInv'
<1>1. TypeOK /\ Owned /\ Queued /\ Connected
  BY DEF PoolInv
<1>2. alive /\ call.conn \in Used
  BY <1>1, CallFacts
<1>3. PoolOK' /\ NetOK' /\ OpenSockets' = Pooled' /\ Queued'
  BY <1>1, <1>2, GivenBack DEF serverVars
<1>4. CallOK' /\ Connected' /\ Used' = {}
  BY <1>1, Parts DEF CallOK, Connected, Used, Idle
<1>5. ConnOK' /\ ServerOK'
  BY <1>1, Parts DEF ConnOK, ServerOK, serverVars
<1> QED
  BY <1>3, <1>4, <1>5, Together

LEMMA FailPool ==
  ASSUME PoolInv, NEW phase \in {"send", "body", "read"}, In(phase), NEW err, Fail(err)
  PROVE  PoolInv'
<1>1. call.conn \in Conn /\ inbox[call.conn] \in Seq(Answers)
  BY CallFacts DEF PoolInv, TypeOK
<1> QED
  BY <1>1, GiveBackPool DEF Fail, Return, PoolInv, TypeOK, connVars

LEMMA ReadGarbagePool == ASSUME PoolInv, ReadGarbage PROVE PoolInv'
<1>1. In("read") /\ TypeOK /\ Connected
  BY DEF ReadGarbage, PoolInv
<1>2. call.conn \in Conn /\ <<>> \in Seq(Answers)
  BY <1>1, CallFacts, EmptySeq
<1>3. keep_alive' \in [Conn -> BOOLEAN] /\ unsettled' \subseteq Conn
  BY <1>1, <1>2 DEF ReadGarbage, TypeOK, connVars
<1> QED
  BY <1>1, <1>2, <1>3, GiveBackPool DEF ReadGarbage, Return, connVars

\* The URL a redirect leads to.
LEMMA RedirectType ==
  ASSUME call \in Calling, NEW loc \in Locations, NEW tail \in Tails
  PROVE  RedirectUrl(loc, tail) \in Urls
<1>1. tail \in STRING /\ loc.host \in Host /\ loc.path \in STRING /\ loc.query \in BOOLEAN
  BY SyncAssumption DEF Locations
<1>2. /\ call.url.host \in Host /\ call.url.path \in STRING /\ call.url.query \in BOOLEAN
      /\ call.url.tail \in Seq(STRING)
  BY DEF Calling, Urls
<1>3. <<tail>> \in Seq(STRING) /\ <<loc.path, tail>> \in Seq(STRING)
  BY <1>1
<1>4. call.url.tail \o <<loc.path, tail>> \in Seq(STRING)
  BY <1>2, <1>3, ConcatProperties
<1>5. Mangled \in STRING
  BY SyncAssumption
<1>6. Url(loc.host, loc.path, loc.query, <<tail>>) \in Urls
  BY <1>1, <1>3 DEF Url, Urls
<1>7. Url(call.url.host, IF call.url.query THEN call.url.path ELSE Mangled,
          call.url.query \/ loc.query, call.url.tail \o <<loc.path, tail>>) \in Urls
  BY <1>1, <1>2, <1>4, <1>5 DEF Url, Urls
<1> QED
  BY <1>6, <1>7 DEF RedirectUrl

\* The answer that is read.
LEMMA HeadRead ==
  ASSUME TypeOK, Connected, Read
  PROVE  Head(inbox[call.conn]) \in Heads /\ inbox[call.conn] # <<>> /\ call.conn \in Conn
<1>1. In("read") /\ inbox[call.conn] # <<>> /\ Head(inbox[call.conn]).part = "head"
  BY DEF Read
<1>2. call.conn \in Conn /\ inbox[call.conn] \in Seq(Answers)
  BY <1>1, CallFacts DEF TypeOK
<1>3. Head(inbox[call.conn]) \in Answers
  BY <1>1, <1>2, HeadTailProperties, EmptySeq
<1> QED
  BY <1>1, <1>2, <1>3 DEF Answers

\* After an answer the call is over, or it goes on with a URL not met before.
Goes(u, m) ==
  /\ u \notin call.visited \cup {call.url}
  /\ call' = [call EXCEPT !.phase = "connect", !.url = u, !.conn = NoConn, !.method = m,
                          !.redirect_count = @ + 1, !.visited = @ \cup {call.url}]

LEMMA ReadGoes ==
  ASSUME TypeOK, Connected, Read
  PROVE  \/ call' = Idle
         \/ /\ call.redirect_count + 1 \in 0 .. MaxRedirects - 1
            /\ \E u \in Urls, m \in {"GET", "POST"} : Goes(u, m)
<1> DEFINE res == Head(inbox[call.conn])
<1>1. call \in Calling /\ res \in Heads
  BY CallFacts, HeadRead DEF Read
<1>2. Return("OK") \/ Redirect(res)
  BY DEF Read
<1> HIDE DEF res
<1>3. SUFFICES ASSUME call' # Idle
               PROVE  /\ call.redirect_count + 1 \in 0 .. MaxRedirects - 1
                      /\ \E u \in Urls, m \in {"GET", "POST"} : Goes(u, m)
  OBVIOUS
<1>4. Redirect(res)
  BY <1>2, <1>3 DEF Return
<1>5. PICK tail \in Tails :
        LET u == RedirectUrl(res.location, tail) IN
          /\ res.location # NoLocation
          /\ ~(Seen(u) \/ call.redirect_count + 1 = MaxRedirects)
          /\ call' = [call EXCEPT
                        !.phase = "connect", !.url = u, !.conn = NoConn,
                        !.method = get_redirect_method(res.status),
                        !.redirect_count = @ + 1, !.visited = @ \cup {call.url}]
  BY <1>3, <1>4 DEF Redirect, Return
<1> DEFINE u == RedirectUrl(res.location, tail)
           m == get_redirect_method(res.status)
<1>6. res.location \in Locations
  BY <1>1, <1>5 DEF Heads
<1>7. u \in Urls
  BY <1>1, <1>6, RedirectType
<1>8. call.redirect_count + 1 \in 0 .. MaxRedirects - 1
  BY <1>1, <1>5, SyncAssumption DEF Calling
<1>9. m \in {"GET", "POST"}
  BY <1>1 DEF get_redirect_method, Calling
<1>10. Goes(u, m)
  BY <1>5 DEF Goes, Seen
<1> HIDE DEF u, m
<1> QED
  BY <1>7, <1>8, <1>9, <1>10

LEMMA ReadPool == ASSUME PoolInv, Read PROVE PoolInv'
<1> DEFINE c == call.conn
<1>1. TypeOK /\ Connected /\ In("read")
  BY DEF PoolInv, Read
<1>2. c \in Conn /\ call \in Calling
  BY <1>1, CallFacts
<1>3. /\ keep_alive' = [keep_alive EXCEPT ![c] = TRUE] /\ cwh_close(c, TRUE, <<>>)
      /\ unsettled' \in {unsettled \ {c}, unsettled \cup {c}}
      /\ UNCHANGED <<alive, todo, host, serverVars>>
  BY DEF Read, KeepAliveAfter
<1> HIDE DEF c
<1>4. call' = Idle \/ (call' \in Calling /\ call'.phase = "connect")
  <2>1. ASSUME call.redirect_count + 1 \in 0 .. MaxRedirects - 1,
               NEW u \in Urls, NEW m \in {"GET", "POST"}, Goes(u, m)
        PROVE  call' \in Calling /\ call'.phase = "connect"
    <3>1. call.visited \cup {call.url} \in SUBSET Urls
      BY <1>2 DEF Calling
    <3> QED
      BY <1>2, <2>1, <3>1 DEF Goes, Calling
  <2> QED
    BY <1>1, <2>1, ReadGoes DEF Read
<1>5. keep_alive' \in [Conn -> BOOLEAN] /\ unsettled' \subseteq Conn /\ <<>> \in Seq(Answers)
  BY <1>1, <1>2, <1>3, EmptySeq DEF TypeOK
<1> QED
  BY <1>1, <1>3, <1>4, <1>5, GiveBackPool DEF c

LEMMA KilledPool == ASSUME PoolInv, Killed PROVE PoolInv'
<1>1. TypeOK /\ Owned /\ Queued /\ Connected
  BY DEF PoolInv
<1>2. PICK phase \in {"send", "body"} : In(phase)
  BY DEF Killed, In
<1>3. alive /\ call.conn \in Conn /\ Used = {call.conn} /\ call \in Calling
  BY <1>1, <1>2, CallFacts
<1>4. PoolOK /\ NetOK /\ OpenSockets = Used \cup Pooled
  BY <1>1, <1>3, PoolFacts
<1>5. /\ alive' = FALSE /\ Hangup({call.conn} \cup Pooled)
      /\ UNCHANGED <<call, todo, unsettled, poolVars, connVars, serverVars>>
  BY DEF Killed, Pooled
<1>6. {call.conn} \cup Pooled \subseteq OpenSockets
  BY <1>3, <1>4
<1>7. NetOK'
  BY <1>4, <1>5, <1>6, HungUp
<1>8. Queued'
  BY <1>1, <1>4, <1>5, <1>6, WaitingSockets, HungUpQueued DEF Hangup, serverVars, connVars
<1>9. CallOK' /\ Connected'
  BY <1>1, <1>5, Parts DEF CallOK, Connected
<1>10. ConnOK' /\ ServerOK' /\ PoolOK'
  BY <1>1, <1>4, <1>5, Parts
     DEF ConnOK, ServerOK, PoolOK, Distinct, connVars, serverVars, poolVars
<1> QED
  BY <1>5, <1>7, <1>8, <1>9, <1>10, Together

LEMMA AgePool == ASSUME PoolInv, Age PROVE PoolInv'
<1>1. TypeOK /\ Owned /\ Queued /\ Connected /\ alive
  BY DEF PoolInv, Age
<1>2. pool \in Seq(Conn) /\ DOMAIN pool = 1 .. Len(pool) /\ \A i \in 1 .. Len(pool) : pool[i] \in Conn
  BY <1>1, ElementOfSeq, LenProperties DEF TypeOK
<1>3. PICK k \in DOMAIN pool : old' = old \cup {pool[i] : i \in k .. Len(pool)}
  BY DEF Age
<1>4. k .. Len(pool) \subseteq 1 .. Len(pool)
  BY <1>2, LenProperties
<1>5. old' \subseteq Conn
  BY <1>1, <1>2, <1>3, <1>4 DEF TypeOK
<1>6. UNCHANGED <<pool, g_pool_size, connVars, callVars, serverVars, netVars>>
  BY DEF Age
<1>7. TypeOK'
  BY <1>1, <1>5, <1>6 DEF TypeOK, connVars, callVars, serverVars, netVars
<1>8. Owned' /\ Queued' /\ Connected'
  BY <1>1, <1>6 DEF Owned, OpenSockets, Used, Pooled, Distinct, Queued, Waiting, Items, Connected,
                    connVars, callVars, serverVars, netVars
<1> QED
  BY <1>7, <1>8 DEF PoolInv

LEMMA CleanupPool == ASSUME PoolInv, cwh_pool_cleanup PROVE PoolInv'
<1>1. TypeOK /\ Owned /\ Queued /\ Connected /\ alive /\ call = Idle /\ Used = {}
  BY DEF PoolInv, cwh_pool_cleanup, Used
<1>2. PoolOK /\ NetOK /\ OpenSockets = Used \cup Pooled
  BY <1>1, PoolFacts
<1>3. /\ Hangup(Pooled) /\ pool' = <<>> /\ g_pool_size' = 0 /\ old' = {}
      /\ UNCHANGED <<connVars, callVars, serverVars>>
  BY DEF cwh_pool_cleanup, Pooled
<1>4. NetOK' /\ OpenSockets' = OpenSockets \ Pooled
  BY <1>1, <1>2, <1>3, HungUp
<1>5. Queued'
  BY <1>1, <1>2, <1>3, WaitingSockets, HungUpQueued DEF Hangup, serverVars, connVars
<1>6. PoolOK' /\ Pooled' = {}
  <2>1. Len(<<>>) = 0 /\ <<>> \in Seq(Conn) /\ DOMAIN <<>> = {}
    BY EmptySeq
  <2>2. Pooled' = {}
    BY <1>3, <2>1 DEF Pooled
  <2> QED
    BY <1>3, <2>1, <2>2, SyncAssumption DEF PoolOK, Distinct
<1>7. CallOK' /\ Connected' /\ Used' = {} /\ ConnOK' /\ ServerOK'
  BY <1>1, <1>3, Parts
     DEF CallOK, Connected, Used, ConnOK, ServerOK, connVars, callVars, serverVars
<1> QED
  BY <1>1, <1>2, <1>4, <1>5, <1>6, <1>7, Together

\* The other server answers, goes on with its answer or closes: nothing of
\* cwh_run's.
LEMMA OtherServer ==
  ASSUME PoolInv, NEW c \in Conn, host[c] \notin OwnHost \/ link' = link, link[c] = "up",
         NEW l \in {"up", "fin", "reset"}, link' = [link EXCEPT ![c] = l],
         inbox' \in [Conn -> Seq(Answers)], outbox' \in [Conn -> Seq(Requests)],
         due' \in [Conn -> Seq(Answers)],
         UNCHANGED <<poolVars, connVars, callVars, serverVars>>
  PROVE  PoolInv'
<1>1. TypeOK /\ Queued
  BY DEF PoolInv
<1>2. NetOK'
  BY <1>1 DEF TypeOK, NetOK, Links
<1>3. /\ link'[c] = l /\ \A d \in Conn \cup Rival : d # c => link'[d] = link[d]
  BY <1>1 DEF TypeOK
<1>4. OpenSockets' = OpenSockets
  BY <1>3 DEF OpenSockets
<1>5. Queued'
  <2>1. c \notin Waiting \/ link' = link
    BY <1>1 DEF Queued
  <2> QED
    BY <1>1, <1>3, <2>1, WaitingSockets
       DEF Queued, Waiting, Items, Distinct, serverVars, connVars
<1>6. ConnOK' /\ ServerOK'
  BY <1>1 DEF TypeOK, ConnOK, ServerOK, connVars, callVars, serverVars
<1> QED
  BY <1>2, <1>4, <1>5, <1>6, Apart DEF callVars

\* A request and its answers.
LEMMA AnswerType ==
  ASSUME NEW req \in Requests, NEW status \in {"page", "moved", "kept", "bad"},
         NEW loc \in Locations \cup {NoLocation}, NEW close \in BOOLEAN
  PROVE  /\ Answer(req, status, loc, close) \in Answers /\ Rest(req) \in Answers
         /\ <<Answer(req, status, loc, close)>> \in Seq(Answers) /\ <<Rest(req)>> \in Seq(Answers)
         /\ <<Answer(req, status, loc, close), Rest(req)>> \in Seq(Answers)
<1>1. Answer(req, status, loc, close) \in Answers /\ Rest(req) \in Answers
  BY DEF Answer, Rest, Answers, Heads
<1> QED
  BY <1>1

LEMMA FirstRequest ==
  ASSUME TypeOK, NEW c \in Conn, outbox[c] # <<>>
  PROVE  /\ Head(outbox[c]) \in Requests /\ outbox[c] \in Seq(Requests)
         /\ Len(outbox[c]) \in Nat /\ Head(outbox[c]) = outbox[c][1] /\ 1 \in DOMAIN outbox[c]
<1>1. outbox[c] \in Seq(Requests) /\ Len(outbox[c]) \in Nat /\ Len(outbox[c]) # 0
  BY EmptySeq, LenProperties DEF TypeOK
<1>2. Head(outbox[c]) \in Requests /\ Head(outbox[c]) = outbox[c][1]
  BY <1>1, HeadTailProperties, EmptySeq
<1>3. 1 \in DOMAIN outbox[c]
  BY <1>1, LenProperties
<1> QED
  BY <1>1, <1>2, <1>3

LEMMA RespondPool == ASSUME PoolInv, NEW c \in Conn, Respond(c) PROVE PoolInv'
<1> DEFINE req == Head(outbox[c])
           n   == IF req.body THEN 2 ELSE 1
           to  == IF req.url.path \in DOMAIN Location THEN Location[req.url.path] ELSE {}
<1>1. TypeOK /\ outbox[c] # <<>> /\ host[c] \notin OwnHost /\ link[c] = "up"
  BY DEF PoolInv, Respond
<1>2. req \in Requests /\ outbox[c] \in Seq(Requests) /\ Len(outbox[c]) \in Nat
  BY <1>1, FirstRequest
<1>3. to \subseteq Locations \cup {NoLocation}
  BY SyncAssumption
<1>4. PICK status \in (IF ~WellFormed(req.url) THEN {"bad"}
                       ELSE IF to = {} THEN {"page"} ELSE {"moved", "kept"}),
           loc \in (IF WellFormed(req.url) /\ to # {} THEN to ELSE {NoLocation}),
           close \in BOOLEAN, late \in BOOLEAN :
        /\ inbox' = [inbox EXCEPT ![c] = @ \o <<Answer(req, status, loc, close)>>
                                           \o (IF late THEN <<>> ELSE <<Rest(req)>>)]
        /\ due' = [due EXCEPT ![c] = IF late THEN <<Rest(req)>> ELSE <<>>]
        /\ link' = [link EXCEPT ![c] = IF close THEN "fin" ELSE "up"]
  BY DEF Respond
<1>5. /\ outbox' = [outbox EXCEPT ![c] = SubSeq(@, n + 1, Len(@))] /\ n <= Len(outbox[c])
      /\ UNCHANGED <<poolVars, connVars, callVars, serverVars>>
  BY DEF Respond
<1>6. /\ status \in {"page", "moved", "kept", "bad"} /\ loc \in Locations \cup {NoLocation}
  BY <1>3, <1>4
<1> HIDE DEF req, to
<1>7. <<Answer(req, status, loc, close)>> \in Seq(Answers) /\ <<Rest(req)>> \in Seq(Answers)
      /\ <<>> \in Seq(Answers)
  BY <1>2, <1>6, AnswerType, EmptySeq
<1>8. inbox' \in [Conn -> Seq(Answers)] /\ due' \in [Conn -> Seq(Answers)]
  <2>1. inbox \in [Conn -> Seq(Answers)] /\ due \in [Conn -> Seq(Answers)]
    BY <1>1 DEF TypeOK
  <2>2. inbox[c] \o <<Answer(req, status, loc, close)>> \in Seq(Answers)
    BY <1>7, <2>1, ConcatProperties
  <2>3. inbox[c] \o <<Answer(req, status, loc, close)>>
          \o (IF late THEN <<>> ELSE <<Rest(req)>>) \in Seq(Answers)
    BY <1>7, <2>2, ConcatProperties
  <2> QED
    BY <1>4, <1>7, <2>1, <2>3
<1>9. outbox' \in [Conn -> Seq(Requests)]
  <2>1. n \in Nat /\ n + 1 \in Int /\ n + 1 >= 1
    OBVIOUS
  <2> HIDE DEF n
  <2>2. \A i \in n + 1 .. Len(outbox[c]) : outbox[c][i] \in Requests
    <3>1. \A i \in n + 1 .. Len(outbox[c]) : i \in 1 .. Len(outbox[c])
      BY <1>2, <2>1
    <3> QED
      BY <1>2, <3>1, ElementOfSeq
  <2>3. SubSeq(outbox[c], n + 1, Len(outbox[c])) \in Seq(Requests)
    BY <1>2, <2>1, <2>2, SubSeqProperties
  <2> QED
    BY <1>1, <1>5, <2>3 DEF TypeOK
<1> QED
  BY <1>1, <1>4, <1>5, <1>8, <1>9, OtherServer

LEMMA DeliverPool == ASSUME PoolInv, NEW c \in Conn, Deliver(c) PROVE PoolInv'
<1>1. inbox \in [Conn -> Seq(Answers)] /\ due \in [Conn -> Seq(Answers)]
      /\ outbox \in [Conn -> Seq(Requests)] /\ link \in [Conn \cup Rival -> Links]
  BY DEF PoolInv, TypeOK
<1>2. inbox[c] \o due[c] \in Seq(Answers) /\ <<>> \in Seq(Answers)
  BY <1>1, ConcatProperties, EmptySeq
<1>3. inbox' \in [Conn -> Seq(Answers)] /\ due' \in [Conn -> Seq(Answers)] /\ outbox' = outbox
  BY <1>1, <1>2 DEF Deliver
<1>4. link[c] = "up" /\ link' = [link EXCEPT ![c] = "up"] /\ link' = link
  BY <1>1 DEF Deliver
<1> QED
  BY <1>1, <1>3, <1>4, OtherServer DEF Deliver

LEMMA ServerHangupPool == ASSUME PoolInv, NEW c \in Conn, ServerHangup(c) PROVE PoolInv'
<1>1. inbox \in [Conn -> Seq(Answers)] /\ due \in [Conn -> Seq(Answers)]
      /\ outbox \in [Conn -> Seq(Requests)]
  BY DEF PoolInv, TypeOK
<1>2. inbox' \in [Conn -> Seq(Answers)] /\ due' \in [Conn -> Seq(Answers)]
      /\ outbox' \in [Conn -> Seq(Requests)]
  BY <1>1, EmptySeq DEF ServerHangup
<1>3. PICK l \in {"fin", "reset"} : link' = [link EXCEPT ![c] = l]
  BY DEF ServerHangup
<1> QED
  BY <1>2, <1>3, OtherServer DEF ServerHangup

LEMMA RivalPool ==
  ASSUME PoolInv, NEW r \in Rival, RivalConnects(r) \/ RivalLeaves(r)
  PROVE  PoolInv'
<1>1. TypeOK /\ Queued /\ Waiting \subseteq Conn \cup Rival
  BY WaitingSockets DEF PoolInv
<1>2. r \notin Conn
  BY SyncAssumption
<1>3. PICK l \in {"up", "left"} : link' = [link EXCEPT ![r] = l]
  BY DEF RivalConnects, RivalLeaves
<1>4. link'[r] = l /\ \A c \in Conn \cup Rival : c # r => link'[c] = link[c]
  BY <1>1, <1>3 DEF TypeOK
<1>5. /\ UNCHANGED <<poolVars, connVars, callVars, client_sock, answered, inbox, outbox, due>>
  BY DEF RivalConnects, RivalLeaves, serverVars
<1>6. NetOK'
  BY <1>1, <1>3, <1>5 DEF TypeOK, NetOK, Links
<1>7. OpenSockets' = OpenSockets
  BY <1>2, <1>4 DEF OpenSockets
<1>8. CASE RivalConnects(r)
  <2>1. link[r] = "none" /\ backlog' = Append(backlog, r) /\ r \notin Waiting
    BY <1>1, <1>8 DEF RivalConnects, Queued
  <2>2. /\ backlog' \in Seq(Conn \cup Rival) /\ Distinct(backlog')
        /\ Items(backlog') = Items(backlog) \cup {r}
    BY <1>1, <2>1, Enqueued DEF TypeOK, Queued, Waiting
  <2>3. client_sock # r
    BY <2>1, SyncAssumption DEF Waiting
  <2>4. Waiting' = Waiting \cup {r}
    BY <1>5, <2>2 DEF Waiting
  <2>5. Queued'
    BY <1>1, <1>2, <1>4, <1>5, <2>2, <2>3, <2>4 DEF Queued, connVars
  <2>6. ConnOK' /\ ServerOK'
    BY <1>1, <1>5, <2>2 DEF TypeOK, ConnOK, ServerOK, connVars, callVars
  <2> QED
    BY <1>5, <1>6, <1>7, <2>5, <2>6, Apart DEF callVars
<1>9. CASE RivalLeaves(r)
  <2>1. UNCHANGED backlog /\ l = "left"
    BY <1>1, <1>2, <1>3, <1>9 DEF RivalLeaves, serverVars, TypeOK
  <2>2. Queued'
    BY <1>1, <1>2, <1>4, <1>5, <2>1 DEF Queued, Waiting, Items, Distinct, connVars
  <2>3. ConnOK' /\ ServerOK'
    BY <1>1, <1>5, <2>1 DEF TypeOK, ConnOK, ServerOK, connVars, callVars
  <2> QED
    BY <1>5, <1>6, <1>7, <2>2, <2>3, Apart DEF callVars
<1> QED
  BY <1>8, <1>9

LEMMA AcceptPool == ASSUME PoolInv, Accept PROVE PoolInv'
<1> DEFINE L == Len(backlog)
<1>1. TypeOK /\ Queued /\ client_sock = NoConn /\ backlog # <<>>
  BY DEF PoolInv, Accept
<1>2. /\ client_sock' = Head(backlog) /\ backlog' = Tail(backlog) /\ answered' = FALSE
      /\ UNCHANGED <<poolVars, connVars, callVars, netVars>>
  BY DEF Accept
<1>3. backlog \in Seq(Conn \cup Rival) /\ L \in Nat \ {0} /\ DOMAIN backlog = 1 .. L
  BY <1>1, EmptySeq, LenProperties DEF TypeOK
<1>4. /\ backlog' \in Seq(Conn \cup Rival) /\ Len(backlog') = L - 1
      /\ \A i \in 1 .. L - 1 : backlog'[i] = backlog[i + 1]
      /\ client_sock' = backlog[1] /\ client_sock' \in Conn \cup Rival
  BY <1>1, <1>2, <1>3, HeadTailProperties, EmptySeq
<1>5. DOMAIN backlog' = 1 .. L - 1
  BY <1>4, LenProperties
<1>6. \A i \in 1 .. L - 1 : i + 1 \in 1 .. L /\ i + 1 # 1
  BY <1>3
<1>7. 1 \in 1 .. L /\ \A i \in 1 .. L : i = 1 \/ (i - 1 \in 1 .. L - 1 /\ (i - 1) + 1 = i)
  BY <1>3
<1> HIDE DEF L
<1>8. Distinct(backlog')
  <2>1. Distinct(backlog)
    BY <1>1 DEF Queued
  <2> QED
    BY <1>3, <1>4, <1>5, <2>1, DistinctRest
<1>9. client_sock' \notin Items(backlog')
  BY <1>1, <1>3, <1>4, <1>5, <1>6, <1>7 DEF Items, Queued, Distinct
<1>10. Waiting' \subseteq Waiting
  BY <1>3, <1>4, <1>5, <1>6, <1>7 DEF Waiting, Items
<1>11. Queued'
  BY <1>1, <1>2, <1>8, <1>9, <1>10 DEF Queued, netVars, connVars
<1>12. NetOK' /\ ConnOK' /\ ServerOK'
  BY <1>1, <1>2, <1>4 DEF TypeOK, NetOK, ConnOK, ServerOK, netVars, connVars, callVars
<1>13. OpenSockets' = OpenSockets
  BY <1>2 DEF OpenSockets, netVars
<1> QED
  BY <1>2, <1>11, <1>12, <1>13, Apart DEF callVars

LEMMA HandlePool == ASSUME PoolInv, Handle PROVE PoolInv'
<1> DEFINE c == client_sock
<1>1. TypeOK /\ Queued /\ c \in Conn /\ outbox[c] # <<>>
  BY DEF PoolInv, Handle
<1>2. Head(outbox[c]) \in Requests
  BY <1>1, FirstRequest
<1>3. /\ outbox' = [outbox EXCEPT ![c] = <<>>] /\ answered' = TRUE
      /\ UNCHANGED <<poolVars, connVars, callVars, backlog, client_sock, link, due>>
  BY DEF Handle
<1>4. inbox' = inbox \/ \E status \in {"page", "bad"} :
        inbox' = [inbox EXCEPT ![c] = <<Answer(Head(outbox[c]), status, NoLocation, FALSE),
                                        Rest(Head(outbox[c]))>>]
  BY DEF Handle
<1>5. inbox' \in [Conn -> Seq(Answers)]
  <2> DEFINE A(status) == <<Answer(Head(outbox[c]), status, NoLocation, FALSE),
                            Rest(Head(outbox[c]))>>
  <2>1. \A status \in {"page", "bad"} : A(status) \in Seq(Answers)
    BY <1>2, AnswerType
  <2> HIDE DEF A
  <2>2. inbox' = inbox \/ \E status \in {"page", "bad"} : inbox' = [inbox EXCEPT ![c] = A(status)]
    BY <1>4 DEF A
  <2> QED
    BY <1>1, <2>1, <2>2 DEF TypeOK
<1>6. NetOK' /\ ConnOK' /\ ServerOK'
  BY <1>1, <1>3, <1>5, EmptySeq DEF TypeOK, NetOK, ConnOK, ServerOK, connVars, callVars
<1>7. OpenSockets' = OpenSockets /\ Queued'
  BY <1>1, <1>3 DEF OpenSockets, Queued, Waiting, Items, Distinct, connVars
<1> QED
  BY <1>3, <1>6, <1>7, Apart DEF callVars

LEMMA CloseServedPool == ASSUME PoolInv, CloseServed PROVE PoolInv'
<1> DEFINE c == client_sock
<1>1. TypeOK /\ Queued /\ c # NoConn /\ c \in Conn \cup Rival /\ Waiting \subseteq Conn \cup Rival
  BY WaitingSockets DEF PoolInv, CloseServed, TypeOK
<1>2. /\ outbox' = (IF c \in Conn THEN [outbox EXCEPT ![c] = <<>>] ELSE outbox)
      /\ client_sock' = NoConn
      /\ UNCHANGED <<poolVars, connVars, callVars, backlog, answered, inbox, due>>
  BY DEF CloseServed
<1>3. PICK l \in {"none", "fin", "reset"} :
        /\ link' = [link EXCEPT ![c] = l]
        /\ l = "none" <=> link[c] = "left"
  BY DEF CloseServed
<1>4. c \in Waiting /\ link[c] \in {"up", "left"}
  BY <1>1 DEF Waiting, Queued
<1>5. link'[c] = l /\ \A d \in Conn \cup Rival : d # c => link'[d] = link[d]
  BY <1>1, <1>3 DEF TypeOK
<1> HIDE DEF c
<1>6. OpenSockets' = OpenSockets
  BY <1>1, <1>3, <1>4, <1>5 DEF OpenSockets
<1>7. Queued'
  <2>1. Waiting' = Items(backlog) /\ Waiting' \subseteq Waiting /\ c \notin Waiting'
    BY <1>1, <1>2 DEF Waiting, Queued, c
  <2>2. NoConn \notin Items(backlog')
    BY <1>1, <2>1, <1>2, SyncAssumption DEF Waiting
  <2> QED
    BY <1>1, <1>2, <1>5, <2>1, <2>2 DEF Queued, connVars
<1>8. NetOK' /\ ConnOK' /\ ServerOK'
  <2>1. link' \in [Conn \cup Rival -> Links]
    BY <1>1, <1>3 DEF TypeOK, Links
  <2>2. outbox' \in [Conn -> Seq(Requests)]
    BY <1>1, <1>2, EmptySeq DEF TypeOK
  <2> QED
    BY <1>1, <1>2, <2>1, <2>2 DEF TypeOK, NetOK, ConnOK, ServerOK, connVars, callVars
<1> QED
  BY <1>2, <1>6, <1>7, <1>8, Apart DEF callVars

LEMMA InitPool == Init => PoolInv
<1> SUFFICES ASSUME Init PROVE PoolInv
  OBVIOUS
<1>1. TypeOK
  <2>1. todo \in Seq(Calls) /\ 0 \in 0 .. MaxPool
    BY SyncAssumption DEF Init
  <2>2. (CHOOSE h \in Host : TRUE) \in Host
    BY SyncAssumption
  <2> QED
    BY <2>1, <2>2, EmptySeq DEF Init, TypeOK, Links
<1>2. Connected
  BY DEF Init, Connected
<1>3. Pooled = {} /\ Used = {} /\ OpenSockets = {} /\ Waiting = {} /\ Items(backlog) = {}
  BY DEF Init, Pooled, Used, OpenSockets, Waiting, Items
<1>4. Owned /\ Queued
  BY <1>3, SyncAssumption DEF Owned, Queued, Init, Distinct
<1> QED
  BY <1>1, <1>2, <1>4 DEF PoolInv

LEMMA ClientStepPool == ASSUME PoolInv, ClientStep PROVE PoolInv'
<1>1. ASSUME SendFails \/ ReadNothing PROVE PoolInv'
  BY <1>1, FailPool DEF SendFails, ReadNothing
<1> QED
  BY <1>1, ReusePool, OpenPool, OpenFailsPool, SendPool, KilledPool, ReadGarbagePool, ReadPool
     DEF ClientStep

LEMMA NextPool == PoolInv /\ [Next]_vars => PoolInv'
<1> SUFFICES ASSUME PoolInv, [Next]_vars PROVE PoolInv'
  OBVIOUS
<1>1. CASE Begin \/ ClientStep \/ Age \/ cwh_pool_cleanup
  BY <1>1, BeginPool, ClientStepPool, AgePool, CleanupPool
<1>2. CASE ServerStep \/ Environment \/ \E r \in Rival : RivalLeaves(r)
  BY <1>2, AcceptPool, HandlePool, CloseServedPool, RespondPool, DeliverPool, ServerHangupPool,
     RivalPool DEF ServerStep, Environment
<1>3. CASE UNCHANGED vars
  BY <1>3 DEF PoolInv, TypeOK, Connected, Owned, OpenSockets, Used, Pooled, Distinct, Queued,
              Waiting, Items, vars, poolVars, connVars, callVars, serverVars, netVars
<1> QED
  BY <1>1, <1>2, <1>3 DEF Next

LEMMA PoolInvariance == Spec => []PoolInv
BY InitPool, NextPool, PTL DEF Spec

\* TypeOK: whatever calls and servers do, each variable stays in its range;
\* g_pool_size never leaves 0 .. CWH_POOL_MAX_CONNECTIONS.
THEOREM Types == Spec => []TypeOK
<1>1. PoolInv => TypeOK
  BY DEF PoolInv
<1> QED
  BY <1>1, PoolInvariance, PTL

\* SocketsOwned: the sockets that are open are those of the pool and of the call
\* under way, each of them once, on every path through cwh_connect, cwh_close
\* and cwh_request_simple, so that none leaks and none has two owners.
THEOREM SocketsHaveOneOwner == Spec => []SocketsOwned
<1>1. PoolInv => SocketsOwned
  <2> SUFFICES ASSUME PoolInv, alive PROVE Cardinality(Pooled) = Len(pool)
    BY DEF PoolInv, Owned, SocketsOwned, OpenSockets
  <2>1. pool \in Seq(Conn) /\ Len(pool) \in Nat /\ DOMAIN pool = 1 .. Len(pool) /\ Distinct(pool)
    BY LenProperties DEF PoolInv, TypeOK, Owned
  <2>2. pool \in Bijection(1 .. Len(pool), Pooled)
    <3>1. pool \in [1 .. Len(pool) -> Pooled]
      BY <2>1 DEF Pooled
    <3> QED
      BY <2>1, <3>1, Fun_IsBij DEF Distinct, Pooled
  <2>3. ExistsBijection(1 .. Len(pool), Pooled)
    BY <2>2, Fun_ExistsBij
  <2> QED
    BY <2>1, <2>3, FS_CountingElements
<1> QED
  BY <1>1, PoolInvariance, PTL

-----------------------------------------------------------------------------
(* Redirects.                                                              *)

Visits == call # Idle => /\ call.url \notin call.visited /\ IsFiniteSet(call.visited)
                         /\ Cardinality(call.visited) = call.redirect_count

LEMMA InitVisits == Init => Visits
BY DEF Init, Visits

LEMMA NextVisits == TypeOK /\ Connected /\ Visits /\ [Next]_vars => Visits'
<1> SUFFICES ASSUME TypeOK, Connected, Visits, [Next]_vars PROVE Visits'
  OBVIOUS
<1>1. CASE call' = Idle \/ call' = call
  BY <1>1 DEF Visits
<1>2. ASSUME NEW phase \in {"connect", "send", "body", "read"}, In(phase),
             call'.url = call.url, call'.visited = call.visited,
             call'.redirect_count = call.redirect_count
      PROVE  Visits'
  BY <1>2, CallFacts DEF Visits
<1>3. CASE Begin
  BY <1>3, FS_EmptySet DEF Begin, Visits
<1>4. CASE Reuse \/ Open
  <2>1. In("connect") /\ call \in Calling
    BY <1>4, CallFacts DEF Reuse, Open
  <2>2. \E c \in Conn \cup {Found(call.url.host)} : call' = [call EXCEPT !.phase = "send", !.conn = c]
    BY <1>4 DEF Reuse, Open
  <2> QED
    BY <1>2, <2>1, <2>2 DEF Calling
<1>5. ASSUME NEW part \in {"head", "body"}, Send(part) \/ SendRefused(part) PROVE Visits'
  <2>1. PICK phase \in {"send", "body"} : In(phase) /\ call \in Calling
    BY <1>5, CallFacts DEF Send, SendRefused, SendPhase
  <2>2. Go(AfterSend(part))
    BY <1>5 DEF Send, SendRefused
  <2> QED
    BY <1>2, <2>1, <2>2 DEF Go, Calling
<1>6. CASE Read
  <2>1. SUFFICES ASSUME call' # Idle PROVE Visits'
    BY <1>1
  <2>2. PICK u \in Urls, m \in {"GET", "POST"} : Goes(u, m)
    BY <1>6, <2>1, ReadGoes
  <2>3. call \in Calling /\ call # Idle
    BY <1>6, CallFacts DEF Read
  <2>4. /\ call'.url = u /\ call'.visited = call.visited \cup {call.url}
        /\ call'.redirect_count = call.redirect_count + 1
    BY <2>2, <2>3 DEF Goes, Calling
  <2>5. u \notin call'.visited
    BY <2>2, <2>4 DEF Goes
  <2>6. /\ IsFiniteSet(call.visited \cup {call.url})
        /\ Cardinality(call.visited \cup {call.url}) = call.redirect_count + 1
    BY <2>3, FS_AddElement DEF Visits
  <2> QED
    BY <2>4, <2>5, <2>6 DEF Visits
<1>7. CASE OpenFails \/ SendFails \/ ReadNothing \/ ReadGarbage
  BY <1>1, <1>7 DEF OpenFails, SendFails, ReadNothing, ReadGarbage, Fail, Return
<1>8. CASE Killed \/ Age \/ cwh_pool_cleanup
  BY <1>1, <1>8 DEF Killed, Age, cwh_pool_cleanup, callVars
<1>9. CASE ServerStep \/ Environment \/ \E r \in Rival : RivalLeaves(r)
  BY <1>1, <1>9 DEF ServerStep, Accept, Handle, CloseServed, Environment, Respond, Deliver,
                    ServerHangup, RivalConnects, RivalLeaves, callVars
<1>10. CASE UNCHANGED vars
  BY <1>1, <1>10 DEF vars, callVars
<1> QED
  BY <1>3, <1>4, <1>5, <1>6, <1>7, <1>8, <1>9, <1>10 DEF Next, ClientStep

\* NoRevisit: within a call no URL is asked for twice, as the URLs stand in
\* redirect_url_buf with the tails behind them, and the limit on redirects is
\* kept, whatever Location values servers send (cwh_request_simple).
THEOREM RedirectsEnd == Spec => []NoRevisit
<1>1. PoolInv => TypeOK /\ Connected
  BY DEF PoolInv
<1>2. TypeOK /\ Visits => NoRevisit
  <2> SUFFICES ASSUME TypeOK, Visits, call # Idle PROVE call.redirect_count < MaxRedirects
    BY DEF Visits, NoRevisit
  <2>1. call \in Calling
    BY DEF TypeOK
  <2> QED
    BY <2>1, SyncAssumption DEF Calling
<1> QED
  BY <1>1, <1>2, PoolInvariance, InitVisits, NextVisits, PTL DEF Spec

-----------------------------------------------------------------------------
(* Every step keeps Settled.                                               *)

LEMMA Appended ==
  ASSUME NEW S, NEW q \in Seq(S), NEW x
  PROVE  \A i \in DOMAIN Append(q, x) : (i \in DOMAIN q /\ Append(q, x)[i] = q[i])
                                        \/ Append(q, x)[i] = x
<1>1. q \in Seq(S \cup {x}) /\ Len(q) \in Nat /\ DOMAIN q = 1 .. Len(q)
  BY LenProperties
<1>2. /\ Append(q, x) \in Seq(S \cup {x}) /\ Len(Append(q, x)) = Len(q) + 1
      /\ Append(q, x)[Len(q) + 1] = x
      /\ \A i \in 1 .. Len(q) : Append(q, x)[i] = q[i]
  BY <1>1, AppendProperties
<1>3. DOMAIN Append(q, x) = 1 .. Len(q) + 1
  BY <1>2, LenProperties
<1>4. \A i \in 1 .. Len(q) + 1 : i \in 1 .. Len(q) \/ i = Len(q) + 1
  BY <1>1
<1> QED
  BY <1>1, <1>2, <1>3, <1>4

LEMMA Joined ==
  ASSUME NEW S, NEW q \in Seq(S), NEW r \in Seq(S)
  PROVE  \A i \in DOMAIN (q \o r) : \/ i \in DOMAIN q /\ (q \o r)[i] = q[i]
                                    \/ \E j \in DOMAIN r : (q \o r)[i] = r[j]
<1>1. Len(q) \in Nat /\ DOMAIN q = 1 .. Len(q) /\ Len(r) \in Nat /\ DOMAIN r = 1 .. Len(r)
  BY LenProperties
<1>2. /\ q \o r \in Seq(S) /\ Len(q \o r) = Len(q) + Len(r)
      /\ \A i \in 1 .. Len(q) + Len(r) : (q \o r)[i] = IF i <= Len(q) THEN q[i] ELSE r[i - Len(q)]
  BY ConcatProperties
<1>3. DOMAIN (q \o r) = 1 .. Len(q) + Len(r)
  BY <1>2, LenProperties
<1>4. ASSUME NEW i \in 1 .. Len(q) + Len(r)
      PROVE  \/ i \in 1 .. Len(q) /\ (q \o r)[i] = q[i]
             \/ i - Len(q) \in 1 .. Len(r) /\ (q \o r)[i] = r[i - Len(q)]
  <2>1. (q \o r)[i] = IF i <= Len(q) THEN q[i] ELSE r[i - Len(q)]
    BY <1>2
  <2>2. \/ i \in 1 .. Len(q) /\ i <= Len(q)
        \/ i - Len(q) \in 1 .. Len(r) /\ ~(i <= Len(q))
    BY <1>1
  <2> QED
    BY <2>1, <2>2
<1> QED
  BY <1>1, <1>3, <1>4

LEMMA CutOff ==
  ASSUME NEW S, NEW q \in Seq(S), NEW n \in Nat
  PROVE  LET p == SubSeq(q, n + 1, Len(q)) IN
           \A i \in DOMAIN p : \E j \in DOMAIN q : p[i] = q[j]
<1> DEFINE p == SubSeq(q, n + 1, Len(q))
<1>1. Len(q) \in Nat /\ DOMAIN q = 1 .. Len(q) /\ \A j \in 1 .. Len(q) : q[j] \in S
  BY LenProperties, ElementOfSeq
<1>2. \A j \in n + 1 .. Len(q) : q[j] \in S
  BY <1>1
<1>3. /\ p \in Seq(S)
      /\ Len(p) = IF n + 1 <= Len(q) THEN Len(q) - (n + 1) + 1 ELSE 0
      /\ \A i \in 1 .. Len(p) : p[i] = q[n + 1 + i - 1]
  BY <1>1, <1>2, SubSeqProperties
<1>4. DOMAIN p = 1 .. Len(p)
  BY <1>3, LenProperties
<1> HIDE DEF p
<1>5. \A i \in 1 .. Len(p) : n + 1 + i - 1 \in 1 .. Len(q)
  <2>1. Len(p) \in Nat
    BY <1>3, LenProperties
  <2>2. CASE n + 1 <= Len(q)
    <3>1. Len(p) = Len(q) - n
      BY <1>1, <1>3, <2>2
    <3> QED
      BY <1>1, <2>1, <3>1
  <2>3. CASE ~(n + 1 <= Len(q))
    BY <1>3, <2>3
  <2> QED
    BY <2>2, <2>3
<1>6. \A i \in DOMAIN p : \E j \in DOMAIN q : p[i] = q[j]
  BY <1>1, <1>3, <1>4, <1>5
<1> QED
  BY <1>6 DEF p

\* A step that leaves what is on the connections alone.
LEMMA SameLinks ==
  ASSUME Settled, \A c \in Conn : link'[c] = link[c], Pooled' = Pooled,
         UNCHANGED <<inbox, outbox, due, host, callVars>>
  PROVE  Settled'
<1>1. Used' = Used /\ \A c : (AllMine(c) => AllMine(c)') /\ (Clean(c) => Clean(c)')
  BY DEF Used, AllMine, Mine, Clean, callVars
<1>2. \A c \in Conn : Closed(c)'
  BY DEF Settled, Closed
<1> QED
  BY <1>1, <1>2 DEF Settled, callVars

LEMMA InitSettled == Init => Settled
<1> SUFFICES ASSUME Init PROVE Settled
  OBVIOUS
<1>1. Used = {} /\ Pooled = {}
  BY DEF Init, Used, Pooled
<1>2. \A c \in Conn : Closed(c)
  BY DEF Init, Closed
<1> QED
  BY <1>1, <1>2 DEF Settled

\* A socket that is closed keeps nothing that is yet to be sent.
LEMMA HungUpClosed ==
  ASSUME NEW C, Hangup(C), \A c \in Conn : Closed(c)
  PROVE  /\ \A c \in Conn : Closed(c)'
         /\ \A c \in Conn : c \notin C => (Clean(c) <=> Clean(c)')
<1> SUFFICES ASSUME NEW c \in Conn
             PROVE  Closed(c)' /\ (c \notin C => (Clean(c) <=> Clean(c)'))
  OBVIOUS
<1>1. /\ link'[c] = IF c \notin C THEN link[c] ELSE IF Lingers(c) THEN "left" ELSE "none"
      /\ inbox'[c] = (IF c \in C THEN <<>> ELSE inbox[c])
      /\ due'[c] = (IF c \in C THEN <<>> ELSE due[c])
      /\ outbox'[c] = (IF c \in C /\ ~Lingers(c) THEN <<>> ELSE outbox[c])
  BY DEF Hangup
<1>2. Closed(c)
  OBVIOUS
<1> QED
  BY <1>1, <1>2 DEF Closed, Clean

\* The call is over or goes on elsewhere: what it leaves in the pool is
\* unsettled or clean.
LEMMA GiveBackSettled ==
  ASSUME PoolInv, Settled, NEW phase \in {"send", "body", "read"}, In(phase),
         NEW ka, NEW left \in Seq(Answers), cwh_close(call.conn, ka, left),
         call' = Idle \/ call'.phase = "connect",
         unsettled \ {call.conn} \subseteq unsettled',
         call.conn \in unsettled' \/ (outbox[call.conn] = <<>> /\ due[call.conn] = <<>> /\ left = <<>>)
  PROVE  Settled'
<1>1. TypeOK /\ Owned /\ Connected
  BY DEF PoolInv
<1>2. PICK c \in Conn : alive /\ c = call.conn /\ Used = {c}
  BY <1>1, CallFacts
<1>3. PoolOK /\ NetOK /\ c \notin Pooled /\ Pooled \subseteq Conn
  BY <1>1, <1>2, PoolFacts
<1>4. \A d \in Conn : Closed(d)
  BY DEF Settled
<1>5. Used' = {}
  BY DEF Used
<1>6. \A d \in Pooled : d \in Conn /\ d # c /\ (d \notin unsettled' => Clean(d))
  BY <1>2, <1>3 DEF Settled
<1>7. CASE MayPool(ka)
  <2>1. UNCHANGED <<link, outbox, due>> /\ inbox' = [inbox EXCEPT ![c] = left]
    BY <1>2, <1>7 DEF cwh_close
  <2>2. Pooled' = Pooled \cup {c}
    BY <1>2, <1>3, <1>7, PutIn DEF cwh_close, MayPool
  <2>3. inbox'[c] = left /\ \A d \in Conn : d # c => inbox'[d] = inbox[d]
    BY <1>2, <1>3, <2>1 DEF NetOK
  <2>4. \A d \in Pooled : d \notin unsettled' => Clean(d)'
    BY <1>6, <2>1, <2>3 DEF Clean
  <2>5. c \notin unsettled' => Clean(c)'
    BY <1>2, <2>1, <2>3 DEF Clean
  <2>6. \A d \in Conn : Closed(d)'
    BY <1>4, <2>1 DEF Closed
  <2> QED
    BY <1>5, <2>2, <2>4, <2>5, <2>6 DEF Settled
<1>8. CASE ~MayPool(ka)
  <2>1. Hangup({c}) /\ Pooled' = Pooled
    BY <1>2, <1>8 DEF cwh_close, poolVars, Pooled
  <2>2. (\A d \in Conn : Closed(d)') /\ \A d \in Conn : d # c => (Clean(d) <=> Clean(d)')
    BY <1>4, <2>1, HungUpClosed
  <2> QED
    BY <1>5, <1>6, <2>1, <2>2 DEF Settled
<1> QED
  BY <1>7, <1>8

LEMMA FailSettled ==
  ASSUME PoolInv, Settled, NEW phase \in {"send", "body", "read"}, In(phase), NEW err, Fail(err)
  PROVE  Settled'
<1>1. inbox[call.conn] \in Seq(Answers)
  BY CallFacts DEF PoolInv, TypeOK
<1> QED
  BY <1>1, GiveBackSettled DEF Fail, Return

LEMMA ReadSettled == ASSUME PoolInv, Settled, Read \/ ReadGarbage PROVE Settled'
<1>1. In("read") /\ TypeOK /\ Connected /\ <<>> \in Seq(Answers)
  BY EmptySeq DEF Read, ReadGarbage, PoolInv
<1>2. CASE ReadGarbage
  BY <1>1, <1>2, GiveBackSettled DEF ReadGarbage, Return
<1>3. CASE Read
  <2>1. call' = Idle \/ call'.phase = "connect"
    <3>1. ASSUME NEW u \in Urls, NEW m \in {"GET", "POST"}, Goes(u, m)
          PROVE  call'.phase = "connect"
      <4>1. call \in Calling
        BY <1>1, CallFacts
      <4> QED
        BY <3>1, <4>1 DEF Goes, Calling
    <3> QED
      BY <1>1, <1>3, <3>1, ReadGoes
  <2>2. /\ cwh_close(call.conn, TRUE, <<>>)
        /\ unsettled' = IF outbox[call.conn] = <<>> /\ due[call.conn] = <<>>
                        THEN unsettled \ {call.conn} ELSE unsettled \cup {call.conn}
    BY <1>3 DEF Read, KeepAliveAfter
  <2>3. /\ unsettled \ {call.conn} \subseteq unsettled'
        /\ call.conn \in unsettled' \/ (outbox[call.conn] = <<>> /\ due[call.conn] = <<>>)
    BY <2>2
  <2> QED
    BY <1>1, <2>1, <2>2, <2>3, GiveBackSettled
<1> QED
  BY <1>2, <1>3

LEMMA ReuseSettled == ASSUME PoolInv, Settled, Reuse PROVE Settled'
<1> DEFINE h == call.url.host
           gone == Expired(h)
<1>1. TypeOK /\ Owned /\ Connected /\ In("connect") /\ Fresh(h) # {}
  BY DEF PoolInv, Reuse
<1>2. alive /\ call \in Calling
  BY <1>1, CallFacts
<1>3. PoolOK /\ Pooled \subseteq Conn
  BY <1>1, <1>2, PoolFacts
<1>4. PICK c \in Conn : gone \subseteq Pooled /\ c = Found(h) /\ c \in Pooled \ gone /\ host[c] = h
  BY <1>1, <1>3, ExpiredPooled
<1>5. /\ call' = [call EXCEPT !.phase = "send", !.conn = c]
      /\ PoolWithout(gone \cup {c}) /\ Hangup(gone) /\ unsettled' = unsettled /\ host' = host
  BY <1>4 DEF Reuse, connVars
<1> HIDE DEF gone
<1>6. Pooled' = Pooled \ (gone \cup {c})
  BY <1>1, <1>2, <1>4, <1>5, TakenOut
<1>7. call'.phase = "send" /\ call'.conn = c /\ call'.url.host = h
  BY <1>2, <1>5 DEF Calling
<1>8. /\ \A d \in Conn : Closed(d)
      /\ \A d \in Pooled : d \notin unsettled => Clean(d)
  BY <1>2 DEF Settled
<1>9. /\ \A d \in Conn : Closed(d)'
      /\ \A d \in Conn : d \notin gone => (Clean(d) <=> Clean(d)')
  BY <1>5, <1>8, HungUpClosed
<1>10. Used' \subseteq {c}
  BY <1>7 DEF Used
<1>11. c \notin unsettled' => AllMine(c)'
  <2>1. c \notin unsettled' => Clean(c)'
    BY <1>3, <1>4, <1>5, <1>8, <1>9
  <2> QED
    BY <2>1 DEF Clean, AllMine
<1>12. \A d \in Pooled' : d \notin unsettled' => Clean(d)'
  BY <1>3, <1>5, <1>6, <1>8, <1>9
<1> QED
  BY <1>4, <1>5, <1>7, <1>9, <1>10, <1>11, <1>12 DEF Settled

LEMMA OpenSettled == ASSUME PoolInv, Settled, Open PROVE Settled'
<1> DEFINE h == call.url.host
           gone == Expired(h)
<1>1. TypeOK /\ Owned /\ Connected /\ In("connect")
  BY DEF PoolInv, Open
<1>2. alive /\ call \in Calling
  BY <1>1, CallFacts
<1>3. PoolOK /\ Pooled \subseteq Conn /\ Pooled \subseteq OpenSockets
  BY <1>1, <1>2, PoolFacts
<1>4. gone \subseteq Pooled
  BY <1>3, ExpiredPooled
<1>5. PICK c \in Conn :
        /\ link[c] = "none" /\ PoolWithout(gone)
        /\ call' = [call EXCEPT !.phase = "send", !.conn = c]
        /\ host' = [host EXCEPT ![c] = h]
        /\ unsettled' = unsettled \ {c}
        /\ link' = [d \in Conn \cup Rival |->
                      IF d = c THEN "up" ELSE IF d \notin gone THEN link[d]
                      ELSE IF Lingers(d) THEN "left" ELSE "none"]
        /\ inbox' = [d \in Conn |-> IF d \in gone \cup {c} THEN <<>> ELSE inbox[d]]
        /\ outbox' = [d \in Conn |-> IF d \in gone /\ ~Lingers(d) THEN <<>> ELSE outbox[d]]
        /\ due' = [d \in Conn |-> IF d \in gone THEN <<>> ELSE due[d]]
  BY DEF Open
<1> HIDE DEF gone
<1>6. Pooled' = Pooled \ gone
  BY <1>1, <1>2, <1>4, <1>5, TakenOut
<1>7. c \notin Pooled /\ c \notin gone
  BY <1>3, <1>4, <1>5 DEF OpenSockets
<1>8. call'.phase = "send" /\ call'.conn = c /\ call'.url.host = h /\ host'[c] = h
  BY <1>1, <1>2, <1>5 DEF Calling, TypeOK
<1>9. /\ \A d \in Conn : Closed(d)
      /\ \A d \in Pooled : d \notin unsettled => Clean(d)
  BY <1>2 DEF Settled
<1>10. ASSUME NEW d \in Conn
       PROVE  /\ Closed(d)'
              /\ d \notin gone \cup {c} => (Clean(d) <=> Clean(d)')
              /\ d = c => Clean(d)'
  <2>1. /\ link'[d] = IF d = c THEN "up" ELSE IF d \notin gone THEN link[d]
                      ELSE IF Lingers(d) THEN "left" ELSE "none"
        /\ inbox'[d] = (IF d \in gone \cup {c} THEN <<>> ELSE inbox[d])
        /\ outbox'[d] = (IF d \in gone /\ ~Lingers(d) THEN <<>> ELSE outbox[d])
        /\ due'[d] = (IF d \in gone THEN <<>> ELSE due[d])
    BY <1>5
  <2>2. Closed(d)
    BY <1>9
  <2> QED
    BY <1>5, <1>7, <2>1, <2>2 DEF Closed, Clean
<1>11. Used' \subseteq {c}
  BY <1>8 DEF Used
<1>12. AllMine(c)'
  <2>1. Clean(c)'
    BY <1>10
  <2> QED
    BY <2>1 DEF Clean, AllMine
<1>13. \A d \in Pooled' : d \notin unsettled' => Clean(d)'
  BY <1>3, <1>5, <1>6, <1>7, <1>9, <1>10
<1> QED
  BY <1>8, <1>10, <1>11, <1>12, <1>13 DEF Settled

LEMMA OpenFailsSettled == ASSUME PoolInv, Settled, OpenFails PROVE Settled'
<1> DEFINE gone == Expired(call.url.host)
<1>1. TypeOK /\ Owned /\ Connected /\ In("connect")
  BY DEF PoolInv, OpenFails
<1>2. alive
  BY <1>1, CallFacts
<1>3. PoolOK /\ Pooled \subseteq Conn
  BY <1>1, <1>2, PoolFacts
<1>4. gone \subseteq Pooled
  BY <1>3, ExpiredPooled
<1>5. call' = Idle /\ PoolWithout(gone) /\ Hangup(gone) /\ unsettled' = unsettled
  BY DEF OpenFails, Return
<1> HIDE DEF gone
<1>6. Pooled' = Pooled \ gone /\ Used' = {}
  BY <1>1, <1>2, <1>4, <1>5, TakenOut DEF Used
<1>7. /\ \A d \in Conn : Closed(d)
      /\ \A d \in Pooled : d \notin unsettled => Clean(d)
  BY <1>2 DEF Settled
<1>8. /\ \A d \in Conn : Closed(d)'
      /\ \A d \in Conn : d \notin gone => (Clean(d) <=> Clean(d)')
  BY <1>5, <1>7, HungUpClosed
<1> QED
  BY <1>3, <1>5, <1>6, <1>7, <1>8 DEF Settled

LEMMA SendSettled ==
  ASSUME PoolInv, Settled, NEW part \in {"head", "body"}, Send(part) \/ SendRefused(part)
  PROVE  Settled'
<1>1. TypeOK /\ Owned /\ Connected
  BY DEF PoolInv
<1>2. PICK phase \in {"send", "body"} : In(phase)
  BY DEF Send, SendRefused, SendPhase
<1>3. PICK c \in Conn : alive /\ call \in Calling /\ c = call.conn /\ Used = {c}
  BY <1>1, <1>2, CallFacts
<1>4. NetOK /\ c \notin Pooled /\ Pooled \subseteq Conn
  BY <1>1, <1>3, PoolFacts
<1>5. /\ Go(AfterSend(part)) /\ link[c] \in {"up", "fin"}
      /\ UNCHANGED <<alive, todo, unsettled, poolVars, connVars, inbox, due>>
      /\ \/ outbox' = [outbox EXCEPT ![c] = Append(@, Request(part))] /\ link' = link
         \/ outbox' = outbox /\ \E l \in {"fin", "reset"} : link' = [link EXCEPT ![c] = l]
  BY <1>3 DEF Send, SendRefused
<1>6. /\ call'.conn = c /\ call'.url = call.url /\ call'.redirect_count = call.redirect_count
  BY <1>3, <1>5 DEF Go, Calling
<1>7. /\ Used' \subseteq {c} /\ Pooled' = Pooled /\ host' = host
      /\ unsettled' = unsettled /\ todo' = todo /\ inbox' = inbox /\ due' = due
  BY <1>5, <1>6 DEF Used, Pooled, poolVars, connVars
<1>8. \A d \in Conn : d # c => link'[d] = link[d] /\ outbox'[d] = outbox[d]
  BY <1>3, <1>4, <1>5 DEF NetOK
<1>9. link'[c] \in {"up", "fin", "reset"}
  BY <1>3, <1>4, <1>5 DEF NetOK
<1>10. \A d \in Conn : Closed(d)'
  BY <1>7, <1>8, <1>9 DEF Settled, Closed
<1>11. \A d \in Pooled' : d \notin unsettled' => Clean(d)'
  BY <1>3, <1>4, <1>7, <1>8 DEF Settled, Clean
<1>12. host[c] = call.url.host /\ (c \notin unsettled => AllMine(c))
  BY <1>3 DEF Settled
<1>13. AllMine(c) => AllMine(c)'
  <2>1. \A i \in DOMAIN outbox'[c] : \/ i \in DOMAIN outbox[c] /\ outbox'[c][i] = outbox[c][i]
                                     \/ outbox'[c][i] = Request(part)
    <3>1. CASE outbox' = outbox
      BY <3>1
    <3>2. CASE outbox' = [outbox EXCEPT ![c] = Append(@, Request(part))]
      <4>1. outbox'[c] = Append(outbox[c], Request(part)) /\ outbox[c] \in Seq(Requests)
        BY <1>3, <1>4, <3>2 DEF NetOK
      <4> QED
        BY <4>1, Appended
    <3> QED
      BY <1>5, <3>1, <3>2
  <2>2. Request(part).call = Len(todo) /\ Request(part).hop = call.redirect_count
    BY DEF Request
  <2> QED
    BY <1>6, <1>7, <2>1, <2>2 DEF AllMine, Mine
<1> QED
  BY <1>6, <1>7, <1>10, <1>11, <1>12, <1>13 DEF Settled

\* One of the servers moves something on c.
LEMMA OneServed ==
  ASSUME PoolInv, Settled, NEW c \in Conn, UNCHANGED <<poolVars, connVars, callVars>>,
         \A d \in Conn : d # c => UNCHANGED <<link[d], inbox[d], outbox[d], due[d]>>,
         Closed(c)', AllMine(c) => AllMine(c)', Clean(c) => Clean(c)'
  PROVE  Settled'
<1>1. /\ Used' = Used /\ Pooled' = Pooled /\ unsettled' = unsettled /\ alive' = alive
      /\ call' = call /\ host' = host /\ todo' = todo
  BY DEF Used, Pooled, poolVars, connVars, callVars
<1>2. alive => Used \subseteq Conn /\ Pooled \subseteq Conn
  BY ElementOfSeq DEF PoolInv, Owned, OpenSockets
<1>3. \A d \in Conn : /\ Closed(d)'
                      /\ AllMine(d) => AllMine(d)'
                      /\ Clean(d) => Clean(d)'
  <2> SUFFICES ASSUME NEW d \in Conn, d # c
               PROVE  Closed(d)' /\ (AllMine(d) => AllMine(d)') /\ (Clean(d) => Clean(d)')
    OBVIOUS
  <2>1. UNCHANGED <<link[d], inbox[d], outbox[d], due[d]>> /\ Closed(d)
    BY DEF Settled
  <2>2. Closed(d)' /\ (Clean(d) => Clean(d)')
    BY <2>1 DEF Closed, Clean
  <2>3. AllMine(d) => AllMine(d)'
    BY <1>1, <2>1 DEF AllMine, Mine
  <2> QED
    BY <2>2, <2>3
<1>4. alive' => \A d \in Used' : host'[d] = call'.url.host /\ (d \notin unsettled' => AllMine(d)')
  BY <1>1, <1>2, <1>3 DEF Settled
<1>5. alive' => \A d \in Pooled' : d \notin unsettled' => Clean(d)'
  BY <1>1, <1>2, <1>3 DEF Settled
<1> QED
  BY <1>3, <1>4, <1>5 DEF Settled

\* A request that is answered moves from outbox to inbox and due.
LEMMA RespondSettled == ASSUME PoolInv, Settled, NEW c \in Conn, Respond(c) PROVE Settled'
<1> DEFINE req == Head(outbox[c])
           n   == IF req.body THEN 2 ELSE 1
<1>1. TypeOK /\ outbox[c] # <<>> /\ link[c] = "up"
  BY DEF PoolInv, Respond
<1>2. /\ req \in Requests /\ outbox[c] \in Seq(Requests) /\ Len(outbox[c]) \in Nat
      /\ req = outbox[c][1] /\ 1 \in DOMAIN outbox[c]
  BY <1>1, FirstRequest
<1>3. /\ inbox[c] \in Seq(Answers)
      /\ inbox \in [Conn -> Seq(Answers)] /\ due \in [Conn -> Seq(Answers)]
      /\ outbox \in [Conn -> Seq(Requests)] /\ link \in [Conn \cup Rival -> Links]
  BY <1>1 DEF TypeOK
<1>4. PICK status \in {"page", "moved", "kept", "bad"}, loc \in Locations \cup {NoLocation},
           close \in BOOLEAN, late \in BOOLEAN :
        /\ inbox' = [inbox EXCEPT ![c] = @ \o <<Answer(req, status, loc, close)>>
                                           \o (IF late THEN <<>> ELSE <<Rest(req)>>)]
        /\ due' = [due EXCEPT ![c] = IF late THEN <<Rest(req)>> ELSE <<>>]
        /\ link' = [link EXCEPT ![c] = IF close THEN "fin" ELSE "up"]
  <2> DEFINE to == IF req.url.path \in DOMAIN Location THEN Location[req.url.path] ELSE {}
  <2>1. to \subseteq Locations \cup {NoLocation}
    BY SyncAssumption
  <2>2. PICK status \in (IF ~WellFormed(req.url) THEN {"bad"}
                         ELSE IF to = {} THEN {"page"} ELSE {"moved", "kept"}),
             loc \in (IF WellFormed(req.url) /\ to # {} THEN to ELSE {NoLocation}),
             close \in BOOLEAN, late \in BOOLEAN :
          /\ inbox' = [inbox EXCEPT ![c] = @ \o <<Answer(req, status, loc, close)>>
                                             \o (IF late THEN <<>> ELSE <<Rest(req)>>)]
          /\ due' = [due EXCEPT ![c] = IF late THEN <<Rest(req)>> ELSE <<>>]
          /\ link' = [link EXCEPT ![c] = IF close THEN "fin" ELSE "up"]
    BY DEF Respond
  <2>3. status \in {"page", "moved", "kept", "bad"} /\ loc \in Locations \cup {NoLocation}
    BY <2>1, <2>2
  <2> HIDE DEF to, req
  <2> QED
    BY <2>2, <2>3
<1>5. /\ outbox' = [outbox EXCEPT ![c] = SubSeq(@, n + 1, Len(@))] /\ n <= Len(outbox[c])
      /\ UNCHANGED <<poolVars, connVars, callVars>>
  BY DEF Respond
<1> DEFINE a == Answer(req, status, loc, close)
           r == Rest(req)
           more == IF late THEN <<>> ELSE <<r>>
<1>6. <<a>> \in Seq(Answers) /\ <<r>> \in Seq(Answers) /\ more \in Seq(Answers)
  BY <1>2, AnswerType, EmptySeq
<1>7. a.req = req /\ r.req = req
  BY DEF Answer, Rest
<1>8. \A d \in Conn : d # c => UNCHANGED <<link[d], inbox[d], outbox[d], due[d]>>
  BY <1>3, <1>4, <1>5
<1>9. Closed(c)'
  BY <1>3, <1>4 DEF Closed
<1>10. ASSUME AllMine(c) PROVE AllMine(c)'
  <2>1. Mine(req) /\ \A x : Mine(x) => Mine(x)'
    BY <1>2, <1>5, <1>10 DEF AllMine, Mine, callVars
  <2> HIDE DEF a, r, req, more
  <2>2. \A i \in DOMAIN inbox'[c] : Mine(inbox'[c][i].req)
    <3>1. inbox'[c] = (inbox[c] \o <<a>>) \o more
      BY <1>3, <1>4 DEF a, r, req, more
    <3>2. inbox[c] \o <<a>> \in Seq(Answers)
      BY <1>3, <1>6, ConcatProperties
    <3>3. \A i \in DOMAIN (inbox[c] \o <<a>>) : Mine((inbox[c] \o <<a>>)[i].req)
      <4>1. \A j \in DOMAIN <<a>> : <<a>>[j] = a
        OBVIOUS
      <4> QED
        BY <1>3, <1>6, <1>7, <1>10, <2>1, <4>1, Joined DEF AllMine
    <3>4. \A j \in DOMAIN more : more[j] = r
      BY DEF more
    <3> QED
      BY <1>6, <1>7, <2>1, <3>1, <3>2, <3>3, <3>4, Joined
  <2>3. \A i \in DOMAIN due'[c] : Mine(due'[c][i].req)
    <3>1. due'[c] = IF late THEN <<r>> ELSE <<>>
      BY <1>3, <1>4 DEF r, req
    <3>2. \A j \in DOMAIN due'[c] : due'[c][j] = r
      BY <3>1
    <3> QED
      BY <1>7, <2>1, <3>2
  <2>4. \A i \in DOMAIN outbox'[c] : Mine(outbox'[c][i])
    <3>1. outbox'[c] = SubSeq(outbox[c], n + 1, Len(outbox[c])) /\ n \in 1 .. 2
      BY <1>3, <1>5
    <3> HIDE DEF n
    <3>2. \A i \in DOMAIN outbox'[c] : \E j \in DOMAIN outbox[c] : outbox'[c][i] = outbox[c][j]
      BY <1>2, <3>1, CutOff
    <3> QED
      BY <1>10, <3>2 DEF AllMine
  <2> QED
    BY <2>1, <2>2, <2>3, <2>4 DEF AllMine
<1>11. ~Clean(c)
  BY <1>1 DEF Clean
<1> QED
  BY <1>5, <1>8, <1>9, <1>10, <1>11, OneServed

LEMMA DeliverSettled == ASSUME PoolInv, Settled, NEW c \in Conn, Deliver(c) PROVE Settled'
<1>1. /\ inbox \in [Conn -> Seq(Answers)] /\ due \in [Conn -> Seq(Answers)]
      /\ inbox[c] \in Seq(Answers) /\ due[c] \in Seq(Answers)
  BY DEF PoolInv, TypeOK
<1>2. /\ due[c] # <<>> /\ link[c] = "up"
      /\ inbox' = [inbox EXCEPT ![c] = @ \o due[c]]
      /\ due' = [due EXCEPT ![c] = <<>>]
      /\ UNCHANGED <<poolVars, connVars, callVars, serverVars, link, outbox>>
  BY DEF Deliver
<1>3. \A d \in Conn : d # c => UNCHANGED <<link[d], inbox[d], outbox[d], due[d]>>
  BY <1>1, <1>2
<1>4. Closed(c)' /\ ~Clean(c)
  BY <1>2 DEF Closed, Clean
<1>5. ASSUME AllMine(c) PROVE AllMine(c)'
  <2>1. inbox'[c] = inbox[c] \o due[c] /\ due'[c] = <<>> /\ outbox'[c] = outbox[c]
    BY <1>1, <1>2
  <2>2. \A i \in DOMAIN inbox'[c] : Mine(inbox'[c][i].req)
    BY <1>1, <1>5, <2>1, Joined DEF AllMine
  <2>3. \A x : Mine(x) => Mine(x)'
    BY <1>2 DEF Mine, callVars
  <2>4. \A i \in DOMAIN outbox'[c] : Mine(outbox'[c][i])
    BY <1>5, <2>1 DEF AllMine
  <2>5. \A i \in DOMAIN due'[c] : Mine(due'[c][i].req)
    BY <2>1
  <2> QED
    BY <2>2, <2>3, <2>4, <2>5 DEF AllMine
<1> QED
  BY <1>2, <1>3, <1>4, <1>5, OneServed

LEMMA ServerHangupSettled ==
  ASSUME PoolInv, Settled, NEW c \in Conn, ServerHangup(c) PROVE Settled'
<1>1. /\ due \in [Conn -> Seq(Answers)] /\ outbox \in [Conn -> Seq(Requests)]
      /\ link \in [Conn \cup Rival -> Links]
  BY DEF PoolInv, TypeOK
<1>2. /\ \E l \in {"fin", "reset"} : link' = [link EXCEPT ![c] = l]
      /\ outbox' = [outbox EXCEPT ![c] = <<>>] /\ due' = [due EXCEPT ![c] = <<>>]
      /\ UNCHANGED <<poolVars, connVars, callVars, inbox>>
  BY DEF ServerHangup
<1>3. \A d \in Conn : d # c => UNCHANGED <<link[d], inbox[d], outbox[d], due[d]>>
  BY <1>1, <1>2
<1>4. link'[c] \in {"fin", "reset"} /\ outbox'[c] = <<>> /\ due'[c] = <<>> /\ inbox'[c] = inbox[c]
  BY <1>1, <1>2
<1>5. Closed(c)' /\ (Clean(c) => Clean(c)')
  BY <1>4 DEF Closed, Clean
<1>6. AllMine(c) => AllMine(c)'
  BY <1>2, <1>4 DEF AllMine, Mine, callVars
<1> QED
  BY <1>2, <1>3, <1>5, <1>6, OneServed

LEMMA HandleSettled == ASSUME PoolInv, Settled, Handle PROVE Settled'
<1>1. PICK c \in Conn : c = client_sock /\ outbox[c] # <<>> /\ TypeOK
  BY DEF PoolInv, Handle
<1>2. PICK req \in Requests : req = Head(outbox[c]) /\ req = outbox[c][1] /\ 1 \in DOMAIN outbox[c]
  BY <1>1, FirstRequest
<1>3. /\ outbox' = [outbox EXCEPT ![c] = <<>>]
      /\ UNCHANGED <<poolVars, connVars, callVars, link, due>>
      /\ \/ \E status \in {"page", "bad"} :
              inbox' = [inbox EXCEPT ![c] = <<Answer(req, status, NoLocation, FALSE), Rest(req)>>]
         \/ inbox' = inbox
  BY <1>1, <1>2 DEF Handle
<1>4. /\ inbox \in [Conn -> Seq(Answers)] /\ outbox \in [Conn -> Seq(Requests)]
  BY <1>1 DEF TypeOK
<1>5. \A d \in Conn : d # c => UNCHANGED <<link[d], inbox[d], outbox[d], due[d]>>
  BY <1>3, <1>4
<1>6. outbox'[c] = <<>> /\ due'[c] = due[c]
  BY <1>3, <1>4
<1>7. Closed(c)' /\ ~Clean(c)
  BY <1>1, <1>3, <1>6 DEF Closed, Clean, Settled
<1>8. ASSUME AllMine(c) PROVE AllMine(c)'
  <2>1. Mine(req) /\ \A x : Mine(x) => Mine(x)'
    BY <1>2, <1>3, <1>8 DEF AllMine, Mine, callVars
  <2>2. \A i \in DOMAIN inbox'[c] : Mine(inbox'[c][i].req)
    <3>1. CASE inbox' = inbox
      BY <1>8, <3>1 DEF AllMine
    <3>2. ASSUME NEW status \in {"page", "bad"},
                 inbox' = [inbox EXCEPT ![c] = <<Answer(req, status, NoLocation, FALSE), Rest(req)>>]
          PROVE  \A i \in DOMAIN inbox'[c] : Mine(inbox'[c][i].req)
      <4> DEFINE a == Answer(req, status, NoLocation, FALSE)
                 r == Rest(req)
      <4>1. a.req = req /\ r.req = req
        BY DEF Answer, Rest
      <4>2. inbox'[c] = <<a, r>>
        BY <1>4, <3>2
      <4> HIDE DEF a, r
      <4>3. \A i \in DOMAIN inbox'[c] : inbox'[c][i] \in {a, r}
        BY <4>2
      <4> QED
        BY <2>1, <4>1, <4>3
    <3> QED
      BY <1>3, <3>1, <3>2
  <2>3. \A i \in DOMAIN outbox'[c] : Mine(outbox'[c][i])
    BY <1>6
  <2>4. \A i \in DOMAIN due'[c] : Mine(due'[c][i].req)
    BY <1>6, <1>8 DEF AllMine
  <2> QED
    BY <2>1, <2>2, <2>3, <2>4 DEF AllMine
<1> QED
  BY <1>3, <1>5, <1>7, <1>8, OneServed

LEMMA CloseServedSettled == ASSUME PoolInv, Settled, CloseServed PROVE Settled'
<1>1. /\ TypeOK /\ \A c \in Conn : Closed(c)
      /\ UNCHANGED <<poolVars, connVars, callVars, inbox, due>>
  BY DEF PoolInv, CloseServed, Settled
<1>2. /\ link \in [Conn \cup Rival -> Links] /\ outbox \in [Conn -> Seq(Requests)]
  BY <1>1 DEF TypeOK
<1>3. PICK c \in Conn \cup Rival : c = client_sock
  BY <1>1 DEF TypeOK, CloseServed
<1>4. CASE c \in Conn
  <2>1. /\ outbox' = [outbox EXCEPT ![c] = <<>>]
        /\ link' = [link EXCEPT ![c] = IF @ = "left" THEN "none"
                                       ELSE IF outbox[c] = <<>> THEN "fin" ELSE "reset"]
    BY <1>3, <1>4 DEF CloseServed
  <2>2. outbox'[c] = <<>> /\ link'[c] \in {"none", "fin", "reset"}
        /\ (link'[c] = "none" => link[c] = "left")
    BY <1>2, <1>4, <2>1
  <2>3. Closed(c)' /\ (Clean(c) => Clean(c)')
    BY <1>1, <1>4, <2>2 DEF Closed, Clean
  <2>4. AllMine(c) => AllMine(c)'
    BY <1>1, <2>2 DEF AllMine, Mine, callVars
  <2>5. \A d \in Conn : d # c => UNCHANGED <<link[d], inbox[d], outbox[d], due[d]>>
    BY <1>1, <1>2, <2>1
  <2> QED
    BY <1>1, <1>4, <2>3, <2>4, <2>5, OneServed
<1>5. CASE c \notin Conn
  <2>1. outbox' = outbox /\ \E l \in {"none", "fin", "reset"} : link' = [link EXCEPT ![c] = l]
    BY <1>3, <1>5 DEF CloseServed
  <2>2. \A d \in Conn : link'[d] = link[d]
    BY <1>2, <1>5, <2>1
  <2> QED
    BY <1>1, <2>1, <2>2, SameLinks DEF poolVars, connVars, Pooled
<1> QED
  BY <1>4, <1>5

LEMMA NextSettled == ASSUME PoolInv, Settled, [Next]_vars PROVE Settled'
<1>1. CASE Begin
  <2>1. /\ call'.phase = "connect" /\ UNCHANGED <<alive, unsettled, poolVars, netVars>>
        /\ alive
    BY <1>1 DEF Begin, In
  <2>2. Used' = {} /\ Pooled' = Pooled
    BY <2>1 DEF Used, Pooled, poolVars
  <2> QED
    BY <2>1, <2>2 DEF Settled, Clean, Closed, netVars
<1>2. CASE ClientStep
  <2>1. ASSUME SendFails \/ ReadNothing PROVE Settled'
    BY <2>1, FailSettled DEF SendFails, ReadNothing
  <2>2. ASSUME Killed PROVE Settled'
    BY <2>2, HungUpClosed DEF Killed, Settled
  <2> QED
    BY <1>2, <2>1, <2>2, ReuseSettled, OpenSettled, OpenFailsSettled, SendSettled, ReadSettled
       DEF ClientStep
<1>3. CASE Age
  BY <1>3, SameLinks DEF Age, netVars, connVars, Pooled
<1>4. CASE cwh_pool_cleanup
  <2>1. Pooled' = {} /\ Used' = {}
    BY <1>4 DEF cwh_pool_cleanup, Pooled, Used, callVars
  <2>2. \E C : Hangup(C)
    BY <1>4 DEF cwh_pool_cleanup
  <2> QED
    BY <2>1, <2>2, HungUpClosed DEF Settled
<1>5. CASE Accept
  BY <1>5, SameLinks DEF Accept, netVars, poolVars, connVars, Pooled
<1>6. ASSUME NEW r \in Rival, RivalConnects(r) \/ RivalLeaves(r) PROVE Settled'
  <2>1. link \in [Conn \cup Rival -> Links] /\ r \notin Conn
    BY SyncAssumption DEF PoolInv, TypeOK
  <2>2. \E l \in {"up", "left"} : link' = [link EXCEPT ![r] = l]
    BY <1>6 DEF RivalConnects, RivalLeaves
  <2>3. \A d \in Conn : link'[d] = link[d]
    BY <2>1, <2>2
  <2> QED
    BY <1>6, <2>3, SameLinks DEF RivalConnects, RivalLeaves, poolVars, connVars, Pooled
<1>7. CASE UNCHANGED vars
  BY <1>7, SameLinks DEF vars, netVars, poolVars, connVars, Pooled
<1> QED
  BY <1>1, <1>2, <1>3, <1>4, <1>5, <1>6, <1>7, HandleSettled, CloseServedSettled, RespondSettled,
     DeliverSettled, ServerHangupSettled DEF Next, ServerStep, Environment

\* OwnAnswer: a call reads an answer on a connection to the host of its URL, and
\* the answer to the request it has just sent, except on a connection that the
\* pool took back with an exchange not complete (cwh_request_simple, cwh_close).
THEOREM OwnAnswers == Spec => OwnAnswer
<1> DEFINE Taken == Read => LET req == Head(inbox[call.conn]).req IN
                              /\ host[call.conn] = call.url.host
                              /\ \/ req.call = Len(todo) /\ req.hop = call.redirect_count
                                 \/ call.conn \in unsettled
<1>1. PoolInv /\ Settled => Taken
  <2> SUFFICES ASSUME PoolInv, Settled, Read PROVE Taken
    OBVIOUS
  <2>1. TypeOK /\ Connected /\ In("read") /\ inbox[call.conn] # <<>>
    BY DEF PoolInv, Read
  <2>2. alive /\ call.conn \in Used /\ call.conn \in Conn
    BY <2>1, CallFacts
  <2>3. Head(inbox[call.conn]) = inbox[call.conn][1] /\ 1 \in DOMAIN inbox[call.conn]
    <3>1. inbox[call.conn] \in Seq(Answers) /\ Len(inbox[call.conn]) \in Nat \ {0}
      BY <2>1, <2>2, EmptySeq, LenProperties DEF TypeOK
    <3>2. Head(inbox[call.conn]) = inbox[call.conn][1]
      BY <2>1, <3>1, HeadTailProperties, EmptySeq
    <3> QED
      BY <3>1, <3>2, LenProperties
  <2>4. /\ host[call.conn] = call.url.host
        /\ call.conn \notin unsettled => Mine(inbox[call.conn][1].req)
    BY <2>2, <2>3 DEF Settled, AllMine
  <2> QED
    BY <2>3, <2>4 DEF Mine
<1>2. OwnAnswer <=> [][Taken]_vars
  BY DEF OwnAnswer
<1> HIDE DEF Taken
<1>3. PoolInv /\ Settled /\ [Next]_vars => Settled'
  BY NextSettled
<1> QED
  BY <1>1, <1>2, <1>3, PoolInvariance, InitSettled, PTL DEF Spec

=============================================================================
