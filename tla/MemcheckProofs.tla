---------------------------- MODULE MemcheckProofs ----------------------------
(***************************************************************************)
(* Proofs about Memcheck, for every table size, every set of addresses and *)
(* every number of allocations: counters and bytes agree with the table,   *)
(* and the table is exact while the detector watches.                      *)
(***************************************************************************)
EXTENDS Memcheck, FiniteSetTheorems, WellFoundedInduction, TLAPS

Block == [ptr : Ptr, size : Size]
Stats == [total_allocations : Int, total_frees : Int, current_allocations : Int,
          peak_allocations : Int, current_bytes : Int, peak_bytes : Int]

\* The bytes of the entries of a table, as BytesExact counts them.
Bytes(table) == FoldFunction(LAMBDA e, n : e.size + n, 0, table)

\* CountersAgree and BytesExact, of any table and statistics, with their types.
Agree(table, stats) ==
  /\ table \in Seq(Block) /\ stats \in Stats
  /\ Len(table) <= MaxAllocs
  /\ stats.current_allocations = Len(table)
  /\ stats.total_allocations - stats.total_frees = Len(table)
  /\ Len(table) <= stats.peak_allocations
  /\ stats.peak_allocations <= MaxAllocs
  /\ stats.current_bytes = Bytes(table)

\* TableExact, of any table, set of blocks and heap.
Exact(table, S, h) ==
  /\ \A i \in DOMAIN table : table[i].ptr \in S
  /\ \A p \in S : \E i \in DOMAIN table : table[i].ptr = p
  /\ \A i, j \in DOMAIN table : table[i].ptr = table[j].ptr => i = j
  /\ \A i \in DOMAIN table : table[i].ptr \in DOMAIN h /\ table[i].size = h[table[i].ptr]

Heaped == DOMAIN heap \subseteq Ptr /\ \A p \in DOMAIN heap : heap[p] \in Size

IInv == /\ Agree(g_alloc_table, g_stats)
        /\ Heaped
        /\ g_initialized \in BOOLEAN
        /\ g_initialized => Exact(g_alloc_table, since, heap)

-----------------------------------------------------------------------------
(* The operations on the table.                                            *)

\* The slot of a block, when it has one.
LEMMA SlotFound ==
  ASSUME NEW table, NEW p, find_alloc_slot(table, p) # {}
  PROVE  LET i == CHOOSE k \in find_alloc_slot(table, p) : TRUE
         IN  i \in DOMAIN table /\ table[i].ptr = p
  BY DEF find_alloc_slot

\* Removing entry i moves the last one to its place and leaves the others.
LEMMA SwappedEntries ==
  ASSUME NEW table \in Seq(Block), NEW i \in DOMAIN table
  PROVE  /\ Swapped(table, i) \in Seq(Block)
         /\ Len(Swapped(table, i)) = Len(table) - 1
         /\ \A k \in 1..Len(table) - 1 :
              Swapped(table, i)[k] = IF k = i THEN table[Len(table)] ELSE table[k]
<1> DEFINE moved == [table EXCEPT ![i] = table[Len(table)]]
<1>1. Len(table) \in Nat \ {0} /\ DOMAIN table = 1..Len(table) /\ table[Len(table)] \in Block
  OBVIOUS
<1>2. moved \in Seq(Block) /\ Len(moved) = Len(table)
  BY <1>1
<1>3. \A k \in 1..Len(table) : moved[k] = IF k = i THEN table[Len(table)] ELSE table[k]
  BY <1>1
<1> HIDE DEF moved
<1>4. Swapped(table, i) = SubSeq(moved, 1, Len(table) - 1)
  BY DEF Swapped, moved
<1>5. QED BY <1>1, <1>2, <1>3, <1>4

\* Every counter is a number.
LEMMA FieldsTyped ==
  ASSUME NEW s \in Stats
  PROVE  /\ s.total_allocations \in Int /\ s.total_frees \in Int
         /\ s.current_allocations \in Int /\ s.peak_allocations \in Int
         /\ s.current_bytes \in Int /\ s.peak_bytes \in Int
  BY DEF Stats

\* The sizes in the table are numbers.
LEMMA BlockSizes == \A b \in Block : b.size \in Int
<1>1. \A n \in Size : n \in Int
  BY MemcheckAssumption
<1>2. QED BY <1>1 DEF Block

-----------------------------------------------------------------------------
(* The bytes of a table.  They are a fold over a set, so what it returns    *)
(* is shown by induction on the number of entries.                          *)

\* Induction, of a set of numbers.
LEMMA Induction ==
  ASSUME NEW B, 0 \in B, \A n \in Nat : n \in B => n + 1 \in B
  PROVE  \A n \in Nat : n \in B
<1> DEFINE T == Nat \ B
<1>1. SUFFICES ASSUME T # {} PROVE FALSE
  OBVIOUS
<1>2. PICK n \in T : \A k \in T : ~(<<k, n>> \in OpToRel(<, Nat))
  <2>1. T \subseteq Nat
    OBVIOUS
  <2> HIDE DEF T
  <2> QED
    BY <1>1, <2>1, WFMin, NatLessThanWellFounded
<1>3. n # 0 /\ n \in Nat
  OBVIOUS
<1>4. n - 1 \in Nat /\ n - 1 < n /\ (n - 1) + 1 = n
  BY <1>3
<1>5. n - 1 \notin T
  <2>1. <<n - 1, n>> \in OpToRel(<, Nat)
    BY <1>3, <1>4 DEF OpToRel
  <2> HIDE DEF T
  <2> QED
    BY <1>2, <2>1
<1> QED
  BY <1>3, <1>4, <1>5

\* The function the fold of BytesExact evaluates: the bytes of every part of
\* a table, one entry after the other.
Some(s) == CHOOSE x \in s : TRUE
IsSum(g, table) ==
  g = [s \in SUBSET (DOMAIN table) |-> IF s = {} THEN 0
                                     ELSE table[Some(s)].size + g[s \ {Some(s)}]]

\* The fold is such a function, taken of the whole table, if there is one.
LEMMA BytesIsSum ==
  ASSUME NEW table, NEW g0, IsSum(g0, table)
  PROVE  \E g : IsSum(g, table) /\ Bytes(table) = g[DOMAIN table]
<1> DEFINE h == CHOOSE g : IsSum(g, table)
<1>1. IsSum(h, table)
  OBVIOUS
<1>2. Bytes(table) = h[DOMAIN table]
  BY DEF Bytes, FoldFunction, FoldFunctionOnSet, MapThenFoldSet, IsSum, Some
<1> QED BY <1>1, <1>2

\* The parts with at most n entries.
Upto(table, n) == {s \in SUBSET (DOMAIN table) : Cardinality(s) <= n}

\* A part of a table with its first entry taken out is smaller.
LEMMA Fewer ==
  ASSUME NEW table, IsFiniteSet(DOMAIN table), NEW n \in Nat,
         NEW s \in Upto(table, n + 1), NEW i \in s
  PROVE  /\ s \ {i} \in Upto(table, n)
         /\ s \ {i} \in SUBSET (DOMAIN table)
<1>1. s \in SUBSET (DOMAIN table) /\ Cardinality(s) <= n + 1
  BY DEF Upto
<1>2. IsFiniteSet(s)
  BY <1>1, FS_Subset
<1>3. Cardinality(s \ {i}) = Cardinality(s) - 1 /\ Cardinality(s) \in Nat
  BY <1>2, FS_RemoveElement, FS_CardinalityType
<1>4. QED BY <1>1, <1>3 DEF Upto

\* Without entries only the empty part is left.
LEMMA NoneUpto ==
  ASSUME NEW table, IsFiniteSet(DOMAIN table), NEW s
  PROVE  s \in Upto(table, 0) <=> s = {}
<1>1. ASSUME s \in Upto(table, 0) PROVE s = {}
  <2>1. s \in SUBSET (DOMAIN table) /\ Cardinality(s) <= 0
    BY <1>1 DEF Upto
  <2>2. IsFiniteSet(s)
    BY <2>1, FS_Subset
  <2>3. Cardinality(s) \in Nat /\ (Cardinality(s) = 0 <=> s = {})
    BY <2>2, FS_CardinalityType, FS_EmptySet
  <2> QED BY <2>1, <2>3
<1>2. {} \in Upto(table, 0)
  BY FS_EmptySet DEF Upto
<1> QED BY <1>1, <1>2

\* Every part is at most as large as the table.
LEMMA AllUpto ==
  ASSUME NEW table, IsFiniteSet(DOMAIN table)
  PROVE  /\ Cardinality(DOMAIN table) \in Nat
         /\ Upto(table, Cardinality(DOMAIN table)) = SUBSET (DOMAIN table)
<1>1. Cardinality(DOMAIN table) \in Nat
  BY FS_CardinalityType
<1>2. \A s \in SUBSET (DOMAIN table) : Cardinality(s) <= Cardinality(DOMAIN table)
  BY FS_Subset
<1> QED BY <1>1, <1>2 DEF Upto

\* The sum exists: it is built for larger and larger parts of the table.
LEMMA SumExists ==
  ASSUME NEW table, IsFiniteSet(DOMAIN table)
  PROVE  \E g : IsSum(g, table)
<1> DEFINE Next1(g, s) == IF s = {} THEN 0 ELSE table[Some(s)].size + g[s \ {Some(s)}]
           Sums(g, n) == g = [s \in Upto(table, n) |-> Next1(g, s)]
           B == {n \in Nat : \E g : Sums(g, n)}
<1>0. \A s : s # {} => Some(s) \in s
  BY DEF Some
<1>1. 0 \in B
  <2> DEFINE g == [s \in Upto(table, 0) |-> 0]
  <2>1. \A s \in Upto(table, 0) : s = {}
    BY NoneUpto
  <2>2. Sums(g, 0)
    BY <2>1
  <2> QED BY <2>2
<1>2. ASSUME NEW n \in Nat, n \in B PROVE n + 1 \in B
  <2>1. PICK g : Sums(g, n)
    BY <1>2
  <2> DEFINE more == [s \in Upto(table, n + 1) |-> Next1(g, s)]
  <2>2. \A s \in Upto(table, n) : s \in Upto(table, n + 1)
    <3>1. ASSUME NEW s \in Upto(table, n) PROVE Cardinality(s) \in Nat
      BY FS_Subset, FS_CardinalityType DEF Upto
    <3> QED BY <3>1 DEF Upto
  <2>3. \A s \in Upto(table, n) : more[s] = g[s]
    BY <2>1, <2>2
  <2>4. ASSUME NEW s \in Upto(table, n + 1) PROVE Next1(g, s) = Next1(more, s)
    <3>1. CASE s = {}
      BY <3>1
    <3>2. CASE s # {}
      <4>1. s \ {Some(s)} \in Upto(table, n)
        BY <1>0, <3>2, Fewer
      <4> HIDE DEF more
      <4> QED BY <2>3, <3>2, <4>1
    <3> QED BY <3>1, <3>2
  <2>5. Sums(more, n + 1)
    <3> DEFINE k == [s \in Upto(table, n + 1) |-> Next1(more, s)]
    <3>1. \A s \in Upto(table, n + 1) : Next1(g, s) = Next1(more, s)
      BY <2>4
    <3> HIDE DEF Next1
    <3>2. more = k
      BY <3>1
    <3> QED BY <3>2
  <2>6. \E h : Sums(h, n + 1)
    <3> HIDE DEF more, Sums
    <3> QED BY <2>5
  <2> HIDE DEF Sums
  <2> QED BY <2>6
<1>3. \A n \in Nat : n \in B
  <2> HIDE DEF B
  <2> QED BY <1>1, <1>2, Induction
<1>4. PICK g : Sums(g, Cardinality(DOMAIN table))
  BY <1>3, AllUpto
<1> QED BY <1>4, AllUpto DEF IsSum

\* Sizes are numbers.
Sized(table) == IsFiniteSet(DOMAIN table) /\ \A i \in DOMAIN table : table[i].size \in Int

\* The sum of no entries, and of some.
LEMMA SumNone ==
  ASSUME NEW table, NEW g, IsSum(g, table)
  PROVE  g[{}] = 0
  BY DEF IsSum

LEMMA SumStep ==
  ASSUME NEW table, NEW g, IsSum(g, table), NEW s \in SUBSET (DOMAIN table), s # {}
  PROVE  /\ Some(s) \in s
         /\ g[s] = table[Some(s)].size + g[s \ {Some(s)}]
<1>1. Some(s) \in s
  BY DEF Some
<1>2. g[s] = IF s = {} THEN 0 ELSE table[Some(s)].size + g[s \ {Some(s)}]
  BY DEF IsSum
<1> QED BY <1>1, <1>2

\* The sum of a part is a number.
LEMMA SumTyped ==
  ASSUME NEW table, Sized(table), NEW g, IsSum(g, table)
  PROVE  \A s \in SUBSET (DOMAIN table) : g[s] \in Int
<1> DEFINE B == {n \in Nat : \A s \in Upto(table, n) : g[s] \in Int}
<1>0. IsFiniteSet(DOMAIN table) /\ \A i \in DOMAIN table : table[i].size \in Int
  BY DEF Sized
<1>1. 0 \in B
  <2>1. \A s \in Upto(table, 0) : g[s] \in Int
    BY <1>0, NoneUpto, SumNone
  <2> QED BY <2>1
<1>2. ASSUME NEW n \in Nat, n \in B PROVE n + 1 \in B
  <2>1. ASSUME NEW s \in Upto(table, n + 1) PROVE g[s] \in Int
    <3>0. s \in SUBSET (DOMAIN table)
      BY DEF Upto
    <3>1. CASE s = {}
      BY <3>1, SumNone
    <3>2. CASE s # {}
      <4>1. Some(s) \in s /\ g[s] = table[Some(s)].size + g[s \ {Some(s)}]
        BY <3>0, <3>2, SumStep
      <4>2. g[s \ {Some(s)}] \in Int
        BY <1>0, <1>2, <4>1, Fewer
      <4> QED BY <1>0, <3>0, <4>1, <4>2
    <3> QED BY <3>1, <3>2
  <2> QED BY <2>1
<1>3. \A n \in Nat : n \in B
  <2> HIDE DEF B
  <2> QED BY <1>1, <1>2, Induction
<1> QED BY <1>0, <1>3, AllUpto

\* Any entry of a part may be taken out first.
LEMMA SumSplit ==
  ASSUME NEW table, Sized(table), NEW g, IsSum(g, table)
  PROVE  \A s \in SUBSET (DOMAIN table) : \A i \in s : g[s] = table[i].size + g[s \ {i}]
<1> DEFINE Split(s) == \A i \in s : g[s] = table[i].size + g[s \ {i}]
           B == {n \in Nat : \A s \in Upto(table, n) : Split(s)}
<1>0. IsFiniteSet(DOMAIN table) /\ \A i \in DOMAIN table : table[i].size \in Int
  BY DEF Sized
<1>1. 0 \in B
  <2>1. \A s \in Upto(table, 0) : Split(s)
    BY <1>0, NoneUpto
  <2> QED BY <2>1
<1>2. ASSUME NEW n \in Nat, n \in B PROVE n + 1 \in B
  <2>1. ASSUME NEW s \in Upto(table, n + 1), NEW i \in s
        PROVE  g[s] = table[i].size + g[s \ {i}]
    <3> DEFINE x == Some(s)
    <3>0. s \in SUBSET (DOMAIN table)
      BY DEF Upto
    <3>1. x \in s /\ g[s] = table[x].size + g[s \ {x}]
      BY <3>0, SumStep
    <3> HIDE DEF x
    <3>2. CASE i = x
      BY <3>1, <3>2
    <3>3. CASE i # x
      <4>1. s \ {x} \in Upto(table, n) /\ s \ {i} \in Upto(table, n)
        BY <1>0, <3>1, Fewer
      <4>2. i \in s \ {x} /\ x \in s \ {i}
        BY <3>1, <3>3
      <4>3. /\ g[s \ {x}] = table[i].size + g[(s \ {x}) \ {i}]
            /\ g[s \ {i}] = table[x].size + g[(s \ {i}) \ {x}]
        BY <1>2, <4>1, <4>2
      <4>4. (s \ {x}) \ {i} = (s \ {i}) \ {x}
        OBVIOUS
      <4> DEFINE both == (s \ {x}) \ {i}
      <4>5. both \in SUBSET (DOMAIN table)
        BY <3>0
      <4>6. g[both] \in Int /\ table[i].size \in Int /\ table[x].size \in Int
        BY <1>0, <3>0, <3>1, <4>5, SumTyped
      <4>7. g[s \ {i}] = table[x].size + g[both]
        BY <4>3, <4>4
      <4>8. g[s \ {x}] = table[i].size + g[both]
        BY <4>3
      <4> HIDE DEF both
      <4> QED BY <3>1, <4>6, <4>7, <4>8
    <3> QED BY <3>2, <3>3
  <2> QED BY <2>1
<1>3. \A n \in Nat : n \in B
  <2> HIDE DEF B
  <2> QED BY <1>1, <1>2, Induction
<1>4. Cardinality(DOMAIN table) \in B
  <2> HIDE DEF B
  <2> QED BY <1>0, <1>3, AllUpto
<1>5. \A s \in Upto(table, Cardinality(DOMAIN table)) : Split(s)
  BY <1>4
<1> HIDE DEF Split
<1>6. \A s \in SUBSET (DOMAIN table) : Split(s)
  BY <1>0, <1>5, AllUpto
<1> QED BY <1>6 DEF Split

\* Two tables that have the same entries somewhere have the same sum there.
LEMMA SumSame ==
  ASSUME NEW t, Sized(t), NEW g, IsSum(g, t), NEW u, Sized(u), NEW h, IsSum(h, u),
         NEW S \in SUBSET (DOMAIN t), S \subseteq DOMAIN u, \A i \in S : t[i] = u[i]
  PROVE  g[S] = h[S]
<1> DEFINE B == {n \in Nat : \A s \in Upto(t, n) : s \subseteq S => g[s] = h[s]}
<1>0. IsFiniteSet(DOMAIN t)
  BY DEF Sized
<1>1. 0 \in B
  <2>1. \A s \in Upto(t, 0) : g[s] = h[s]
    BY <1>0, NoneUpto, SumNone
  <2> QED BY <2>1
<1>2. ASSUME NEW n \in Nat, n \in B PROVE n + 1 \in B
  <2>1. ASSUME NEW s \in Upto(t, n + 1), s \subseteq S PROVE g[s] = h[s]
    <3>0. s \in SUBSET (DOMAIN t) /\ s \in SUBSET (DOMAIN u)
      BY <2>1
    <3>1. CASE s = {}
      BY <3>1, SumNone
    <3>2. CASE s # {}
      <4> DEFINE x == Some(s)
      <4>0. x \in s /\ g[s] = t[x].size + g[s \ {x}]
        BY <3>0, <3>2, SumStep
      <4>1. h[s] = u[x].size + h[s \ {x}]
        BY <3>0, <3>2, SumStep
      <4> HIDE DEF x
      <4>2. s \ {x} \in Upto(t, n) /\ s \ {x} \subseteq S
        BY <1>0, <2>1, <4>0, Fewer
      <4>3. g[s \ {x}] = h[s \ {x}]
        BY <1>2, <4>2
      <4>4. t[x] = u[x]
        BY <2>1, <4>0
      <4> QED BY <4>0, <4>1, <4>3, <4>4
    <3> QED BY <3>1, <3>2
  <2> QED BY <2>1
<1>3. \A n \in Nat : n \in B
  <2> HIDE DEF B
  <2> QED BY <1>1, <1>2, Induction
<1>4. Cardinality(DOMAIN t) \in B /\ S \in Upto(t, Cardinality(DOMAIN t))
  <2> HIDE DEF B
  <2> QED BY <1>0, <1>3, AllUpto
<1> QED BY <1>4

\* The entries of a table are finitely many, and their sizes numbers.
LEMMA BlocksSized ==
  ASSUME NEW table \in Seq(Block)
  PROVE  Sized(table)
<1>1. Len(table) \in Nat /\ DOMAIN table = 1..Len(table)
  OBVIOUS
<1>2. IsFiniteSet(1..Len(table))
  BY <1>1, FS_Interval
<1>3. \A i \in DOMAIN table : table[i] \in Block
  OBVIOUS
<1>4. QED BY <1>1, <1>2, <1>3, BlockSizes DEF Sized

\* The bytes of a table by its sum.
LEMMA BytesBySum ==
  ASSUME NEW table \in Seq(Block)
  PROVE  \E g : IsSum(g, table) /\ Bytes(table) = g[1..Len(table)]
<1>1. DOMAIN table = 1..Len(table) /\ Sized(table)
  BY BlocksSized
<1>2. \E g : IsSum(g, table)
  BY <1>1, SumExists DEF Sized
<1>3. QED BY <1>1, <1>2, BytesIsSum

\* No entries, no bytes; one more, its bytes more.
LEMMA BytesAdded ==
  /\ Bytes(<<>>) = 0
  /\ \A table \in Seq(Block), e \in Block : Bytes(Append(table, e)) = Bytes(table) + e.size
<1>1. Bytes(<<>>) = 0
  <2>1. <<>> \in Seq(Block) /\ 1..Len(<<>>) = {}
    OBVIOUS
  <2>2. PICK g : IsSum(g, <<>>) /\ Bytes(<<>>) = g[1..Len(<<>>)]
    BY <2>1, BytesBySum
  <2>3. QED BY <2>1, <2>2, SumNone
<1>2. ASSUME NEW table \in Seq(Block), NEW e \in Block
      PROVE  Bytes(Append(table, e)) = Bytes(table) + e.size
  <2> DEFINE more == Append(table, e)  n == Len(table)
  <2>1. /\ more \in Seq(Block) /\ n \in Nat /\ Len(more) = n + 1 /\ more[n + 1] = e
        /\ \A i \in 1..n : more[i] = table[i]
    OBVIOUS
  <2>2. DOMAIN table = 1..n /\ DOMAIN more = 1..n + 1
    BY <2>1
  <2> HIDE DEF more, n
  <2>3. PICK g : IsSum(g, table) /\ Bytes(table) = g[1..n]
    BY BytesBySum DEF n
  <2>4. PICK h : IsSum(h, more) /\ Bytes(more) = h[1..n + 1]
    BY <2>1, BytesBySum
  <2>5. Sized(table) /\ Sized(more)
    BY <2>1, BlocksSized
  <2>6. n + 1 \in 1..n + 1 /\ (1..n + 1) \ {n + 1} = 1..n /\ 1..n \subseteq 1..n + 1
    BY <2>1
  <2>7. h[1..n + 1] = e.size + h[1..n]
    BY <2>1, <2>2, <2>4, <2>5, <2>6, SumSplit
  <2>8. g[1..n] = h[1..n]
    BY <2>1, <2>2, <2>3, <2>4, <2>5, <2>6, SumSame
  <2>9. g[1..n] \in Int /\ e.size \in Int
    BY <2>2, <2>3, <2>5, SumTyped, BlockSizes
  <2>10. Bytes(more) = Bytes(table) + e.size
    BY <2>3, <2>4, <2>7, <2>8, <2>9
  <2>11. QED BY <2>10 DEF more
<1>3. QED BY <1>1, <1>2

\* One entry less, its bytes less, although another takes its place.
LEMMA BytesRemoved ==
  ASSUME NEW table \in Seq(Block), NEW i \in DOMAIN table
  PROVE  Bytes(Swapped(table, i)) = Bytes(table) - table[i].size
<1> DEFINE fewer == Swapped(table, i)  n == Len(table)
<1>1. /\ fewer \in Seq(Block) /\ Len(fewer) = n - 1
      /\ \A k \in 1..n - 1 : fewer[k] = IF k = i THEN table[n] ELSE table[k]
  BY SwappedEntries
<1>2. n \in Nat /\ DOMAIN table = 1..n /\ i \in 1..n
  OBVIOUS
<1>3. DOMAIN fewer = 1..n - 1
  BY <1>1
<1> HIDE DEF fewer, n
<1>4. PICK g : IsSum(g, table) /\ Bytes(table) = g[1..n]
  BY BytesBySum DEF n
<1>5. PICK h : IsSum(h, fewer) /\ Bytes(fewer) = h[1..n - 1]
  BY <1>1, BytesBySum
<1>6. Sized(table) /\ Sized(fewer)
  BY <1>1, BlocksSized
<1>7. n \in 1..n /\ (1..n) \ {n} = 1..n - 1 /\ 1..n - 1 \subseteq 1..n
  BY <1>2
<1>8. g[1..n] = table[n].size + g[1..n - 1]
  <2>1. g[1..n] = table[n].size + g[(1..n) \ {n}]
    <3>1. 1..n \in SUBSET (DOMAIN table) /\ n \in 1..n
      BY <1>2, <1>7
    <3>2. QED BY <1>4, <1>6, <3>1, SumSplit
  <2>2. QED BY <1>7, <2>1
<1>9. \A k \in 1..n : table[k].size \in Int
  BY <1>2, BlockSizes
<1>10. CASE i = n
  <2>1. \A k \in 1..n - 1 : table[k] = fewer[k]
    BY <1>1, <1>2, <1>10
  <2>2. g[1..n - 1] = h[1..n - 1]
    BY <2>1, <1>2, <1>3, <1>4, <1>5, <1>6, <1>7, SumSame
  <2>3. g[1..n - 1] \in Int
    BY <1>2, <1>4, <1>6, <1>7, SumTyped
  <2>4. Bytes(fewer) = Bytes(table) - table[i].size
    BY <1>4, <1>5, <1>7, <1>8, <1>9, <1>10, <2>2, <2>3
  <2>5. QED BY <2>4 DEF fewer
<1>11. CASE i # n
  <2> DEFINE rest == (1..n - 1) \ {i}
  <2>1. i \in 1..n - 1 /\ fewer[i] = table[n]
    BY <1>1, <1>2, <1>11
  <2>2. \A k \in rest : table[k] = fewer[k]
    BY <1>1
  <2>3. rest \in SUBSET (1..n) /\ rest \subseteq 1..n - 1
    BY <1>7
  <2>4. g[1..n - 1] = table[i].size + g[rest]
    <3> DEFINE part == 1..n - 1
    <3>1. part \in SUBSET (DOMAIN table)
      BY <1>2, <1>7
    <3> HIDE DEF part
    <3>2. \A k \in part : g[part] = table[k].size + g[part \ {k}]
      BY <1>4, <1>6, <3>1, SumSplit
    <3>3. QED BY <2>1, <3>2 DEF part
  <2>5. h[1..n - 1] = fewer[i].size + h[rest]
    <3> DEFINE part == 1..n - 1
    <3>1. part \in SUBSET (DOMAIN fewer)
      BY <1>3
    <3> HIDE DEF part
    <3>2. \A k \in part : h[part] = fewer[k].size + h[part \ {k}]
      BY <1>5, <1>6, <3>1, SumSplit
    <3>3. QED BY <2>1, <3>2 DEF part
  <2> HIDE DEF rest
  <2>6. g[rest] = h[rest]
    <3>1. rest \in SUBSET (DOMAIN table) /\ rest \subseteq DOMAIN fewer
      BY <1>2, <1>3, <2>3
    <3>2. QED BY <1>4, <1>5, <1>6, <2>2, <3>1, SumSame
  <2>7. g[rest] \in Int
    BY <1>2, <1>4, <1>6, <2>3, SumTyped
  <2>8. Bytes(fewer) = Bytes(table) - table[i].size
    BY <1>2, <1>4, <1>5, <1>7, <1>8, <1>9, <2>1, <2>4, <2>5, <2>6, <2>7
  <2>9. QED BY <2>8 DEF fewer
<1>12. QED BY <1>10, <1>11

-----------------------------------------------------------------------------
(* The operations keep table, counters and blocks in step.                 *)

\* Adding a block keeps the counters in step, whether there is room or not.
LEMMA AddAgrees ==
  ASSUME NEW table, NEW stats, Agree(table, stats), NEW p \in Ptr, NEW n \in Size
  PROVE  Agree(add_allocation(table, p, n), Counted(table, stats, n))
<1>1. CASE Full(table)
  BY <1>1 DEF add_allocation, Counted
<1>2. CASE ~Full(table)
  <2> DEFINE e == [ptr |-> p, size |-> n]
  <2>1. e \in Block /\ Append(table, e) \in Seq(Block) /\ Len(Append(table, e)) = Len(table) + 1
    BY DEF Agree, Block
  <2>2. Len(table) \in Nat /\ Len(table) + 1 <= MaxAllocs
    BY <1>2, MemcheckAssumption DEF Full, Agree
  <2>3. add_allocation(table, p, n) = Append(table, e)
    BY <1>2 DEF add_allocation
  <2>4. n \in Int
    BY MemcheckAssumption
  <2> HIDE DEF e
  <2>5. /\ Counted(table, stats, n) \in Stats
        /\ Counted(table, stats, n).current_allocations = stats.current_allocations + 1
        /\ Counted(table, stats, n).total_allocations = stats.total_allocations + 1
        /\ Counted(table, stats, n).total_frees = stats.total_frees
        /\ Counted(table, stats, n).peak_allocations
             = Larger(stats.peak_allocations, stats.current_allocations + 1)
        /\ Counted(table, stats, n).current_bytes = stats.current_bytes + n
    <3>1. stats \in Stats
      BY DEF Agree
    <3>2. /\ stats.total_allocations + 1 \in Int /\ stats.current_allocations + 1 \in Int
          /\ Larger(stats.peak_allocations, stats.current_allocations + 1) \in Int
          /\ stats.current_bytes + n \in Int
          /\ Larger(stats.peak_bytes, stats.current_bytes + n) \in Int
      BY <3>1, <2>4, FieldsTyped DEF Larger
    <3>3. Counted(table, stats, n)
            = [total_allocations |-> stats.total_allocations + 1,
               total_frees |-> stats.total_frees,
               current_allocations |-> stats.current_allocations + 1,
               peak_allocations |-> Larger(stats.peak_allocations,
                                           stats.current_allocations + 1),
               current_bytes |-> stats.current_bytes + n,
               peak_bytes |-> Larger(stats.peak_bytes, stats.current_bytes + n)]
      BY <1>2 DEF Counted
    <3>4. QED BY <3>1, <3>2, <3>3, FieldsTyped DEF Stats
  <2> DEFINE more == Counted(table, stats, n)
  <2>6. /\ stats.current_allocations = Len(table)
        /\ stats.total_allocations - stats.total_frees = Len(table)
        /\ Len(table) <= stats.peak_allocations /\ stats.peak_allocations <= MaxAllocs
        /\ stats.total_allocations \in Int /\ stats.total_frees \in Int
        /\ stats.peak_allocations \in Int
    BY FieldsTyped DEF Agree
  <2>7. /\ more.current_allocations = Len(table) + 1
        /\ more.total_allocations - more.total_frees = Len(table) + 1
    BY <2>2, <2>5, <2>6
  <2>8. Len(table) + 1 <= more.peak_allocations /\ more.peak_allocations <= MaxAllocs
    BY <2>2, <2>5, <2>6, MemcheckAssumption DEF Larger
  <2> HIDE DEF more
  <2>9. more \in Stats
    BY <2>5 DEF more
  <2>10. more.current_bytes = Bytes(Append(table, e))
    <3>1. e.size = n
      BY DEF e
    <3>2. table \in Seq(Block) /\ stats.current_bytes = Bytes(table)
      BY DEF Agree
    <3>3. Bytes(Append(table, e)) = Bytes(table) + e.size
      BY <2>1, <3>2, BytesAdded
    <3>4. QED BY <2>5, <3>1, <3>2, <3>3 DEF more
  <2>11. Agree(Append(table, e), more)
    BY <2>1, <2>2, <2>7, <2>8, <2>9, <2>10 DEF Agree
  <2>12. QED BY <2>3, <2>11 DEF more
<1>3. QED BY <1>1, <1>2

\* Removing a block keeps the counters in step, whether it is known or not.
LEMMA RemoveAgrees ==
  ASSUME NEW table, NEW stats, Agree(table, stats), NEW p
  PROVE  Agree(remove_allocation(table, p), Uncounted(table, stats, p))
<1>1. CASE find_alloc_slot(table, p) = {}
  BY <1>1 DEF remove_allocation, Uncounted
<1>2. CASE find_alloc_slot(table, p) # {}
  <2> DEFINE i == CHOOSE k \in find_alloc_slot(table, p) : TRUE
  <2>1. i \in DOMAIN table
    BY <1>2, SlotFound
  <2>2. table[i].size \in Int
    <3>1. table \in Seq(Block)
      BY DEF Agree
    <3> HIDE DEF i
    <3>2. table[i] \in Block
      BY <2>1, <3>1
    <3>3. QED BY <3>2, BlockSizes
  <2>3. remove_allocation(table, p) = Swapped(table, i)
    BY <1>2 DEF remove_allocation
  <2>4. Uncounted(table, stats, p)
          = [total_allocations |-> stats.total_allocations,
             total_frees |-> stats.total_frees + 1,
             current_allocations |-> stats.current_allocations - 1,
             peak_allocations |-> stats.peak_allocations,
             current_bytes |-> stats.current_bytes - table[i].size,
             peak_bytes |-> stats.peak_bytes]
    BY <1>2 DEF Uncounted
  <2> HIDE DEF i
  <2>5. /\ Uncounted(table, stats, p) \in Stats
        /\ Uncounted(table, stats, p).current_allocations = stats.current_allocations - 1
        /\ Uncounted(table, stats, p).total_frees = stats.total_frees + 1
        /\ Uncounted(table, stats, p).total_allocations = stats.total_allocations
        /\ Uncounted(table, stats, p).peak_allocations = stats.peak_allocations
        /\ Uncounted(table, stats, p).current_bytes = stats.current_bytes - table[i].size
    <3>1. stats \in Stats
      BY DEF Agree
    <3>2. /\ stats.total_frees + 1 \in Int /\ stats.current_allocations - 1 \in Int
          /\ stats.current_bytes - table[i].size \in Int
      BY <3>1, <2>2, FieldsTyped
    <3>3. QED BY <2>4, <3>1, <3>2, FieldsTyped DEF Stats
  <2>6. Swapped(table, i) \in Seq(Block) /\ Len(Swapped(table, i)) = Len(table) - 1
    BY <2>1, SwappedEntries DEF Agree
  <2> DEFINE fewer == Uncounted(table, stats, p)
  <2>7. /\ stats.current_allocations = Len(table)
        /\ stats.total_allocations - stats.total_frees = Len(table)
        /\ Len(table) <= stats.peak_allocations /\ stats.peak_allocations <= MaxAllocs
        /\ stats.total_allocations \in Int /\ stats.total_frees \in Int
        /\ stats.peak_allocations \in Int
        /\ Len(table) <= MaxAllocs /\ Len(table) \in Nat
    BY FieldsTyped DEF Agree
  <2>8. /\ fewer.current_allocations = Len(table) - 1
        /\ fewer.total_allocations - fewer.total_frees = Len(table) - 1
        /\ Len(table) - 1 <= fewer.peak_allocations /\ fewer.peak_allocations <= MaxAllocs
    BY <2>5, <2>7
  <2>9. Len(table) - 1 <= MaxAllocs
    BY <2>7, MemcheckAssumption
  <2> HIDE DEF fewer
  <2>10. fewer \in Stats
    BY <2>5 DEF fewer
  <2>11. fewer.current_bytes = Bytes(Swapped(table, i))
    <3>1. table \in Seq(Block) /\ stats.current_bytes = Bytes(table)
      BY DEF Agree
    <3>2. Bytes(Swapped(table, i)) = Bytes(table) - table[i].size
      BY <2>1, <3>1, BytesRemoved
    <3>3. QED BY <2>5, <3>1, <3>2 DEF fewer
  <2>12. Agree(Swapped(table, i), fewer)
    BY <2>6, <2>8, <2>9, <2>10, <2>11 DEF Agree
  <2>13. QED BY <2>3, <2>12 DEF fewer
<1>3. QED BY <1>1, <1>2

\* A block new to the heap is added to an exact table.
LEMMA AddExact ==
  ASSUME NEW table \in Seq(Block), NEW S, NEW h, Exact(table, S, h),
         NEW p \in Ptr, p \notin S, NEW n \in Size
  PROVE  Exact(add_allocation(table, p, n), IF Full(table) THEN S ELSE S \cup {p},
               WithBlock(h, p, n))
<1>1. \A q \in DOMAIN h : q # p => q \in DOMAIN WithBlock(h, p, n) /\ WithBlock(h, p, n)[q] = h[q]
  BY DEF WithBlock
<1>2. p \in DOMAIN WithBlock(h, p, n) /\ WithBlock(h, p, n)[p] = n
  BY DEF WithBlock
<1>3. \A i \in DOMAIN table : table[i].ptr # p
  BY DEF Exact
<1>4. CASE Full(table)
  BY <1>1, <1>3, <1>4 DEF add_allocation, Exact
<1>5. CASE ~Full(table)
  <2> DEFINE e == [ptr |-> p, size |-> n]  new == Append(table, e)
  <2>1. new = add_allocation(table, p, n)
    BY <1>5 DEF add_allocation
  <2>2. e \in Block /\ e.ptr = p /\ e.size = n
    BY DEF Block
  <2> HIDE DEF e
  <2>3. DOMAIN new = 1..Len(table) + 1 /\ DOMAIN table = 1..Len(table) /\ Len(table) \in Nat
    BY <2>2
  <2>4. new[Len(table) + 1] = e /\ \A k \in DOMAIN table : new[k] = table[k]
    BY <2>2, <2>3
  <2> HIDE DEF new
  <2>5. \A k \in DOMAIN new : k \in DOMAIN table \/ k = Len(table) + 1
    BY <2>3
  <2>6. \A k \in DOMAIN table : k \in DOMAIN new
    BY <2>3
  <2>7. Len(table) + 1 \in DOMAIN new
    BY <2>3
  <2>8. Exact(new, S \cup {p}, WithBlock(h, p, n))
    <3>1. \A k \in DOMAIN new : new[k].ptr \in S \cup {p}
      BY <2>2, <2>4, <2>5 DEF Exact
    <3>2. \A q \in S \cup {p} : \E k \in DOMAIN new : new[k].ptr = q
      BY <2>2, <2>4, <2>6, <2>7 DEF Exact
    <3>3. \A k, l \in DOMAIN new : new[k].ptr = new[l].ptr => k = l
      BY <1>3, <2>2, <2>4, <2>5 DEF Exact
    <3>4. \A k \in DOMAIN new : /\ new[k].ptr \in DOMAIN WithBlock(h, p, n)
                                /\ new[k].size = WithBlock(h, p, n)[new[k].ptr]
      BY <1>1, <1>2, <1>3, <2>2, <2>4, <2>5 DEF Exact
    <3>5. QED BY <3>1, <3>2, <3>3, <3>4 DEF Exact
  <2>9. QED BY <1>5, <2>1, <2>8
<1>6. QED BY <1>4, <1>5

\* A table from which p is removed is exact for the blocks other than p, in
\* the heap as it was and in the heap without p.
LEMMA RemoveExact ==
  ASSUME NEW table \in Seq(Block), NEW S, NEW h, Exact(table, S, h), NEW p
  PROVE  /\ Exact(remove_allocation(table, p), S \ {p}, h)
         /\ Exact(remove_allocation(table, p), S \ {p}, WithoutBlock(h, p))
<1> DEFINE new == remove_allocation(table, p)
<1>1. Exact(new, S \ {p}, h)
  <2>1. CASE find_alloc_slot(table, p) = {}
    <3>1. \A i \in DOMAIN table : table[i].ptr # p
      BY <2>1 DEF find_alloc_slot
    <3>2. p \notin S
      BY <3>1 DEF Exact
    <3>3. QED BY <2>1, <3>1, <3>2 DEF remove_allocation, Exact
  <2>2. CASE find_alloc_slot(table, p) # {}
    <3> DEFINE i == CHOOSE k \in find_alloc_slot(table, p) : TRUE
    <3>1. i \in DOMAIN table /\ table[i].ptr = p
      BY <2>2, SlotFound
    <3>2. new = Swapped(table, i)
      BY <2>2 DEF remove_allocation
    <3> HIDE DEF i
    <3>3. /\ Len(table) \in Nat \ {0} /\ DOMAIN table = 1..Len(table)
          /\ DOMAIN new = 1..Len(table) - 1
      BY <3>1, <3>2, SwappedEntries
    <3>4. \A k \in DOMAIN new : new[k] = IF k = i THEN table[Len(table)] ELSE table[k]
      <4>1. \A k \in 1..Len(table) - 1 :
              Swapped(table, i)[k] = IF k = i THEN table[Len(table)] ELSE table[k]
        BY <3>1, SwappedEntries
      <4>2. QED BY <3>2, <3>3, <4>1
    <3> HIDE DEF new
    <3>5. \A k \in DOMAIN new : /\ k \in DOMAIN table /\ k # Len(table)
                                /\ Len(table) \in DOMAIN table
      BY <3>3
    <3>6. \A k \in DOMAIN table : k = Len(table) \/ k \in DOMAIN new
      BY <3>3
    <3>7. \A k \in DOMAIN new : new[k].ptr \in S \ {p}
      BY <3>1, <3>4, <3>5 DEF Exact
    <3>8. \A q \in S \ {p} : \E k \in DOMAIN new : new[k].ptr = q
      <4> SUFFICES ASSUME NEW q \in S \ {p}
                   PROVE  \E k \in DOMAIN new : new[k].ptr = q
        OBVIOUS
      <4>1. PICK k \in DOMAIN table : table[k].ptr = q
        BY DEF Exact
      <4>2. k # i
        BY <3>1, <4>1
      <4>3. CASE k = Len(table)
        BY <3>1, <3>4, <3>6, <4>1, <4>2, <4>3
      <4>4. CASE k # Len(table)
        BY <3>4, <3>6, <4>1, <4>2, <4>4
      <4>5. QED BY <4>3, <4>4
    <3>9. \A k, l \in DOMAIN new : new[k].ptr = new[l].ptr => k = l
      BY <3>1, <3>4, <3>5 DEF Exact
    <3>10. \A k \in DOMAIN new : new[k].ptr \in DOMAIN h /\ new[k].size = h[new[k].ptr]
      BY <3>4, <3>5 DEF Exact
    <3>11. QED BY <3>7, <3>8, <3>9, <3>10 DEF Exact
  <2>3. QED BY <2>1, <2>2
<1> HIDE DEF new
<1>2. \A q \in DOMAIN h : q # p => q \in DOMAIN WithoutBlock(h, p) /\ WithoutBlock(h, p)[q] = h[q]
  BY DEF WithoutBlock
<1>3. Exact(new, S \ {p}, WithoutBlock(h, p))
  BY <1>1, <1>2 DEF Exact
<1>4. QED BY <1>1, <1>3 DEF new

-----------------------------------------------------------------------------
(* The invariant.                                                          *)

LEMMA InitInvariant == Init => IInv
<1> SUFFICES ASSUME Init PROVE IInv
  OBVIOUS
<1>1. Agree(<<>>, NoStats)
  BY MemcheckAssumption, BytesAdded DEF Agree, NoStats, Stats
<1>2. Heaped /\ g_initialized = FALSE
  BY DEF Init, Heaped
<1>3. QED BY <1>1, <1>2 DEF Init, IInv

\* An allocation noted in table and statistics from which an invariant state
\* follows, whatever was there before.
LEMMA PutDownInvariant ==
  ASSUME NEW table, NEW stats, NEW S, NEW h, NEW p \in Ptr, NEW n \in Size,
         Agree(table, stats), Exact(table, S, h), p \notin S,
         heap' = WithBlock(h, p, n), PutDown(table, stats, S, p, n),
         DOMAIN h \subseteq Ptr, \A q \in DOMAIN h : h[q] \in Size,
         g_initialized' = TRUE
  PROVE  IInv'
<1>1. Agree(g_alloc_table, g_stats)'
  BY AddAgrees DEF PutDown
<1>2. table \in Seq(Block)
  BY DEF Agree
<1>3. Exact(g_alloc_table, since, heap)'
  BY <1>2, AddExact DEF PutDown
<1>4. Heaped'
  BY DEF Heaped, WithBlock
<1>5. QED BY <1>1, <1>3, <1>4 DEF IInv

\* What malloc, realloc and free do to the heap keeps it one.
LEMMA HeapedStep ==
  ASSUME Heaped, NEW p \in Ptr, NEW n \in Size, NEW q \in Ptr
  PROVE  /\ DOMAIN WithoutBlock(heap, p) \subseteq Ptr
         /\ \A r \in DOMAIN WithoutBlock(heap, p) : WithoutBlock(heap, p)[r] \in Size
         /\ heap' = WithBlock(heap, q, n) => Heaped'
         /\ heap' = WithBlock(WithoutBlock(heap, p), q, n) => Heaped'
         /\ heap' = WithoutBlock(heap, p) => Heaped'
  BY DEF Heaped, WithBlock, WithoutBlock

LEMMA NextInvariant == IInv /\ [Next]_vars => IInv'
<1> SUFFICES ASSUME IInv, [Next]_vars PROVE IInv'
  OBVIOUS
<1> USE DEF IInv
<1>0. g_alloc_table \in Seq(Block)
  BY DEF Agree
<1>1. Agree(<<>>, NoStats)
  BY MemcheckAssumption, BytesAdded DEF Agree, NoStats, Stats
<1>2. Exact(<<>>, {}, heap)
  BY DEF Exact
<1>3. CASE cwh_memcheck_init
  BY <1>1, <1>2, <1>3 DEF cwh_memcheck_init, Heaped
<1>4. CASE cwh_memcheck_shutdown
  BY <1>4 DEF cwh_memcheck_shutdown, Heaped
<1>5. CASE cwh_memcheck_reset
  BY <1>1, <1>2, <1>5 DEF cwh_memcheck_reset, Heaped
<1>6. ASSUME NEW n \in Size, cwh_memcheck_malloc(n) PROVE IInv'
  <2>1. PICK p \in Fresh : /\ heap' = WithBlock(heap, p, n)
                           /\ IF g_initialized
                              THEN PutDown(g_alloc_table, g_stats, since, p, n)
                              ELSE UNCHANGED <<g_alloc_table, g_stats, since>>
                           /\ UNCHANGED g_initialized
    BY <1>6 DEF cwh_memcheck_malloc
  <2>2. p \in Ptr /\ p \notin DOMAIN heap
    BY DEF Fresh, Live
  <2>3. CASE g_initialized
    <3>1. p \notin since
      BY <2>2, <2>3 DEF Exact
    <3>2. QED BY <2>1, <2>2, <2>3, <3>1, PutDownInvariant DEF Heaped
  <2>4. CASE ~g_initialized
    BY <2>1, <2>2, <2>4, HeapedStep
  <2>5. QED BY <2>3, <2>4
<1>7. ASSUME NEW p \in Live, cwh_memcheck_free(p) PROVE IInv'
  <2>1. p \in Ptr
    BY DEF Live, Heaped
  <2>2. heap' = WithoutBlock(heap, p) /\ UNCHANGED g_initialized
    BY <1>7 DEF cwh_memcheck_free
  <2>3. Heaped'
    BY <2>1, <2>2 DEF Heaped, WithoutBlock
  <2>4. CASE g_initialized
    <3>1. /\ g_alloc_table' = remove_allocation(g_alloc_table, p)
          /\ g_stats' = Uncounted(g_alloc_table, g_stats, p)
          /\ since' = since \ {p}
      BY <1>7, <2>4 DEF cwh_memcheck_free
    <3>2. Agree(g_alloc_table, g_stats)'
      BY <3>1, RemoveAgrees
    <3>3. Exact(g_alloc_table, since, heap)'
      BY <1>0, <2>2, <2>4, <3>1, RemoveExact
    <3>4. QED BY <2>2, <2>3, <3>2, <3>3
  <2>5. CASE ~g_initialized
    BY <1>7, <2>2, <2>3, <2>5 DEF cwh_memcheck_free
  <2>6. QED BY <2>4, <2>5
<1>8. ASSUME NEW p \in Live, NEW n \in Size, cwh_memcheck_realloc(p, n) PROVE IInv'
  <2> DEFINE table == remove_allocation(g_alloc_table, p)
             stats == Uncounted(g_alloc_table, g_stats, p)
             h == WithoutBlock(heap, p)
  <2>1. p \in Ptr /\ UNCHANGED g_initialized
    BY <1>8 DEF Live, Heaped, cwh_memcheck_realloc
  <2>2. Agree(table, stats)
    BY RemoveAgrees
  <2>3. g_initialized => /\ Exact(table, since \ {p}, heap)
                         /\ Exact(table, since \ {p}, h)
    BY <1>0, RemoveExact
  <2>4. DOMAIN h \subseteq Ptr /\ \A r \in DOMAIN h : h[r] \in Size
    BY <2>1, HeapedStep
  <2>5. \/ \E q \in Fresh \cup {p} :
              /\ heap' = WithBlock(h, q, n)
              /\ IF g_initialized THEN PutDown(table, stats, since \ {p}, q, n)
                 ELSE UNCHANGED <<g_alloc_table, g_stats, since>>
        \/ /\ heap' = IF n = 0 THEN h ELSE heap
           /\ IF g_initialized
              THEN g_alloc_table' = table /\ g_stats' = stats /\ since' = since \ {p}
              ELSE UNCHANGED <<g_alloc_table, g_stats, since>>
    BY <1>8 DEF cwh_memcheck_realloc
  <2> HIDE DEF table, stats
  <2>6. ASSUME NEW q \in Fresh \cup {p}, heap' = WithBlock(h, q, n),
               IF g_initialized THEN PutDown(table, stats, since \ {p}, q, n)
               ELSE UNCHANGED <<g_alloc_table, g_stats, since>>
        PROVE  IInv'
    <3>1. q \in Ptr
      BY <2>1 DEF Fresh
    <3>2. CASE g_initialized
      <4>1. q \notin since \ {p}
        BY <3>2 DEF Exact, Fresh, Live
      <4>2. QED BY <2>1, <2>2, <2>3, <2>4, <2>6, <3>1, <3>2, <4>1, PutDownInvariant
    <3>3. CASE ~g_initialized
      BY <2>1, <2>6, <3>1, <3>3, HeapedStep
    <3>4. QED BY <3>2, <3>3
  <2>7. ASSUME heap' = (IF n = 0 THEN h ELSE heap),
               IF g_initialized
               THEN g_alloc_table' = table /\ g_stats' = stats /\ since' = since \ {p}
               ELSE UNCHANGED <<g_alloc_table, g_stats, since>>
        PROVE  IInv'
    <3>1. Heaped'
      BY <2>4, <2>7 DEF Heaped
    <3>2. CASE g_initialized
      BY <2>1, <2>2, <2>3, <2>7, <3>1, <3>2
    <3>3. CASE ~g_initialized
      BY <2>1, <2>7, <3>1, <3>3
    <3>4. QED BY <3>2, <3>3
  <2>8. QED BY <2>5, <2>6, <2>7
<1>9. CASE UNCHANGED vars
  BY <1>9 DEF vars, Heaped
<1>10. QED BY <1>3, <1>4, <1>5, <1>6, <1>7, <1>8, <1>9 DEF Next

\* The inductive invariant: Memcheck keeps table and counters together through
\* every sequence of allocations, frees, restarts and resets.
THEOREM Invariance == Spec => []IInv
<1>1. QED BY InitInvariant, NextInvariant, PTL DEF Spec

\* For every size of the table, the counters of cwh_memcheck_get_stats are
\* those of the table, blocks it does not know notwithstanding.
THEOREM Counters == Spec => []CountersAgree
<1>1. IInv => CountersAgree
  BY DEF IInv, Agree, CountersAgree
<1>2. QED BY <1>1, Invariance, PTL

\* While the detector watches, the entries of the table are distinct blocks
\* that exist, with their sizes, none that came into being is missing, and
\* the bytes reported are the sum of theirs.
THEOREM Leaks == Spec => []LeaksExact
<1>1. IInv => (g_initialized => TableExact)
  BY DEF IInv, Exact, TableExact, Live
<1>2. IInv => BytesExact
  BY DEF IInv, Agree, BytesExact, Bytes
<1>3. IInv => LeaksExact
  BY <1>1, <1>2 DEF LeaksExact
<1>4. QED BY <1>3, Invariance, PTL

=============================================================================
