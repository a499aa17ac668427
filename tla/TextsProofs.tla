----------------------------- MODULE TextsProofs -----------------------------
(***************************************************************************)
(* What the algorithms of Texts compute, for every text: proofs of the     *)
(* invariants that the run of MCTexts checks on short ones.  The folds of  *)
(* the algorithms are folds over data of any length, so the module begins  *)
(* with an induction that needs no operator for a parameter: a set of      *)
(* numbers that has 0 and, with each number, the next has them all.        *)
(***************************************************************************)
EXTENDS Texts, SequenceTheorems, WellFoundedInduction, TLAPS

-----------------------------------------------------------------------------
(***************************************************************************)
(* Folds                                                                   *)
(***************************************************************************)

\* A set of numbers that has 0 and, with each number, the next.
LEMMA Induction ==
  ASSUME NEW B, 0 \in B, \A n \in Nat : n \in B => n + 1 \in B
  PROVE  \A n \in Nat : n \in B
<1> DEFINE T == Nat \ B
<1>1. SUFFICES ASSUME T # {} PROVE FALSE
  OBVIOUS
<1>2. PICK n \in T : \A k \in T : ~(<<k, n>> \in OpToRel(<, Nat))
  <2>1. T \subseteq Nat
    OBVIOUS
  <2> HIDE DEF T
  <2> QED
    BY <1>1, <2>1, WFMin, NatLessThanWellFounded
<1>3. n # 0 /\ n \in Nat
  OBVIOUS
<1>4. n - 1 \in Nat /\ n - 1 < n /\ (n - 1) + 1 = n
  BY <1>3
<1>5. n - 1 \notin T
  <2>1. <<n - 1, n>> \in OpToRel(<, Nat)
    BY <1>3, <1>4 DEF OpToRel
  <2> HIDE DEF T
  <2> QED
    BY <1>2, <2>1
<1> QED
  BY <1>3, <1>4, <1>5

\* A set of positions has a last one.
LEMMA LastOf ==
  ASSUME NEW n \in Nat, NEW s \in SUBSET (1..n), s # {}
  PROVE  /\ Max(s) \in s /\ \A k \in s : k <= Max(s)
         /\ s \ {Max(s)} \in SUBSET (1..Max(s) - 1)
<1> DEFINE IsLast(m, r) == m \in r /\ \A k \in r : k <= m
           B == {i \in Nat : \A r \in SUBSET (1..i) : r # {} => \E m : IsLast(m, r)}
<1>1. 0 \in B
  OBVIOUS
<1>2. ASSUME NEW i \in Nat, i \in B PROVE i + 1 \in B
  <2>1. ASSUME NEW r \in SUBSET (1..i + 1), r # {} PROVE \E m : IsLast(m, r)
    <3>1. CASE i + 1 \in r
      <4>1. IsLast(i + 1, r)
        BY <3>1
      <4> HIDE DEF IsLast
      <4> QED BY <4>1
    <3>2. CASE i + 1 \notin r
      <4>1. r \in SUBSET (1..i)
        BY <3>2
      <4> HIDE DEF IsLast
      <4> QED BY <1>2, <2>1, <4>1
    <3> QED BY <3>1, <3>2
  <2> HIDE DEF IsLast
  <2> QED BY <2>1
<1>3. n \in B
  <2> HIDE DEF B
  <2> QED BY <1>1, <1>2, Induction
<1>4. PICK m : IsLast(m, s)
  <2> HIDE DEF IsLast
  <2> QED BY <1>3
<1>5. IsLast(Max(s), s)
  <2>1. m \in s /\ \A k \in s : m >= k
    BY <1>4
  <2>2. Max(s) \in s /\ \A k \in s : Max(s) >= k
    BY <2>1 DEF Max
  <2> QED BY <2>2
<1>6. \A k \in s \ {Max(s)} : k \in 1..Max(s) - 1
  <2>1. ASSUME NEW k \in s, k # Max(s) PROVE k \in 1..Max(s) - 1
    <3>1. k \in Nat /\ 1 <= k /\ Max(s) \in Nat /\ k <= Max(s)
      <4>1. \A j \in s : j \in 1..n
        OBVIOUS
      <4>2. k \in 1..n /\ Max(s) \in 1..n /\ k <= Max(s)
        BY <1>5, <2>1, <4>1
      <4> HIDE DEF IsLast
      <4> QED BY <4>2
    <3> QED BY <2>1, <3>1
  <2> QED BY <2>1
<1> QED BY <1>5, <1>6

\* The positions up to the k-th are not empty, and the k-th is the last of them.
LEMMA LastOfPrefix ==
  ASSUME NEW n \in Nat, NEW k \in 1..n
  PROVE  /\ 1..k \in SUBSET (1..n) /\ 1..k # {} /\ Max(1..k) = k
         /\ (1..k) \ {k} = 1..k - 1
<1>1. 1..k \in SUBSET (1..n) /\ 1..k # {} /\ k \in 1..k /\ (1..k) \ {k} = 1..k - 1
  OBVIOUS
<1>2. Max(1..k) \in 1..k /\ \A j \in 1..k : j <= Max(1..k)
  BY <1>1, LastOf
<1> QED BY <1>1, <1>2

\* FoldLeft, of a function.
IsIter(g, h, base, seq) ==
  g = [s \in SUBSET (DOMAIN seq) |-> IF s = {} THEN base
                                     ELSE h[<<g[s \ {Max(s)}], seq[Max(s)]>>]]

\* There is such a function, and its values are in V.
LEMMA IterExists ==
  ASSUME NEW V, NEW W, NEW h \in [V \X W -> V], NEW base \in V, NEW seq \in Seq(W)
  PROVE  \E g \in [SUBSET (DOMAIN seq) -> V] : IsIter(g, h, base, seq)
<1> DEFINE Step(g, s) == IF s = {} THEN base ELSE h[<<g[s \ {Max(s)}], seq[Max(s)]>>]
           Iter(g, n) == g \in [SUBSET (1..n) -> V] /\ \A s \in SUBSET (1..n) : g[s] = Step(g, s)
           B == {n \in Nat : n <= Len(seq) => \E g : Iter(g, n)}
<1>0. Len(seq) \in Nat /\ DOMAIN seq = 1..Len(seq) /\ \A k \in 1..Len(seq) : seq[k] \in W
  OBVIOUS
<1>1. 0 \in B
  <2> DEFINE g == [s \in SUBSET (1..0) |-> base]
  <2>1. \A s \in SUBSET (1..0) : s = {}
    OBVIOUS
  <2>2. Iter(g, 0)
    BY <2>1
  <2> HIDE DEF Iter
  <2> QED BY <2>2
<1>2. ASSUME NEW n \in Nat, n \in B PROVE n + 1 \in B
  <2> SUFFICES ASSUME n + 1 <= Len(seq) PROVE \E g : Iter(g, n + 1)
    <3> HIDE DEF Iter
    <3> QED OBVIOUS
  <2>1. PICK g : Iter(g, n)
    <3> HIDE DEF Iter
    <3> QED BY <1>0, <1>2
  <2> DEFINE more == [s \in SUBSET (1..n + 1) |-> Step(g, s)]
  <2>2. \A s \in SUBSET (1..n) : s \in SUBSET (1..n + 1)
    OBVIOUS
  <2>3. \A s \in SUBSET (1..n) : more[s] = g[s]
    BY <2>1, <2>2
  <2>4. ASSUME NEW s \in SUBSET (1..n + 1), s # {}
        PROVE  s \ {Max(s)} \in SUBSET (1..n) /\ Max(s) \in 1..Len(seq)
    <3>1. Max(s) \in s /\ s \ {Max(s)} \in SUBSET (1..Max(s) - 1)
      <4>1. n + 1 \in Nat
        OBVIOUS
      <4> QED BY <2>4, <4>1, LastOf
    <3>2. Max(s) \in 1..n + 1
      BY <3>1
    <3>3. 1..Max(s) - 1 \subseteq 1..n
      BY <3>2
    <3> QED BY <1>0, <3>1, <3>2, <3>3
  <2>5. ASSUME NEW s \in SUBSET (1..n + 1)
        PROVE  Step(g, s) = Step(more, s) /\ Step(g, s) \in V
    <3>1. CASE s = {}
      BY <3>1
    <3>2. CASE s # {}
      <4>1. s \ {Max(s)} \in SUBSET (1..n) /\ seq[Max(s)] \in W
        BY <1>0, <2>4, <3>2
      <4>2. g[s \ {Max(s)}] \in V
        BY <2>1, <4>1
      <4>3. more[s \ {Max(s)}] = g[s \ {Max(s)}]
        BY <2>3, <4>1
      <4> HIDE DEF more
      <4> QED BY <3>2, <4>1, <4>2, <4>3
    <3> QED BY <3>1, <3>2
  <2>6. Iter(more, n + 1)
    <3> DEFINE f == more
    <3>1. more \in [SUBSET (1..n + 1) -> V]
      BY <2>5
    <3>2. \A s \in SUBSET (1..n + 1) : more[s] = Step(g, s)
      OBVIOUS
    <3> HIDE DEF more, Step
    <3>3. \A s \in SUBSET (1..n + 1) : more[s] = Step(more, s)
      BY <2>5, <3>2
    <3> QED BY <3>1, <3>3
  <2> HIDE DEF Iter, more
  <2> QED BY <2>6
<1>3. \A n \in Nat : n \in B
  <2> HIDE DEF B
  <2> QED BY <1>1, <1>2, Induction
<1>4. PICK g : Iter(g, Len(seq))
  <2> HIDE DEF Iter
  <2> QED BY <1>0, <1>3
<1>5. g \in [SUBSET (DOMAIN seq) -> V] /\ IsIter(g, h, base, seq)
  BY <1>0, <1>4 DEF IsIter
<1> QED BY <1>5

\* The values a fold runs through, and the last.
IsRun(v, h, base, seq) ==
  v = [k \in 0..Len(seq) |-> IF k = 0 THEN base ELSE h[<<v[k - 1], seq[k]>>]]
Folded(h, base, seq) == (CHOOSE v : IsRun(v, h, base, seq))[Len(seq)]

\* c takes the steps of the fold, up to the n-th.
Follows(c, V, h, base, seq, n) ==
  c[0] = base /\ \A k \in 1..n : c[k - 1] \in V => c[k] = h[<<c[k - 1], seq[k]>>]

\* h folds sequences over W, from values in V to values in V.
Foldable(V, W, h, base, seq) == h \in [V \X W -> V] /\ base \in V /\ seq \in Seq(W)

\* Whatever takes the same steps runs through the same values.
LEMMA RunIs ==
  ASSUME NEW V, NEW W, NEW h, NEW base, NEW seq, Foldable(V, W, h, base, seq),
         NEW v, IsRun(v, h, base, seq), NEW n \in 0..Len(seq),
         NEW c, Follows(c, V, h, base, seq, n)
  PROVE  \A k \in 0..n : c[k] \in V /\ c[k] = v[k]
<1> USE DEF Foldable
<1> DEFINE B == {k \in Nat : k <= n => c[k] \in V /\ c[k] = v[k]}
<1>0. Len(seq) \in Nat /\ \A k \in 1..Len(seq) : seq[k] \in W
  OBVIOUS
<1>1. v[0] = base /\ \A k \in 1..Len(seq) : v[k] = h[<<v[k - 1], seq[k]>>]
  BY <1>0 DEF IsRun
<1>2. 0 \in B
  BY <1>1 DEF Follows
<1>3. ASSUME NEW k \in Nat, k \in B PROVE k + 1 \in B
  <2> SUFFICES ASSUME k + 1 <= n PROVE c[k + 1] \in V /\ c[k + 1] = v[k + 1]
    OBVIOUS
  <2>1. c[k] \in V /\ c[k] = v[k]
    BY <1>3
  <2>2. k + 1 \in 1..n /\ k + 1 \in 1..Len(seq) /\ (k + 1) - 1 = k
    OBVIOUS
  <2>3. c[k + 1] = h[<<c[k], seq[k + 1]>>] /\ v[k + 1] = h[<<v[k], seq[k + 1]>>]
    BY <1>1, <2>1, <2>2 DEF Follows
  <2>4. <<c[k], seq[k + 1]>> \in V \X W
    BY <1>0, <2>1, <2>2
  <2> QED BY <2>1, <2>3, <2>4
<1>4. \A k \in Nat : k \in B
  <2> HIDE DEF B
  <2> QED BY <1>2, <1>3, Induction
<1> QED BY <1>4

\* There are such values.
LEMMA RunExists ==
  ASSUME NEW V, NEW W, NEW h, NEW base, NEW seq, Foldable(V, W, h, base, seq)
  PROVE  \E v : IsRun(v, h, base, seq)
<1> USE DEF Foldable
<1>1. PICK g \in [SUBSET (DOMAIN seq) -> V] : IsIter(g, h, base, seq)
  BY IterExists
<1>2. Len(seq) \in Nat /\ DOMAIN seq = 1..Len(seq)
  OBVIOUS
<1> DEFINE v == [k \in 0..Len(seq) |-> g[1..k]]
<1>3. ASSUME NEW k \in 0..Len(seq)
      PROVE  v[k] = IF k = 0 THEN base ELSE h[<<v[k - 1], seq[k]>>]
  <2>1. CASE k = 0
    <3>1. 1..k = {} /\ {} \in SUBSET (DOMAIN seq)
      BY <2>1
    <3>2. g[{}] = base
      BY <1>1 DEF IsIter
    <3> QED BY <2>1, <3>1, <3>2
  <2>2. CASE k # 0
    <3>0. k \in 1..Len(seq) /\ k - 1 \in 0..Len(seq)
      BY <2>2
    <3>1. /\ 1..k \in SUBSET (1..Len(seq)) /\ 1..k # {} /\ Max(1..k) = k
          /\ (1..k) \ {k} = 1..k - 1
      BY <1>2, <3>0, LastOfPrefix
    <3>2. g[1..k] = h[<<g[(1..k) \ {Max(1..k)}], seq[Max(1..k)]>>]
      <4> DEFINE s == 1..k
      <4>1. s \in SUBSET (DOMAIN seq) /\ s # {}
        BY <1>2, <3>1
      <4> HIDE DEF s
      <4>2. g[s] = h[<<g[s \ {Max(s)}], seq[Max(s)]>>]
        BY <1>1, <4>1 DEF IsIter
      <4> QED BY <4>2 DEF s
    <3>3. g[1..k] = h[<<g[1..k - 1], seq[k]>>]
      BY <3>1, <3>2
    <3> QED BY <2>2, <3>0, <3>3
  <2> QED BY <2>1, <2>2
<1>4. IsRun(v, h, base, seq)
  <2>1. v = [k \in 0..Len(seq) |-> v[k]]
    OBVIOUS
  <2> HIDE DEF v
  <2> QED BY <1>3, <2>1 DEF IsRun
<1> QED BY <1>4

\* A fold ends where whatever takes its steps ends.
LEMMA FoldedIs ==
  ASSUME NEW V, NEW W, NEW h, NEW base, NEW seq, Foldable(V, W, h, base, seq),
         NEW c, Follows(c, V, h, base, seq, Len(seq))
  PROVE  Folded(h, base, seq) = c[Len(seq)] /\ Folded(h, base, seq) \in V
<1>1. Len(seq) \in Nat /\ Len(seq) \in 0..Len(seq)
  BY DEF Foldable
<1> DEFINE v == CHOOSE v : IsRun(v, h, base, seq)
<1>2. IsRun(v, h, base, seq)
  BY RunExists
<1>3. Folded(h, base, seq) = v[Len(seq)]
  BY DEF Folded
<1> HIDE DEF v
<1>4. \A k \in 0..Len(seq) : c[k] \in V /\ c[k] = v[k]
  BY <1>1, <1>2, RunIs
<1> QED BY <1>1, <1>3, <1>4

\* A set of positions, its last one, and what is before it.
LEMMA IterStep ==
  ASSUME NEW W, NEW seq \in Seq(W), NEW s \in SUBSET (DOMAIN seq), s # {}
  PROVE  seq[Max(s)] \in W /\ s \ {Max(s)} \in SUBSET (DOMAIN seq)
<1>1. Len(seq) \in Nat /\ DOMAIN seq = 1..Len(seq) /\ \A k \in 1..Len(seq) : seq[k] \in W
  OBVIOUS
<1>2. Max(s) \in s
  BY <1>1, LastOf
<1> QED BY <1>1, <1>2

\* c gives each set of positions the value that FoldLeft gives it.
Iterates(c, V, h, base, seq) ==
  /\ c[{}] = base
  /\ \A s \in SUBSET (DOMAIN seq) : s # {} /\ c[s \ {Max(s)}] \in V =>
       c[s] = h[<<c[s \ {Max(s)}], seq[Max(s)]>>]

\* A function that takes those steps gives all positions what the fold ends with.
LEMMA IteratedIs ==
  ASSUME NEW V, NEW W, NEW h, NEW base, NEW seq, Foldable(V, W, h, base, seq),
         NEW c, Iterates(c, V, h, base, seq)
  PROVE  c[DOMAIN seq] = Folded(h, base, seq)
<1> DEFINE v == [k \in 0..Len(seq) |-> c[1..k]]
<1>1. Len(seq) \in Nat /\ DOMAIN seq = 1..Len(seq)
  BY DEF Foldable
<1>2. v[0] = base
  <2>1. 1..0 = {} /\ 0 \in 0..Len(seq)
    BY <1>1
  <2> QED BY <2>1 DEF Iterates
<1>3. ASSUME NEW k \in 1..Len(seq), v[k - 1] \in V
      PROVE  v[k] = h[<<v[k - 1], seq[k]>>]
  <2>1. k - 1 \in 0..Len(seq) /\ k \in 0..Len(seq)
    OBVIOUS
  <2>2. /\ 1..k \in SUBSET (1..Len(seq)) /\ 1..k # {} /\ Max(1..k) = k
        /\ (1..k) \ {k} = 1..k - 1
    BY <1>1, LastOfPrefix
  <2>3. c[1..k - 1] \in V
    BY <1>3, <2>1
  <2> DEFINE s == 1..k
  <2>4. s \in SUBSET (DOMAIN seq) /\ s # {} /\ c[s \ {Max(s)}] \in V
    BY <1>1, <2>2, <2>3
  <2> HIDE DEF s
  <2>5. c[s] = h[<<c[s \ {Max(s)}], seq[Max(s)]>>]
    BY <2>4 DEF Iterates
  <2>6. c[1..k] = h[<<c[1..k - 1], seq[k]>>]
    BY <2>2, <2>5 DEF s
  <2> QED BY <2>1, <2>6
<1>4. Len(seq) \in 0..Len(seq) /\ v[Len(seq)] = c[DOMAIN seq]
  BY <1>1
<1> HIDE DEF v
<1>5. Follows(v, V, h, base, seq, Len(seq))
  BY <1>2, <1>3 DEF Follows
<1> QED BY <1>4, <1>5, FoldedIs

\* The result of a fold is a value.
LEMMA FoldedTyped ==
  ASSUME NEW V, NEW W, NEW h, NEW base, NEW seq, Foldable(V, W, h, base, seq)
  PROVE  Folded(h, base, seq) \in V
<1>1. PICK v : IsRun(v, h, base, seq)
  BY RunExists
<1>2. Len(seq) \in Nat
  BY DEF Foldable
<1>3. Follows(v, V, h, base, seq, Len(seq))
  <2>1. \A k \in 0..Len(seq) : v[k] = IF k = 0 THEN base ELSE h[<<v[k - 1], seq[k]>>]
    BY <1>1 DEF IsRun
  <2>2. 0 \in 0..Len(seq) /\ \A k \in 1..Len(seq) : k \in 0..Len(seq) /\ k # 0
    BY <1>2
  <2> QED BY <2>1, <2>2 DEF Follows
<1> QED BY <1>3, FoldedIs

\* A fold over nothing, and over one element more.
LEMMA FoldedEmpty ==
  ASSUME NEW V, NEW W, NEW h, NEW base, Foldable(V, W, h, base, <<>>)
  PROVE  Folded(h, base, <<>>) = base
<1>1. Len(<<>>) = 0
  OBVIOUS
<1>2. \E v : IsRun(v, h, base, <<>>)
  BY RunExists
<1>3. \A v : IsRun(v, h, base, <<>>) => v[0] = base
  BY <1>1 DEF IsRun
<1> QED BY <1>1, <1>2, <1>3 DEF Folded

\* A fold over one element more goes one step further.
LEMMA FoldedAppend ==
  ASSUME NEW V, NEW W, NEW h, NEW base, NEW seq, Foldable(V, W, h, base, seq), NEW e \in W
  PROVE  /\ Folded(h, base, seq) \in V
         /\ Folded(h, base, Append(seq, e)) = h[<<Folded(h, base, seq), e>>]
<1> DEFINE more == Append(seq, e)  n == Len(seq)
<1>0. Foldable(V, W, h, base, more)
  BY DEF Foldable
<1>1. /\ more \in Seq(W) /\ Len(more) = n + 1 /\ n \in Nat /\ more[n + 1] = e
      /\ \A k \in 1..n : more[k] = seq[k]
  BY DEF Foldable
<1> HIDE DEF more, n
<1>2. PICK v : IsRun(v, h, base, more)
  BY <1>0, RunExists
<1>3. v[0] = base /\ \A k \in 1..n + 1 : v[k] = h[<<v[k - 1], more[k]>>]
  BY <1>1, <1>2 DEF IsRun
<1>4. \A k \in 1..n : v[k] = h[<<v[k - 1], seq[k]>>]
  BY <1>1, <1>3
<1>5. Folded(h, base, seq) = v[n] /\ Folded(h, base, seq) \in V
  <2>1. Follows(v, V, h, base, seq, n)
    BY <1>3, <1>4 DEF Follows
  <2> QED BY <2>1, FoldedIs DEF n
<1>6. Follows(v, V, h, base, more, Len(more))
  BY <1>1, <1>3 DEF Follows
<1>7. Folded(h, base, more) = v[Len(more)]
  BY <1>0, <1>6, FoldedIs
<1>8. v[n + 1] = h[<<v[n], e>>]
  <2>1. n + 1 \in 1..n + 1 /\ (n + 1) - 1 = n
    BY <1>1
  <2> QED BY <1>1, <1>3, <2>1
<1> QED BY <1>1, <1>5, <1>7, <1>8 DEF more

-----------------------------------------------------------------------------
(***************************************************************************)
(* Sequences                                                               *)
(***************************************************************************)

\* The elements of a concatenation and of a cut.
Joined(s, t) == s \o t

\* j is s and then t, both sequences over S.
IsJoin(S, s, t, j) ==
  /\ j \in Seq(S) /\ Len(j) = Len(s) + Len(t)
  /\ Len(s) \in Nat /\ Len(t) \in Nat
  /\ \A i \in 1..Len(s) : j[i] = s[i]
  /\ \A i \in 1..Len(t) : j[Len(s) + i] = t[i]

\* Two sequences joined have the symbols of both, in their places.
LEMMA JoinedAt ==
  ASSUME NEW S, NEW s \in Seq(S), NEW t \in Seq(S)
  PROVE  IsJoin(S, s, t, Joined(s, t))
<1>1. Len(s) \in Nat /\ Len(t) \in Nat
  OBVIOUS
<1>2. /\ s \o t \in Seq(S) /\ Len(s \o t) = Len(s) + Len(t)
      /\ \A i \in 1..Len(s) : (s \o t)[i] = s[i]
      /\ \A i \in 1..Len(t) : (s \o t)[Len(s) + i] = t[i]
  OBVIOUS
<1> QED BY <1>1, <1>2 DEF Joined, IsJoin

\* A cut has the symbols from its first place on.
LEMMA CutAt ==
  ASSUME NEW S, NEW s \in Seq(S), NEW m \in 1..Len(s) + 1, NEW n \in m - 1..Len(s)
  PROVE  /\ SubSeq(s, m, n) \in Seq(S) /\ Len(SubSeq(s, m, n)) = n - m + 1
         /\ \A i \in 1..n - m + 1 : SubSeq(s, m, n)[i] = s[m - 1 + i]
<1>1. m \in Int /\ n \in Int /\ \A i \in m..n : s[i] \in S
  OBVIOUS
<1> DEFINE c == SubSeq(s, m, n)
<1>2. /\ c \in Seq(S) /\ Len(c) = IF m <= n THEN n - m + 1 ELSE 0
      /\ \A i \in 1..n - m + 1 : c[i] = s[m + i - 1]
  BY <1>1, SubSeqProperties
<1> HIDE DEF c
<1>3. Len(c) = n - m + 1
  BY <1>2
<1>4. \A i \in 1..n - m + 1 : m + i - 1 = m - 1 + i
  OBVIOUS
<1>5. \A i \in 1..n - m + 1 : c[i] = s[m - 1 + i]
  BY <1>2, <1>4
<1> QED BY <1>2, <1>3, <1>5 DEF c

\* A set of sequences that has the empty one and, with each, those that are
\* longer by one, has them all.
LEMMA SeqInduction ==
  ASSUME NEW S, NEW Q, <<>> \in Q, \A f \in Seq(S), e \in S : f \in Q => Append(f, e) \in Q
  PROVE  \A t \in Seq(S) : t \in Q
<1> DEFINE B == {n \in Nat : \A t \in Seq(S) : Len(t) = n => t \in Q}
<1>1. 0 \in B
  <2>1. \A t \in Seq(S) : Len(t) = 0 => t = <<>>
    OBVIOUS
  <2> QED BY <2>1
<1>2. ASSUME NEW n \in Nat, n \in B PROVE n + 1 \in B
  <2> SUFFICES ASSUME NEW t \in Seq(S), Len(t) = n + 1 PROVE t \in Q
    OBVIOUS
  <2> DEFINE f == SubSeq(t, 1, n)  e == t[n + 1]
  <2>1. 1 \in 1..Len(t) + 1 /\ n \in 1 - 1..Len(t) /\ n - 1 + 1 = n
    OBVIOUS
  <2>2. f \in Seq(S) /\ Len(f) = n - 1 + 1 /\ \A i \in 1..n - 1 + 1 : f[i] = t[1 - 1 + i]
    BY <2>1, CutAt
  <2>3. e \in S
    OBVIOUS
  <2> HIDE DEF f
  <2>4. Len(f) = n /\ \A i \in 1..n : f[i] = t[i]
    BY <2>1, <2>2
  <2>5. t = Append(f, e)
    <3>1. /\ Append(f, e) \in Seq(S) /\ Len(Append(f, e)) = n + 1
          /\ \A i \in 1..n + 1 : Append(f, e)[i] = t[i]
      BY <2>2, <2>3, <2>4
    <3> QED BY <3>1, SeqEqual
  <2> HIDE DEF e
  <2>6. f \in Q
    BY <1>2, <2>2, <2>4
  <2> QED BY <2>2, <2>3, <2>5, <2>6
<1>3. \A n \in Nat : n \in B
  <2> HIDE DEF B
  <2> QED BY <1>1, <1>2, Induction
<1>4. \A t \in Seq(S) : Len(t) \in Nat
  OBVIOUS
<1> QED BY <1>3, <1>4

\* A sequence with one element more at its beginning.
LEMMA Prepended ==
  ASSUME NEW X, NEW x \in X, NEW s \in Seq(X)
  PROVE  /\ <<x>> \o s \in Seq(X) /\ Len(<<x>> \o s) = Len(s) + 1 /\ Len(s) \in Nat
         /\ (<<x>> \o s)[1] = x /\ \A k \in 1..Len(s) : (<<x>> \o s)[k + 1] = s[k]
<1>1. <<x>> \in Seq(X) /\ Len(<<x>>) = 1 /\ <<x>>[1] = x
  OBVIOUS
<1> DEFINE b == <<x>>
<1>2. IsJoin(X, b, s, Joined(b, s))
  <2> HIDE DEF b
  <2> QED BY <1>1, JoinedAt DEF b
<1> DEFINE j == b \o s
<1>3. /\ j \in Seq(X) /\ Len(j) = Len(b) + Len(s) /\ Len(s) \in Nat
      /\ \A i \in 1..Len(b) : j[i] = b[i]
      /\ \A i \in 1..Len(s) : j[Len(b) + i] = s[i]
  BY <1>2 DEF IsJoin, Joined
<1>4. Len(b) = 1 /\ b[1] = x
  BY <1>1
<1> HIDE DEF b, j
<1>5. /\ j \in Seq(X) /\ Len(j) = Len(s) + 1 /\ Len(s) \in Nat
      /\ j[1] = x /\ \A k \in 1..Len(s) : j[k + 1] = s[k]
  <2>1. \A k \in 1..Len(s) : 1 + k = k + 1
    BY <1>3
  <2> QED BY <1>3, <1>4, <2>1
<1> QED BY <1>5 DEF b, j

\* s with x before it.
Push(x, s) == <<x>> \o s

\* s with x before it and e behind it.
LEMMA PushAppend ==
  ASSUME NEW X, NEW x \in X, NEW s \in Seq(X), NEW e \in X
  PROVE  Push(x, Append(s, e)) = Append(Push(x, s), e) /\ Push(x, s) \in Seq(X)
<1> DEFINE b == <<x>>  d == <<e>>
<1>1. b \in Seq(X) /\ d \in Seq(X)
  OBVIOUS
<1>2. b \o s \in Seq(X) /\ Append(s, e) = s \o d
  BY <1>1, ConcatProperties, AppendIsConcat
<1>3. Append(b \o s, e) = (b \o s) \o d
  BY <1>2, AppendIsConcat
<1> HIDE DEF b, d
<1>4. b \o (s \o d) = (b \o s) \o d
  BY <1>1, ConcatAssociative
<1> QED BY <1>2, <1>3, <1>4 DEF Push, b

\* A sequence without one of its elements.
LEMMA Removed ==
  ASSUME NEW X, NEW s \in Seq(X), NEW m \in 1..Len(s)
  PROVE  /\ RemoveAt(s, m) \in Seq(X) /\ Len(RemoveAt(s, m)) = Len(s) - 1
         /\ \A k \in 1..Len(s) - 1 : RemoveAt(s, m)[k] = IF k < m THEN s[k] ELSE s[k + 1]
<1> DEFINE a == SubSeq(s, 1, m - 1)  b == SubSeq(s, m + 1, Len(s))  r == Joined(a, b)
<1>0. Len(s) \in Nat /\ m \in Nat
  OBVIOUS
<1>1. a \in Seq(X) /\ Len(a) = m - 1 /\ \A i \in 1..m - 1 : a[i] = s[i]
  <2>1. 1 \in 1..Len(s) + 1 /\ m - 1 \in 1 - 1..Len(s) /\ m - 1 - 1 + 1 = m - 1
    OBVIOUS
  <2>2. a \in Seq(X) /\ Len(a) = m - 1 - 1 + 1 /\ \A i \in 1..m - 1 - 1 + 1 : a[i] = s[1 - 1 + i]
    BY <2>1, CutAt
  <2>3. \A i \in 1..m - 1 : 1 - 1 + i = i
    OBVIOUS
  <2> HIDE DEF a
  <2> QED BY <2>1, <2>2, <2>3
<1>2. b \in Seq(X) /\ Len(b) = Len(s) - m /\ \A i \in 1..Len(s) - m : b[i] = s[m + i]
  <2> DEFINE i0 == m + 1  n == Len(s)
  <2>1. i0 \in 1..Len(s) + 1 /\ n \in i0 - 1..Len(s) /\ n - i0 + 1 = Len(s) - m
    BY <1>0
  <2>2. \A i \in 1..Len(s) - m : i0 - 1 + i = m + i
    OBVIOUS
  <2>3. b = SubSeq(s, i0, n)
    OBVIOUS
  <2> HIDE DEF b, i0, n
  <2>4. b \in Seq(X) /\ Len(b) = n - i0 + 1 /\ \A i \in 1..n - i0 + 1 : b[i] = s[i0 - 1 + i]
    BY <2>1, <2>3, CutAt
  <2> QED BY <2>1, <2>2, <2>4
<1>3. r = RemoveAt(s, m)
  BY DEF RemoveAt, Joined
<1> HIDE DEF a, b
<1>4. IsJoin(X, a, b, r)
  BY <1>1, <1>2, JoinedAt
<1> HIDE DEF r
<1>5. /\ r \in Seq(X) /\ Len(r) = Len(s) - 1
      /\ \A i \in 1..m - 1 : r[i] = s[i]
      /\ \A i \in 1..Len(s) - m : r[m - 1 + i] = s[m + i]
  BY <1>0, <1>1, <1>2, <1>4 DEF IsJoin
<1>6. ASSUME NEW k \in 1..Len(s) - 1
      PROVE  r[k] = IF k < m THEN s[k] ELSE s[k + 1]
  <2>1. CASE k < m
    BY <1>0, <1>5, <2>1
  <2>2. CASE ~(k < m)
    <3> DEFINE i == k - m + 1
    <3>1. i \in 1..Len(s) - m /\ m - 1 + i = k /\ m + i = k + 1
      BY <1>0, <2>2
    <3> HIDE DEF i
    <3> QED BY <1>5, <2>2, <3>1
  <2> QED BY <2>1, <2>2
<1> QED BY <1>3, <1>5, <1>6

\* Two lists are sequences over the same set.
LEMMA SameSet ==
  ASSUME NEW d, NEW e, IsList(d), IsList(e)
  PROVE  \E X : d \in Seq(X) /\ e \in Seq(X)
<1> DEFINE D == {d[i] : i \in DOMAIN d}  E == {e[i] : i \in DOMAIN e}  X == D \cup E
<1>1. d \in Seq(D) /\ e \in Seq(E) /\ D \subseteq X /\ E \subseteq X
  BY DEF IsList
<1> HIDE DEF D, E, X
<1>2. d \in Seq(X) /\ e \in Seq(X)
  BY <1>1, SeqMonotonic
<1> QED BY <1>2

\* A sequence is at the beginning of another.
LEMMA PrefixIs ==
  ASSUME NEW X, NEW p \in Seq(X), NEW q \in Seq(X)
  PROVE  IsPrefix(p, q) <=> Len(p) <= Len(q) /\ \A i \in 1..Len(p) : p[i] = q[i]
<1>0. Len(p) \in Nat /\ Len(q) \in Nat
  OBVIOUS
<1> DEFINE a == SubSeq(p, 1, Len(p))  b == SubSeq(q, 1, Len(p))
<1>1. a \in Seq(X) /\ Len(a) = Len(p) /\ \A i \in 1..Len(p) : a[i] = p[i]
  <2>1. 1 \in 1..Len(p) + 1 /\ Len(p) \in 1 - 1..Len(p) /\ Len(p) - 1 + 1 = Len(p)
    BY <1>0
  <2>2. a \in Seq(X) /\ Len(a) = Len(p) - 1 + 1 /\ \A i \in 1..Len(p) - 1 + 1 : a[i] = p[1 - 1 + i]
    BY <2>1, CutAt
  <2>3. \A i \in 1..Len(p) : 1 - 1 + i = i
    OBVIOUS
  <2> HIDE DEF a
  <2> QED BY <2>1, <2>2, <2>3
<1>2. Len(p) <= Len(q) => b \in Seq(X) /\ Len(b) = Len(p) /\ \A i \in 1..Len(p) : b[i] = q[i]
  <2> SUFFICES ASSUME Len(p) <= Len(q)
               PROVE  b \in Seq(X) /\ Len(b) = Len(p) /\ \A i \in 1..Len(p) : b[i] = q[i]
    OBVIOUS
  <2> DEFINE n == Len(p)
  <2>1. 1 \in 1..Len(q) + 1 /\ n \in 1 - 1..Len(q) /\ n - 1 + 1 = n
    BY <1>0
  <2>4. b = SubSeq(q, 1, n)
    OBVIOUS
  <2> HIDE DEF n, b
  <2>2. b \in Seq(X) /\ Len(b) = n - 1 + 1 /\ \A i \in 1..n - 1 + 1 : b[i] = q[1 - 1 + i]
    BY <2>1, <2>4, CutAt
  <2>3. \A i \in 1..n : 1 - 1 + i = i
    BY <2>1
  <2> QED BY <2>1, <2>2, <2>3 DEF n
<1>3. IsPrefix(p, q) <=> Len(p) <= Len(q) /\ a = b
  BY DEF IsPrefix
<1> HIDE DEF a, b
<1>4. ASSUME Len(p) <= Len(q), \A i \in 1..Len(p) : p[i] = q[i] PROVE a = b
  <2>1. a \in Seq(X) /\ b \in Seq(X) /\ Len(a) = Len(b) /\ \A i \in 1..Len(a) : a[i] = b[i]
    BY <1>1, <1>2, <1>4
  <2> QED BY <2>1, SeqEqual
<1>5. ASSUME Len(p) <= Len(q), a = b PROVE \A i \in 1..Len(p) : p[i] = q[i]
  BY <1>1, <1>2, <1>5
<1> QED BY <1>3, <1>4, <1>5

\* A sequence is at the end of another: what remains from some position on.
LEMMA SuffixIs ==
  ASSUME NEW X, NEW d \in Seq(X), NEW e \in Seq(X)
  PROVE  IsSuffix(d, e) <=> Len(d) <= Len(e) /\ \A i \in 1..Len(d) : d[i] = e[Len(e) - Len(d) + i]
<1> DEFINE m == Len(d)  n == Len(e)  p == Reverse(d)  q == Reverse(e)
<1>1. m \in Nat /\ n \in Nat
  OBVIOUS
<1>2. p \in Seq(X) /\ Len(p) = m /\ \A i \in 1..m : p[i] = d[(m - i) + 1]
  BY DEF Reverse
<1>3. q \in Seq(X) /\ Len(q) = n /\ \A i \in 1..n : q[i] = e[(n - i) + 1]
  BY DEF Reverse
<1>4. IsSuffix(d, e) <=> IsPrefix(p, q)
  BY DEF IsSuffix
<1> HIDE DEF m, n, p, q
<1>5. IsPrefix(p, q) <=> m <= n /\ \A i \in 1..m : p[i] = q[i]
  <2>1. p \in Seq(X) /\ q \in Seq(X)
    BY <1>2, <1>3
  <2>2. IsPrefix(p, q) <=> Len(p) <= Len(q) /\ \A i \in 1..Len(p) : p[i] = q[i]
    BY <2>1, PrefixIs
  <2> QED BY <1>2, <1>3, <2>2
<1>6. ASSUME m <= n, \A i \in 1..m : p[i] = q[i], NEW i \in 1..m PROVE d[i] = e[n - m + i]
  <2> DEFINE k == (m - i) + 1
  <2>0. i \in 1..m /\ m <= n
    BY <1>6
  <2>1. k \in 1..m /\ k \in 1..n /\ (m - k) + 1 = i /\ (n - k) + 1 = n - m + i
    BY <1>1, <2>0
  <2> HIDE DEF k
  <2>2. p[k] = d[(m - k) + 1] /\ q[k] = e[(n - k) + 1]
    BY <1>2, <1>3, <2>1
  <2> QED BY <1>6, <2>1, <2>2
<1>7. ASSUME m <= n, \A i \in 1..m : d[i] = e[n - m + i], NEW i \in 1..m PROVE p[i] = q[i]
  <2> DEFINE k == (m - i) + 1
  <2>1. k \in 1..m /\ i \in 1..n /\ (n - i) + 1 = n - m + k
    BY <1>1, <1>7
  <2>2. p[i] = d[k] /\ q[i] = e[(n - i) + 1]
    BY <1>2, <1>3, <2>1
  <2> HIDE DEF k
  <2> QED BY <1>7, <2>1, <2>2
<1> QED BY <1>4, <1>5, <1>6, <1>7 DEF m, n

-----------------------------------------------------------------------------
(***************************************************************************)
(* What is built                                                           *)
(***************************************************************************)

\* What grows is its beginning and pieces of its kind.
TInv == /\ subject \in Subjects
        /\ IF subject.kind = "url"
           THEN \E s \in Seq(Pieces["url"]) : text = <<subject.start[1], ":", "/", "/">> \o s
           ELSE text \in Seq(Pieces[subject.kind])

\* What grows behind a beginning keeps that beginning.
LEMMA GrownSequence ==
  ASSUME NEW P, NEW a, NEW s \in Seq(P), NEW e \in P
  PROVE  Append(<<a, ":", "/", "/">> \o s, e) = <<a, ":", "/", "/">> \o Append(s, e)
<1> DEFINE Q == P \cup {a, ":", "/", "/"}  b == <<a, ":", "/", "/">>
<1>1. s \in Seq(Q) /\ e \in Q /\ b \in Seq(Q)
  <2>1. P \subseteq Q
    OBVIOUS
  <2>2. b \in Seq(Q)
    OBVIOUS
  <2> HIDE DEF Q
  <2> QED BY <2>1, <2>2, SeqMonotonic
<1> HIDE DEF Q, b
<1>2. <<e>> \in Seq(Q) /\ b \o s \in Seq(Q)
  BY <1>1
<1>3. Append(b \o s, e) = (b \o s) \o <<e>>
  BY <1>1, <1>2, AppendIsConcat
<1>4. Append(s, e) = s \o <<e>>
  BY <1>1, AppendIsConcat
<1>5. (b \o s) \o <<e>> = b \o (s \o <<e>>)
  BY <1>1, <1>2, ConcatAssociative
<1> QED BY <1>3, <1>4, <1>5 DEF b

\* TInv holds in every state.
LEMMA TInvariance == Spec => []TInv
<1>1. Init => TInv
  <2> SUFFICES ASSUME Init PROVE TInv
    OBVIOUS
  <2>1. subject \in Subjects /\ text = subject.start
    BY DEF Init
  <2>2. CASE subject.kind = "url"
    <3>1. text = <<subject.start[1], ":", "/", "/">>
      BY <2>1, <2>2, StartAssumption, Zenon
    <3> DEFINE b == <<subject.start[1], ":", "/", "/">>
    <3>2. b \o <<>> = b
      OBVIOUS
    <3>3. <<>> \in Seq(Pieces["url"])
      OBVIOUS
    <3> HIDE DEF b
    <3>4. \E s \in Seq(Pieces["url"]) : b = b \o s
      BY <3>2, <3>3
    <3> QED BY <2>1, <2>2, <3>1, <3>4 DEF TInv, b
  <2>3. CASE subject.kind # "url"
    <3>1. text = <<>>
      BY <2>1, <2>3, StartAssumption, Zenon
    <3>2. <<>> \in Seq(Pieces[subject.kind])
      OBVIOUS
    <3> QED BY <2>1, <2>3, <3>1, <3>2 DEF TInv
  <2> QED BY <2>2, <2>3
<1>2. TInv /\ [Next]_vars => TInv'
  <2> SUFFICES ASSUME TInv, [Next]_vars PROVE TInv'
    OBVIOUS
  <2>1. CASE Next
    <3>1. PICK e \in Pieces[subject.kind] : text' = Append(text, e)
      BY <2>1 DEF Next, Grow
    <3>2. subject' = subject
      BY <2>1 DEF Next, Grow
    <3>3. CASE subject.kind = "url"
      <4>1. PICK s \in Seq(Pieces["url"]) : text = <<subject.start[1], ":", "/", "/">> \o s
        BY <3>3 DEF TInv
      <4>2. e \in Pieces["url"]
        BY <3>3
      <4>3. Append(s, e) \in Seq(Pieces["url"])
        BY <4>2
      <4> DEFINE b == <<subject.start[1], ":", "/", "/">>
      <4>4. Append(b \o s, e) = b \o Append(s, e)
        BY <4>2, GrownSequence
      <4>5. text = b \o s
        BY <4>1
      <4> HIDE DEF b
      <4>6. text' = b \o Append(s, e)
        BY <3>1, <4>4, <4>5
      <4>7. \E t \in Seq(Pieces["url"]) : text' = b \o t
        BY <4>3, <4>6
      <4>8. \E t \in Seq(Pieces["url"]) : text' = <<subject'.start[1], ":", "/", "/">> \o t
        BY <3>2, <4>7 DEF b
      <4> QED BY <3>2, <3>3, <4>8 DEF TInv
    <3>4. CASE subject.kind # "url"
      <4>1. text \in Seq(Pieces[subject.kind])
        BY <3>4 DEF TInv
      <4>2. Append(text, e) \in Seq(Pieces[subject.kind])
        BY <4>1
      <4> QED BY <3>1, <3>2, <3>4, <4>2 DEF TInv
    <3> QED BY <3>3, <3>4
  <2>2. CASE UNCHANGED vars
    BY <2>2 DEF vars, TInv
  <2> QED BY <2>1, <2>2
<1> QED BY <1>1, <1>2, PTL DEF Spec

-----------------------------------------------------------------------------
(***************************************************************************)
(* First positions                                                         *)
(***************************************************************************)

\* j is the first position of S from i on, or stop.
IsFirst(j, i, stop, S) ==
  /\ j \in i..stop /\ (j = stop \/ j \in S)
  /\ \A k \in i..j - 1 : k \notin S

\* From every position on there is a first one of S, or the stop.
LEMMA FirstExists ==
  ASSUME NEW i \in Nat, NEW stop \in Nat, i <= stop, NEW S
  PROVE  \E j \in i..stop : (j = stop \/ j \in S) /\ \A k \in i..j - 1 : k \notin S
<1> DEFINE Found(m) == \E j \in i..stop : (j = stop \/ j \in S) /\ \A k \in i..j - 1 : k \notin S
           B == {n \in Nat : i + n <= stop =>
                               Found(0) \/ \A k \in i..i + n - 1 : k \notin S}
<1>1. 0 \in B
  OBVIOUS
<1>2. ASSUME NEW n \in Nat, n \in B PROVE n + 1 \in B
  <2> SUFFICES ASSUME i + (n + 1) <= stop, ~Found(0)
               PROVE  \A k \in i..i + (n + 1) - 1 : k \notin S
    <3> HIDE DEF Found
    <3> QED OBVIOUS
  <2>1. \A k \in i..i + n - 1 : k \notin S
    <3> HIDE DEF Found
    <3> QED BY <1>2
  <2>2. i + n \notin S
    BY <2>1
  <2> HIDE DEF Found
  <2> QED BY <2>1, <2>2
<1>3. stop - i \in B
  <2>1. stop - i \in Nat
    OBVIOUS
  <2> HIDE DEF B
  <2> QED BY <1>1, <1>2, <2>1, Induction
<1>4. Found(0) \/ \A k \in i..stop - 1 : k \notin S
  <2>1. i + (stop - i) = stop
    OBVIOUS
  <2> HIDE DEF Found
  <2> QED BY <1>3, <2>1
<1>5. (\A k \in i..stop - 1 : k \notin S) => Found(0)
  <2>1. stop \in i..stop
    OBVIOUS
  <2> QED BY <2>1
<1>6. Found(0)
  <2> HIDE DEF Found
  <2> QED BY <1>4, <1>5
<1> QED BY <1>6

\* There is only one.
LEMMA OneFirst ==
  ASSUME NEW i \in Nat, NEW stop \in Nat, NEW S, NEW j, NEW k,
         IsFirst(j, i, stop, S), IsFirst(k, i, stop, S)
  PROVE  j = k
  BY DEF IsFirst

\* The positions of a symbol in a text.
Where(t, c) == {k \in DOMAIN t : t[k] = c}

\* It is what find_char returns.
LEMMA FindChar ==
  ASSUME NEW X, NEW t \in Seq(X), NEW c, NEW i \in 1..End(t), NEW stop \in i..End(t)
  PROVE  IsFirst(find_char(t, i, stop, c), i, stop, Where(t, c))
<1> DEFINE S == {k \in Nat : t[k] = c}
<1>0. i \in Nat /\ stop \in Nat /\ i <= stop /\ DOMAIN t = 1..Len(t) /\ Len(t) \in Nat
      /\ End(t) = Len(t) + 1
  BY DEF End
<1>1. PICK j \in i..stop : (j = stop \/ j \in S) /\ \A k \in i..j - 1 : k \notin S
  <2> HIDE DEF S
  <2> QED BY <1>0, FirstExists
<1>2. (j = stop \/ t[j] = c) /\ \A k \in i..j - 1 : ~(t[k] = c)
  BY <1>0, <1>1
<1> DEFINE f == find_char(t, i, stop, c)
<1>3. f \in i..stop /\ (f = stop \/ t[f] = c) /\ \A k \in i..f - 1 : ~(t[k] = c)
  BY <1>2 DEF find_char, First
<1> HIDE DEF f
<1>4. f < stop => f \in DOMAIN t
  BY <1>0, <1>3
<1>5. IsFirst(f, i, stop, Where(t, c))
  BY <1>0, <1>3, <1>4 DEF IsFirst, Where
<1> QED BY <1>5 DEF f

\* The first position in a text.
LEMMA OneFound ==
  ASSUME NEW X, NEW t \in Seq(X), NEW c, NEW i \in 1..End(t), NEW stop \in i..End(t), NEW j,
         IsFirst(j, i, stop, Where(t, c))
  PROVE  find_char(t, i, stop, c) = j
<1>1. i \in Nat /\ stop \in Nat
  BY DEF End
<1> QED BY <1>1, FindChar, OneFirst

\* What is known of the first position.
LEMMA FindCharFacts ==
  ASSUME NEW X, NEW t \in Seq(X), NEW c, NEW i \in 1..End(t), NEW stop \in i..End(t)
  PROVE  /\ find_char(t, i, stop, c) \in i..stop
         /\ find_char(t, i, stop, c) < stop => t[find_char(t, i, stop, c)] = c
         /\ \A k \in i..find_char(t, i, stop, c) - 1 : t[k] # c
<1> DEFINE f == find_char(t, i, stop, c)
<1>1. IsFirst(f, i, stop, Where(t, c))
  BY FindChar
<1>2. DOMAIN t = 1..Len(t) /\ Len(t) \in Nat /\ End(t) = Len(t) + 1
  BY DEF End
<1> HIDE DEF f
<1>3. f \in i..stop /\ (f < stop => t[f] = c) /\ \A k \in i..f - 1 : t[k] # c
  BY <1>1, <1>2 DEF IsFirst, Where
<1> QED BY <1>3 DEF f

\* One symbol, cut out.
LEMMA OneSymbol ==
  ASSUME NEW X, NEW t \in Seq(X), NEW i \in 1..Len(t)
  PROVE  SubSeq(t, i, i) = <<t[i]>>
<1> DEFINE s == SubSeq(t, i, i)
<1>1. i \in 1..Len(t) + 1 /\ i \in i - 1..Len(t) /\ i - i + 1 = 1
  OBVIOUS
<1>2. s \in Seq(X) /\ Len(s) = i - i + 1 /\ \A k \in 1..i - i + 1 : s[k] = t[i - 1 + k]
  BY <1>1, CutAt
<1> HIDE DEF s
<1>3. Len(s) = 1 /\ s[1] = t[i - 1 + 1] /\ i - 1 + 1 = i
  BY <1>1, <1>2
<1>4. s = <<t[i]>>
  BY <1>2, <1>3
<1> QED BY <1>4 DEF s

\* One symbol stands at a position.
LEMMA AtOne ==
  ASSUME NEW X, NEW t \in Seq(X), NEW c, NEW i \in 1..End(t)
  PROVE  At(t, i, <<c>>) <=> i < End(t) /\ t[i] = c
<1>0. Len(t) \in Nat /\ End(t) = Len(t) + 1 /\ Len(<<c>>) = 1
  BY DEF End
<1>1. i + 1 - 1 = i
  OBVIOUS
<1>2. At(t, i, <<c>>) <=> i + 1 <= End(t) /\ SubSeq(t, i, i) = <<c>>
  BY <1>0, <1>1 DEF At
<1>3. ASSUME i < End(t) PROVE SubSeq(t, i, i) = <<c>> <=> t[i] = c
  <2>1. SubSeq(t, i, i) = <<t[i]>>
    BY <1>0, <1>3, OneSymbol
  <2>2. <<t[i]>> = <<c>> <=> t[i] = c
    OBVIOUS
  <2> QED BY <2>1, <2>2
<1> QED BY <1>0, <1>2, <1>3

\* The symbols of a cut.
LEMMA CutHas ==
  ASSUME NEW X, NEW t \in Seq(X), NEW i \in 1..End(t), NEW j \in i..End(t)
  PROVE  /\ Cut(t, i, j) \in Seq(X) /\ Len(Cut(t, i, j)) = j - i
         /\ \A k \in 1..j - i : Cut(t, i, j)[k] = t[i - 1 + k]
<1>0. Len(t) \in Nat /\ End(t) = Len(t) + 1
  BY DEF End
<1>1. i \in 1..Len(t) + 1 /\ j - 1 \in i - 1..Len(t) /\ j - 1 - i + 1 = j - i
  BY <1>0
<1> DEFINE s == SubSeq(t, i, j - 1)
<1>2. /\ s \in Seq(X) /\ Len(s) = j - 1 - i + 1
      /\ \A k \in 1..j - 1 - i + 1 : s[k] = t[i - 1 + k]
  BY <1>1, CutAt
<1> HIDE DEF s
<1>3. s \in Seq(X) /\ Len(s) = j - i /\ \A k \in 1..j - i : s[k] = t[i - 1 + k]
  BY <1>1, <1>2
<1> QED BY <1>3 DEF Cut, s

-----------------------------------------------------------------------------
(***************************************************************************)
(* Decimal numbers                                                         *)
(***************************************************************************)

\* Numbers in decimal digits.
Digit10 == {Decimal[k] : k \in 1..10}
Place(c) == CHOOSE k \in DOMAIN Decimal : Decimal[k] = c
TenStep == [x \in Nat \X Digit10 |-> x[1] * 10 + Place(x[2]) - 1]

\* The digits have their places in Decimal.
LEMMA Places ==
  /\ DOMAIN Decimal = 1..10
  /\ \A c : DecimalDigit(c) <=> c \in Digit10
  /\ \A c \in Digit10 : Place(c) \in 1..10
<1>1. DOMAIN Decimal = 1..10
  BY DEF Decimal
<1>2. ASSUME NEW c PROVE DecimalDigit(c) <=> c \in Digit10
  BY <1>1 DEF DecimalDigit, Digit10
<1>3. ASSUME NEW c \in Digit10 PROVE Place(c) \in 1..10
  <2>1. \E k \in DOMAIN Decimal : Decimal[k] = c
    BY <1>1 DEF Digit10
  <2> QED BY <1>1, <2>1 DEF Place
<1> QED BY <1>1, <1>2, <1>3

\* Number is a fold of TenStep.
LEMMA NumberFolded ==
  ASSUME NEW seq \in Seq(Digit10)
  PROVE  Foldable(Nat, Digit10, TenStep, 0, seq) /\ Number(seq) = Folded(TenStep, 0, seq)
<1> DEFINE Iter(g) == g = [s \in SUBSET (DOMAIN seq) |->
                             IF s = {} THEN 0
                             ELSE g[s \ {Max(s)}] * 10 + Place(seq[Max(s)]) - 1]
           c == CHOOSE g : Iter(g)
<1>1. \A n \in Nat, b \in Digit10 : /\ n * 10 + Place(b) - 1 \in Nat
                                    /\ TenStep[<<n, b>>] = n * 10 + Place(b) - 1
  <2>1. \A n \in Nat, k \in 1..10 : n * 10 + k - 1 \in Nat
    OBVIOUS
  <2>2. \A n \in Nat, b \in Digit10 : TenStep[<<n, b>>] = n * 10 + Place(b) - 1
    BY DEF TenStep
  <2> QED BY <2>1, <2>2, Places
<1>2. Foldable(Nat, Digit10, TenStep, 0, seq)
  <2>1. \A n \in Nat, b \in Digit10 : n * 10 + Place(b) - 1 \in Nat
    BY <1>1
  <2> QED BY <2>1 DEF Foldable, TenStep
<1>3. PICK g \in [SUBSET (DOMAIN seq) -> Nat] : IsIter(g, TenStep, 0, seq)
  BY <1>2, IterExists DEF Foldable
<1>4. Iter(g)
  BY <1>1, <1>3, IterStep DEF IsIter
<1>5. Iter(c)
  <2> HIDE DEF Iter
  <2> QED BY <1>4
<1>6. Number(seq) = c[DOMAIN seq]
  BY DEF Number, FoldLeft, MapThenFoldSet, Place
<1> HIDE DEF c
<1>7. Iterates(c, Nat, TenStep, 0, seq)
  BY <1>1, <1>5, IterStep DEF Iterates
<1> QED BY <1>2, <1>6, <1>7, IteratedIs

\* Digits make a natural number.
LEMMA NumberTyped ==
  ASSUME NEW X, NEW s \in Seq(X), \A k \in DOMAIN s : DecimalDigit(s[k])
  PROVE  Number(s) \in Nat
<1>1. s \in Seq(Digit10)
  <2>1. \A k \in DOMAIN s : s[k] \in Digit10
    BY Places
  <2>2. s = [k \in 1..Len(s) |-> s[k]] /\ DOMAIN s = 1..Len(s) /\ Len(s) \in Nat
    OBVIOUS
  <2> QED BY <2>1, <2>2
<1>2. Foldable(Nat, Digit10, TenStep, 0, s) /\ Number(s) = Folded(TenStep, 0, s)
  BY <1>1, NumberFolded
<1> QED BY <1>2, FoldedTyped

-----------------------------------------------------------------------------
(***************************************************************************)
(* URLs                                                                    *)
(***************************************************************************)

\* The first of three symbols, as the parser of URLs looks for its host's end.
LEMMA HostEnd ==
  ASSUME NEW X, NEW t \in Seq(X), NEW i \in 1..End(t), NEW j \in i..End(t),
         j < End(t) => t[j] \in {"/", "?", "#"},
         \A k \in i..j - 1 : t[k] \notin {"/", "?", "#"}
  PROVE  First(i, End(t), LAMBDA k : t[k] \in {"/", "?", "#"}) = j
<1> DEFINE f == First(i, End(t), LAMBDA k : t[k] \in {"/", "?", "#"})
<1>0. i \in Nat /\ End(t) \in Nat
  BY DEF End
<1>1. /\ f \in i..End(t) /\ (f = End(t) \/ t[f] \in {"/", "?", "#"})
      /\ \A k \in i..f - 1 : ~(t[k] \in {"/", "?", "#"})
  <2>1. j = End(t) \/ t[j] \in {"/", "?", "#"}
    BY <1>0
  <2> QED BY <2>1 DEF First
<1> HIDE DEF f
<1>2. f = j
  BY <1>0, <1>1
<1> QED BY <1>2 DEF f

\* The ports that a text can mean are what parse_port_str makes of it.
LEMMA Ported ==
  ASSUME NEW X, NEW s \in Seq(X)
  PROVE  {n \in 1..MaxPort : Len(s) \in 1..PortDigits /\ AllDigits(s) /\ Number(s) = n}
           = IF parse_port_str(s) = 0 THEN {} ELSE {parse_port_str(s)}
<1>1. CASE Len(s) \in 1..PortDigits /\ AllDigits(s)
  <2>1. Number(s) \in Nat
    BY <1>1, NumberTyped DEF AllDigits
  <2>2. parse_port_str(s) = IF Number(s) <= MaxPort THEN Number(s) ELSE 0
    BY <1>1 DEF parse_port_str, AllDigits
  <2> QED BY <1>1, <2>1, <2>2, UrlAssumption
<1>2. CASE ~(Len(s) \in 1..PortDigits /\ AllDigits(s))
  <2>1. parse_port_str(s) = 0
    BY <1>2 DEF parse_port_str, AllDigits
  <2> QED BY <1>2, <2>1
<1> QED BY <1>1, <1>2

\* The parts of a URL as the generic syntax cuts them.
LEMMA Parts ==
  ASSUME NEW X, text \in Seq(X), Len(text) >= 4
  PROVE  /\ Fragment \in 5..End(text) /\ (Fragment < End(text) => text[Fragment] = "#")
         /\ Query \in 5..Fragment /\ (Query < Fragment => text[Query] = "?")
         /\ Path \in 5..Query /\ (Path < Query => text[Path] = "/")
         /\ PortAt \in 5..Path
         /\ \A k \in 5..Fragment - 1 : text[k] # "#"
         /\ \A k \in 5..Query - 1 : text[k] # "?"
         /\ \A k \in 5..Path - 1 : text[k] # "/"
<1>1. Len(text) \in Nat /\ End(text) = Len(text) + 1 /\ 5 \in 1..End(text)
  BY DEF End
<1>2. /\ Fragment \in 5..End(text) /\ (Fragment < End(text) => text[Fragment] = "#")
      /\ \A k \in 5..Fragment - 1 : text[k] # "#"
  <2>1. End(text) \in 5..End(text)
    BY <1>1
  <2> QED BY <1>1, <2>1, FindCharFacts DEF Fragment, Authority
<1>3. /\ Query \in 5..Fragment /\ (Query < Fragment => text[Query] = "?")
      /\ \A k \in 5..Query - 1 : text[k] # "?"
  <2>1. Fragment \in 5..End(text)
    BY <1>2
  <2> QED BY <1>1, <2>1, FindCharFacts DEF Query, Authority
<1>4. /\ Path \in 5..Query /\ (Path < Query => text[Path] = "/")
      /\ \A k \in 5..Path - 1 : text[k] # "/"
  <2>1. Query \in 5..End(text)
    BY <1>1, <1>2, <1>3
  <2> QED BY <1>1, <2>1, FindCharFacts DEF Path, Authority
<1>5. PortAt \in 5..Path
  <2>1. Path \in 5..End(text)
    BY <1>1, <1>2, <1>3, <1>4
  <2> QED BY <1>1, <2>1, FindCharFacts DEF PortAt, Authority
<1> QED BY <1>2, <1>3, <1>4, <1>5

\* The values of the parser's variables: where the path begins, ends, and what
\* follows it.
PathBegin == First(5, End(text), LAMBDA j : text[j] \in {"/", "?", "#"})
PathStop == IF At(text, PathBegin, <<"/">>) THEN PathEnd(text, PathBegin) ELSE PathBegin
Rest == IF At(text, PathStop, <<"?">>) THEN find_char(text, PathStop, End(text), "#") ELSE PathStop
PortOf == IF find_char(text, 5, PathBegin, ":") < PathBegin
          THEN parse_port_str(Cut(text, find_char(text, 5, PathBegin, ":") + 1, PathBegin))
          ELSE DefaultPort[text[1]]

\* What cwh_parse_url answers, from its own cuts.
LEMMA Scheme ==
  ASSUME NEW X, text \in Seq(X), Len(text) >= 4, text[2] = ":", text[3] = "/", text[4] = "/"
  PROVE  cwh_parse_url(text)
           = IF text[1] \notin {"http", "https"} \/ PortOf = 0 THEN BadUrl
             ELSE [ok |-> TRUE, host |-> 5, port |-> PortOf,
                   path |-> IF At(text, PathBegin, <<"/">>) THEN PathBegin ELSE 0,
                   query |-> IF At(text, PathStop, <<"?">>) THEN PathStop + 1 ELSE 0,
                   fragment |-> IF At(text, Rest, <<"#">>) THEN Rest + 1 ELSE 0]
<1>0. Len(text) \in Nat /\ End(text) = Len(text) + 1
  BY DEF End
<1> DEFINE s == find_char(text, 1, End(text), ":")
<1>1. s \in 1..End(text) /\ (s < End(text) => text[s] = ":") /\ \A k \in 1..s - 1 : text[k] # ":"
  <2>1. 1 \in 1..End(text) /\ End(text) \in 1..End(text)
    BY <1>0
  <2> QED BY <2>1, FindCharFacts
<1>2. CASE text[1] \in {"http", "https"}
  <2>1. s = 2
    <3>1. text[1] # ":"
      BY <1>2
    <3> HIDE DEF s
    <3> QED BY <1>0, <1>1, <3>1
  <2>2. Cut(text, 1, 2) = <<text[1]>>
    <3>1. SubSeq(text, 1, 1) = <<text[1]>>
      BY <1>0, OneSymbol
    <3> QED BY <3>1 DEF Cut
  <2>3. At(text, 2, <<":", "/", "/">>)
    <3> DEFINE r == SubSeq(text, 2, 4)
    <3>1. 2 \in 1..Len(text) + 1 /\ 4 \in 2 - 1..Len(text) /\ 4 - 2 + 1 = 3
      BY <1>0
    <3>2. r \in Seq(X) /\ Len(r) = 4 - 2 + 1 /\ \A i \in 1..4 - 2 + 1 : r[i] = text[2 - 1 + i]
      BY <3>1, CutAt
    <3> HIDE DEF r
    <3>3. Len(r) = 3 /\ r[1] = ":" /\ r[2] = "/" /\ r[3] = "/"
      <4>1. r[1] = text[2 - 1 + 1] /\ r[2] = text[2 - 1 + 2] /\ r[3] = text[2 - 1 + 3]
        BY <3>2
      <4> QED BY <3>2, <4>1
    <3>4. r = <<":", "/", "/">>
      BY <3>2, <3>3
    <3>5. Len(<<":", "/", "/">>) = 3 /\ 2 + 3 <= End(text) /\ 2 + 3 - 1 = 4
      BY <1>0
    <3> QED BY <3>4, <3>5 DEF At, r
  <2>4. Cut(text, 1, 2) \in {<<"http">>, <<"https">>}
    BY <1>2, <2>2
  <2>5. s + 3 = 5
    BY <2>1
  <2> HIDE DEF s
  <2>6. cwh_parse_url(text)
           = IF PortOf = 0 THEN BadUrl
             ELSE [ok |-> TRUE, host |-> 5, port |-> PortOf,
                   path |-> IF At(text, PathBegin, <<"/">>) THEN PathBegin ELSE 0,
                   query |-> IF At(text, PathStop, <<"?">>) THEN PathStop + 1 ELSE 0,
                   fragment |-> IF At(text, Rest, <<"#">>) THEN Rest + 1 ELSE 0]
    BY <2>1, <2>3, <2>4, <2>5, Zenon
       DEF cwh_parse_url, s, PortOf, PathBegin, PathStop, Rest
  <2> QED BY <1>2, <2>6
<1>3. CASE text[1] \notin {"http", "https"}
  <2>1. ~At(text, s, <<":", "/", "/">>) \/ Cut(text, 1, s) \notin {<<"http">>, <<"https">>}
    <3>1. CASE s = 2
      <4>1. SubSeq(text, 1, 1) = <<text[1]>>
        BY <1>0, OneSymbol
      <4>2. Cut(text, 1, 2) \notin {<<"http">>, <<"https">>}
        BY <1>3, <4>1 DEF Cut
      <4> HIDE DEF s
      <4> QED BY <3>1, <4>2
    <3>2. CASE s = 1
      <4>1. SubSeq(text, 1, 0) = <<>>
        BY <1>0
      <4>2. Cut(text, 1, 1) \notin {<<"http">>, <<"https">>}
        BY <4>1 DEF Cut
      <4> HIDE DEF s
      <4> QED BY <3>2, <4>2
    <3> HIDE DEF s
    <3>3. s = 1 \/ s = 2
      BY <1>0, <1>1
    <3> QED BY <3>1, <3>2, <3>3
  <2>2. cwh_parse_url(text) = BadUrl
    BY <2>1, Zenon DEF cwh_parse_url
  <2> QED BY <1>3, <2>2
<1> QED BY <1>2, <1>3

\* The host ends where the generic syntax has the path begin.
LEMMA HostEnds ==
  ASSUME NEW X, text \in Seq(X), Len(text) >= 4
  PROVE  PathBegin = Path
<1>0. Len(text) \in Nat /\ End(text) = Len(text) + 1 /\ 5 \in 1..End(text)
  BY DEF End
<1>1. /\ Path \in 5..End(text)
      /\ Path < End(text) => text[Path] \in {"/", "?", "#"}
      /\ \A k \in 5..Path - 1 : text[k] \notin {"/", "?", "#"}
  BY <1>0, Parts
<1> QED BY <1>0, <1>1, HostEnd DEF PathBegin

\* The parts as the parser cuts them are the parts of the generic syntax.
LEMMA PathParts ==
  ASSUME NEW X, text \in Seq(X), Len(text) >= 4
  PROVE  LET mark == find_char(text, 5, End(text), "?")
             swapped == Path < Query /\ Fragment < mark /\ mark < End(text)
         IN  /\ At(text, PathBegin, <<"/">>) <=> Path < Query
             /\ ~swapped =>
                  /\ PathStop = Query /\ (At(text, PathStop, <<"?">>) <=> Query < Fragment)
                  /\ Rest = Fragment /\ (At(text, Rest, <<"#">>) <=> Fragment < End(text))
<1>0. Len(text) \in Nat /\ End(text) = Len(text) + 1 /\ 5 \in 1..End(text)
      /\ End(text) \in 1..End(text) /\ End(text) \in 5..End(text) /\ DOMAIN text = 1..Len(text)
  BY DEF End
<1> DEFINE mark == find_char(text, 5, End(text), "?")
           swapped == Path < Query /\ Fragment < mark /\ mark < End(text)
<1>1. PathBegin = Path
  BY HostEnds
<1>2. /\ mark \in 5..End(text) /\ (mark < End(text) => text[mark] = "?")
      /\ \A k \in 5..mark - 1 : text[k] # "?"
  BY <1>0, FindCharFacts
<1> HIDE DEF mark
<1>3. /\ Fragment \in 5..End(text) /\ (Fragment < End(text) => text[Fragment] = "#")
      /\ Query \in 5..Fragment /\ (Query < Fragment => text[Query] = "?")
      /\ Path \in 5..Query /\ (Path < Query => text[Path] = "/")
      /\ \A k \in 5..Fragment - 1 : text[k] # "#"
      /\ \A k \in 5..Query - 1 : text[k] # "?"
      /\ \A k \in 5..Path - 1 : text[k] # "/"
  BY Parts
<1>4. At(text, PathBegin, <<"/">>) <=> Path < Query
  <2>1. At(text, Path, <<"/">>) <=> Path < End(text) /\ text[Path] = "/"
    BY <1>0, <1>3, AtOne
  <2> QED BY <1>0, <1>1, <1>3, <2>1
<1>5. ASSUME ~swapped PROVE PathStop = Query
  <2>1. CASE Path < Query
    <3>1. PathStop = PathEnd(text, Path)
      BY <1>1, <1>4, <2>1 DEF PathStop
    <3>2. find_char(text, Path, End(text), "?") = mark
      <4>1. IsFirst(mark, Path, End(text), Where(text, "?"))
        BY <1>0, <1>2, <1>3, <2>1 DEF IsFirst, Where
      <4>2. Path \in 1..End(text) /\ End(text) \in Path..End(text)
        BY <1>0, <1>3
      <4> QED BY <4>1, <4>2, OneFound
    <3>3. find_char(text, Path, End(text), "#") = Fragment
      <4>1. IsFirst(Fragment, Path, End(text), Where(text, "#"))
        BY <1>0, <1>2, <1>3, <2>1 DEF IsFirst, Where
      <4>2. Path \in 1..End(text) /\ End(text) \in Path..End(text)
        BY <1>0, <1>3
      <4> QED BY <4>1, <4>2, OneFound
    <3>4. PathStop = IF mark < End(text) THEN mark ELSE Fragment
      BY <3>1, <3>2, <3>3 DEF PathEnd
    <3> QED BY <1>0, <1>2, <1>3, <1>5, <2>1, <3>4
  <2>2. CASE ~(Path < Query)
    <3>1. PathStop = Path
      BY <1>1, <1>4, <2>2 DEF PathStop
    <3> QED BY <1>0, <1>3, <2>2, <3>1
  <2> QED BY <2>1, <2>2
<1>6. ASSUME ~swapped PROVE At(text, PathStop, <<"?">>) <=> Query < Fragment
  <2>1. At(text, Query, <<"?">>) <=> Query < End(text) /\ text[Query] = "?"
    BY <1>0, <1>3, AtOne
  <2> QED BY <1>0, <1>3, <1>5, <1>6, <2>1
<1>7. ASSUME ~swapped PROVE Rest = Fragment
  <2>1. find_char(text, Query, End(text), "#") = Fragment
    <3>1. IsFirst(Fragment, Query, End(text), Where(text, "#"))
      BY <1>0, <1>3 DEF IsFirst, Where
    <3>2. Query \in 1..End(text) /\ End(text) \in Query..End(text)
      BY <1>0, <1>3
    <3> QED BY <3>1, <3>2, OneFound
  <2>2. Query < Fragment \/ Query = Fragment
    BY <1>0, <1>3
  <2> QED BY <1>5, <1>6, <1>7, <2>1, <2>2 DEF Rest
<1>8. ASSUME ~swapped PROVE At(text, Rest, <<"#">>) <=> Fragment < End(text)
  <2>1. At(text, Fragment, <<"#">>) <=> Fragment < End(text) /\ text[Fragment] = "#"
    BY <1>0, <1>3, AtOne
  <2> QED BY <1>3, <1>7, <1>8, <2>1
<1> HIDE DEF swapped
<1>9. ~swapped => /\ PathStop = Query /\ (At(text, PathStop, <<"?">>) <=> Query < Fragment)
                  /\ Rest = Fragment /\ (At(text, Rest, <<"#">>) <=> Fragment < End(text))
  BY <1>5, <1>6, <1>7, <1>8
<1> QED BY <1>4, <1>9 DEF mark, swapped

\* The port of a URL, and of the generic syntax.
LEMMA PortsOf ==
  ASSUME NEW X, text \in Seq(X), Len(text) >= 4, text[1] \in {"http", "https"}
  PROVE  (IF PortAt < Path THEN Ports ELSE {DefaultPort[text[1]]})
           = IF PortOf = 0 THEN {} ELSE {PortOf}
<1>0. Len(text) \in Nat /\ End(text) = Len(text) + 1
  BY DEF End
<1>1. PathBegin = Path /\ find_char(text, 5, Path, ":") = PortAt
  BY HostEnds DEF PortAt, Authority
<1>2. PortOf = IF PortAt < Path THEN parse_port_str(Cut(text, PortAt + 1, Path))
               ELSE DefaultPort[text[1]]
  BY <1>1 DEF PortOf
<1>3. CASE PortAt < Path
  <2> DEFINE s == Cut(text, PortAt + 1, Path)
  <2>1. s \in Seq(X)
    <3>1. PortAt + 1 \in 1..Len(text) + 1 /\ Path - 1 \in PortAt + 1 - 1..Len(text)
      BY <1>0, <1>3, Parts
    <3> QED BY <3>1, CutAt DEF Cut
  <2>2. Ports = {n \in 1..MaxPort : Len(s) \in 1..PortDigits /\ AllDigits(s) /\ Number(s) = n}
    BY DEF Ports
  <2> HIDE DEF s
  <2>3. Ports = IF parse_port_str(s) = 0 THEN {} ELSE {parse_port_str(s)}
    BY <2>1, <2>2, Ported
  <2> QED BY <1>2, <1>3, <2>3 DEF s
<1>4. CASE ~(PortAt < Path)
  <2>1. DefaultPort["http"] = 80 /\ DefaultPort["https"] = 443
    BY DEF DefaultPort
  <2>2. DefaultPort[text[1]] # 0
    BY <2>1
  <2> QED BY <1>2, <1>4, <2>2
<1> QED BY <1>3, <1>4

\* What is built from the beginning of a URL has that beginning.
LEMMA UrlBegins ==
  ASSUME TInv, Is("url")
  PROVE  \E X : /\ text \in Seq(X) /\ Len(text) >= 4
                /\ text[2] = ":" /\ text[3] = "/" /\ text[4] = "/"
<1> DEFINE a == subject.start[1]  b == <<a, ":", "/", "/">>
           X == Pieces["url"] \cup {a, ":", "/"}
<1>1. PICK s \in Seq(Pieces["url"]) : text = b \o s
  BY DEF TInv, Is
<1>2. b \in Seq(X) /\ Len(b) = 4 /\ b[2] = ":" /\ b[3] = "/" /\ b[4] = "/"
  OBVIOUS
<1>3. s \in Seq(X)
  <2>1. Pieces["url"] \subseteq X
    OBVIOUS
  <2> HIDE DEF X
  <2> QED BY <2>1, SeqMonotonic
<1> HIDE DEF b, X
<1>4. IsJoin(X, b, s, Joined(b, s))
  BY <1>2, <1>3, JoinedAt
<1>5. text \in Seq(X) /\ Len(text) = 4 + Len(s) /\ Len(s) \in Nat
      /\ \A i \in 1..4 : text[i] = b[i]
  BY <1>1, <1>2, <1>4 DEF IsJoin, Joined
<1>6. text[2] = ":" /\ text[3] = "/" /\ text[4] = "/"
  BY <1>2, <1>5
<1>7. Len(text) >= 4
  BY <1>5
<1> QED BY <1>5, <1>6, <1>7

\* cwh_parse_url accepts exactly the URLs of a known scheme whose port is absent
\* or in range, and divides every URL, of any length and over any symbols, as the
\* generic syntax does, but for a '?' behind a '#'.
THEOREM UrlsDivided == Spec => []UrlDivided
<1>1. ASSUME TInv, Is("url")
      PROVE  LET u == cwh_parse_url(text)
                 port == IF PortAt < Path THEN Ports ELSE {DefaultPort[text[1]]}
                 swapped == Path < Query /\ Fragment < find_char(text, Authority, End(text), "?")
                              /\ find_char(text, Authority, End(text), "?") < End(text)
             IN  /\ u.ok <=> text[1] \in DOMAIN DefaultPort /\ port # {}
                 /\ u.ok /\ ~swapped => /\ {u.port} = port
                                        /\ u.path = (IF Path < Query THEN Path ELSE 0)
                                        /\ u.query = After(Query, Fragment)
                                        /\ u.fragment = After(Fragment, End(text))
  <2> DEFINE u == cwh_parse_url(text)
             port == IF PortAt < Path THEN Ports ELSE {DefaultPort[text[1]]}
             swapped == Path < Query /\ Fragment < find_char(text, Authority, End(text), "?")
                          /\ find_char(text, Authority, End(text), "?") < End(text)
  <2>1. PICK X : /\ text \in Seq(X) /\ Len(text) >= 4
                 /\ text[2] = ":" /\ text[3] = "/" /\ text[4] = "/"
    BY <1>1, UrlBegins
  <2>2. DOMAIN DefaultPort = {"http", "https"}
    BY DEF DefaultPort
  <2>3. text[1] \in {"http", "https"} => port = IF PortOf = 0 THEN {} ELSE {PortOf}
    BY <2>1, PortsOf
  <2>4. /\ At(text, PathBegin, <<"/">>) <=> Path < Query
        /\ ~swapped =>
              /\ PathStop = Query /\ (At(text, PathStop, <<"?">>) <=> Query < Fragment)
              /\ Rest = Fragment /\ (At(text, Rest, <<"#">>) <=> Fragment < End(text))
    BY <2>1, PathParts DEF Authority
  <2>5. PathBegin = Path
    BY <2>1, HostEnds
  <2> DEFINE parsed == [ok |-> TRUE, host |-> 5, port |-> PortOf,
                        path |-> IF At(text, PathBegin, <<"/">>) THEN PathBegin ELSE 0,
                        query |-> IF At(text, PathStop, <<"?">>) THEN PathStop + 1 ELSE 0,
                        fragment |-> IF At(text, Rest, <<"#">>) THEN Rest + 1 ELSE 0]
  <2>6. u = IF text[1] \notin {"http", "https"} \/ PortOf = 0 THEN BadUrl ELSE parsed
    BY <2>1, Scheme
  <2>7. /\ parsed.ok /\ parsed.port = PortOf
        /\ parsed.path = IF At(text, PathBegin, <<"/">>) THEN PathBegin ELSE 0
        /\ parsed.query = IF At(text, PathStop, <<"?">>) THEN PathStop + 1 ELSE 0
        /\ parsed.fragment = IF At(text, Rest, <<"#">>) THEN Rest + 1 ELSE 0
    OBVIOUS
  <2>8. ~BadUrl.ok
    BY DEF BadUrl
  <2> HIDE DEF u, port, swapped, parsed
  <2>9. u.ok <=> text[1] \in DOMAIN DefaultPort /\ port # {}
    BY <2>2, <2>3, <2>6, <2>7, <2>8
  <2>10. ASSUME u.ok, ~swapped
         PROVE  /\ {u.port} = port
                /\ u.path = (IF Path < Query THEN Path ELSE 0)
                /\ u.query = After(Query, Fragment)
                /\ u.fragment = After(Fragment, End(text))
    <3>1. u = parsed /\ text[1] \in {"http", "https"} /\ PortOf # 0
      BY <2>6, <2>8, <2>10
    <3>2. u.path = (IF Path < Query THEN Path ELSE 0)
      BY <2>4, <2>5, <2>7, <3>1
    <3>3. u.query = (IF Query < Fragment THEN Query + 1 ELSE 0)
      BY <2>4, <2>7, <2>10, <3>1
    <3>4. u.fragment = (IF Fragment < End(text) THEN Fragment + 1 ELSE 0)
      BY <2>4, <2>7, <2>10, <3>1
    <3>5. {u.port} = port
      BY <2>3, <2>7, <3>1
    <3> QED BY <3>2, <3>3, <3>4, <3>5 DEF After
  <2> QED BY <2>9, <2>10 DEF u, port, swapped
<1>2. TInv => UrlDivided
  BY <1>1 DEF UrlDivided
<1> QED BY <1>2, TInvariance, PTL

-----------------------------------------------------------------------------
(***************************************************************************)
(* Ranges                                                                  *)
(***************************************************************************)

\* The bytes of an answer to a request for the bytes from x to y.
Answer(x, y, size) == Part(InFile(<<x, y>>, size), size)

\* What cwh_send_file_range answers to a range from x to y.
LEMMA AnswerIs ==
  ASSUME NEW x \in Int, NEW y \in Int, NEW size \in Nat
  PROVE  Answer(x, y, size)
           = IF x < 0 \/ x >= size \/ y < x THEN FileAnswer(200, 0, size)
             ELSE FileAnswer(206, x, (IF y < size THEN y ELSE size - 1) - x + 1)
<1>1. CASE x < 0 \/ x >= size \/ y < x
  <2>1. InFile(<<x, y>>, size) = NoRange
    BY <1>1 DEF InFile
  <2> QED BY <1>1, <2>1 DEF Answer, Part
<1>2. CASE ~(x < 0 \/ x >= size \/ y < x)
  <2> DEFINE m == IF y < size THEN y ELSE size - 1
  <2>1. Min({y, size - 1}) = m
    <3>1. m \in {y, size - 1} /\ \A k \in {y, size - 1} : m <= k
      OBVIOUS
    <3> HIDE DEF m
    <3>2. /\ Min({y, size - 1}) \in {y, size - 1}
          /\ \A k \in {y, size - 1} : Min({y, size - 1}) <= k
      BY <3>1 DEF Min
    <3>3. m \in Int
      BY DEF m
    <3> QED BY <3>1, <3>2, <3>3
  <2> HIDE DEF m
  <2>2. InFile(<<x, y>>, size) = <<x, m>>
    BY <1>2, <2>1 DEF InFile
  <2>3. <<x, m>> # NoRange /\ <<x, m>>[1] = x /\ <<x, m>>[2] = m
    BY DEF NoRange
  <2>4. Answer(x, y, size) = FileAnswer(206, x, m - x + 1)
    BY <2>2, <2>3 DEF Answer, Part
  <2> QED BY <1>2, <2>4 DEF m
<1> QED BY <1>1, <1>2

\* The bytes from x to y that a file has.
Between(x, y, size) == {b \in 0..size - 1 : b >= x /\ b <= y}

\* It is the whole file or a part of it, and the bytes asked for that exist.
LEMMA AnswerFits ==
  ASSUME NEW x \in Int, NEW y \in Int, NEW size \in Nat
  PROVE  LET a == Answer(x, y, size)
             wanted == Between(x, y, size)
         IN  /\ a.status \in {200, 206} /\ Served(a) \subseteq 0..size - 1
             /\ a.status = 206 => Served(a) # {}
             /\ a.status = 200 => a.first = 0 /\ a.length = size
             /\ x >= 0 => IF wanted = {} THEN a.status = 200
                          ELSE a.status = 206 /\ Served(a) = wanted
<1> DEFINE a == Answer(x, y, size)
           wanted == Between(x, y, size)
           last == IF y < size THEN y ELSE size - 1
<1>1. CASE x < 0 \/ x >= size \/ y < x
  <2>1. a = FileAnswer(200, 0, size)
    BY <1>1, AnswerIs
  <2> HIDE DEF a
  <2>2. a.status = 200 /\ a.first = 0 /\ a.length = size
    BY <2>1 DEF FileAnswer
  <2>3. Served(a) = 0..0 + size - 1
    BY <2>2 DEF Served
  <2>4. Served(a) \subseteq 0..size - 1
    BY <2>3
  <2>5. x >= 0 => wanted = {}
    BY <1>1 DEF Between
  <2> HIDE DEF wanted
  <2>6. x >= 0 => IF wanted = {} THEN a.status = 200
                  ELSE a.status = 206 /\ Served(a) = wanted
    BY <2>2, <2>5
  <2> QED BY <2>2, <2>4, <2>6 DEF a, wanted
<1>2. CASE ~(x < 0 \/ x >= size \/ y < x)
  <2>1. a = FileAnswer(206, x, last - x + 1)
    BY <1>2, AnswerIs
  <2>2. last \in Int /\ x <= last /\ last < size /\ 0 <= x
    BY <1>2
  <2>3. wanted = x..last
    BY <1>2 DEF Between
  <2> HIDE DEF a, last, wanted
  <2>4. a.status = 206 /\ a.first = x /\ a.length = last - x + 1
    BY <2>1 DEF FileAnswer
  <2>5. Served(a) = x..last
    <3>1. x + (last - x + 1) - 1 = last
      BY <2>2
    <3>2. Served(a) = x..x + (last - x + 1) - 1
      BY <2>4 DEF Served
    <3> QED BY <3>1, <3>2
  <2>6. x..last \subseteq 0..size - 1 /\ x..last # {}
    BY <2>2
  <2>7. x >= 0 => IF wanted = {} THEN a.status = 200
                  ELSE a.status = 206 /\ Served(a) = wanted
    BY <2>3, <2>4, <2>5, <2>6
  <2> QED BY <2>4, <2>5, <2>6, <2>7 DEF a, wanted
<1> QED BY <1>1, <1>2

\* The digits of a text from a position on.
LEMMA DigitsUpTo ==
  ASSUME NEW X, NEW t \in Seq(X), NEW i \in 1..End(t)
  PROVE  \E j \in i..End(t) : /\ Digits(t, i) = Cut(t, i, j)
                              /\ j = End(t) \/ ~DecimalDigit(t[j])
                              /\ \A k \in i..j - 1 : DecimalDigit(t[k])
<1> DEFINE S == {k \in Nat : ~DecimalDigit(t[k])}
           f == First(i, End(t), LAMBDA j : ~DecimalDigit(t[j]))
<1>0. i \in Nat /\ End(t) \in Nat /\ i <= End(t)
  BY DEF End
<1>1. PICK j \in i..End(t) : (j = End(t) \/ j \in S) /\ \A k \in i..j - 1 : k \notin S
  <2> HIDE DEF S
  <2> QED BY <1>0, FirstExists
<1>2. (j = End(t) \/ ~DecimalDigit(t[j])) /\ \A k \in i..j - 1 : ~(~DecimalDigit(t[k]))
  BY <1>0, <1>1
<1>3. /\ f \in i..End(t) /\ (f = End(t) \/ ~DecimalDigit(t[f]))
      /\ \A k \in i..f - 1 : ~(~DecimalDigit(t[k]))
  BY <1>2 DEF First
<1>4. Digits(t, i) = Cut(t, i, f)
  BY DEF Digits
<1> HIDE DEF f
<1> QED BY <1>3, <1>4

\* Digits that end at j are what Digits returns.
LEMMA DigitsAre ==
  ASSUME NEW X, NEW t \in Seq(X), NEW i \in 1..End(t), NEW j \in i..End(t),
         j < End(t) => ~DecimalDigit(t[j]), \A k \in i..j - 1 : DecimalDigit(t[k])
  PROVE  Digits(t, i) = Cut(t, i, j)
<1>1. PICK f \in i..End(t) : /\ Digits(t, i) = Cut(t, i, f)
                             /\ f = End(t) \/ ~DecimalDigit(t[f])
                             /\ \A k \in i..f - 1 : DecimalDigit(t[k])
  BY DigitsUpTo
<1>2. i \in Nat /\ End(t) \in Nat
  BY DEF End
<1>3. f = j
  BY <1>1, <1>2
<1> QED BY <1>1, <1>3

\* Digits make a number.
LEMMA DigitsTyped ==
  ASSUME NEW X, NEW t \in Seq(X), NEW i \in 1..End(t)
  PROVE  Number(Digits(t, i)) \in Nat
<1>1. PICK f \in i..End(t) : /\ Digits(t, i) = Cut(t, i, f)
                             /\ \A k \in i..f - 1 : DecimalDigit(t[k])
  BY DigitsUpTo
<1> DEFINE s == Cut(t, i, f)
<1>2. s \in Seq(X) /\ Len(s) = f - i /\ \A k \in 1..f - i : s[k] = t[i - 1 + k]
  BY CutHas
<1>3. i \in Nat /\ f \in Nat
  BY DEF End
<1> HIDE DEF s
<1>4. \A k \in DOMAIN s : DecimalDigit(s[k])
  <2> SUFFICES ASSUME NEW k \in DOMAIN s PROVE DecimalDigit(s[k])
    OBVIOUS
  <2>1. k \in 1..f - i /\ i - 1 + k \in i..f - 1
    BY <1>2, <1>3
  <2> QED BY <1>1, <1>2, <2>1
<1>5. Number(s) \in Nat
  BY <1>2, <1>4, NumberTyped
<1> QED BY <1>1, <1>5 DEF s

\* atoll returns a whole number.
LEMMA AtollTyped ==
  ASSUME NEW X, NEW t \in Seq(X), NEW i \in 1..End(t)
  PROVE  atoll(t, i) \in Int
<1>0. Len(t) \in Nat /\ End(t) = Len(t) + 1
  BY DEF End
<1>1. CASE At(t, i, <<"-">>)
  <2>1. i + 1 \in 1..End(t)
    BY <1>0, <1>1, AtOne
  <2>2. Number(Digits(t, i + 1)) \in Nat
    BY <2>1, DigitsTyped
  <2> QED BY <1>1, <2>2 DEF atoll
<1>2. CASE ~At(t, i, <<"-">>)
  <2>1. Number(Digits(t, i)) \in Nat
    BY DigitsTyped
  <2> QED BY <1>2, <2>1 DEF atoll
<1> QED BY <1>1, <1>2

\* atoll reads digits as the number they are.
LEMMA AtollDigits ==
  ASSUME NEW X, NEW t \in Seq(X), NEW i \in 1..End(t), NEW j \in i..End(t),
         j < End(t) => ~DecimalDigit(t[j]) /\ t[j] # "-",
         \A k \in i..j - 1 : DecimalDigit(t[k])
  PROVE  atoll(t, i) = Number(Cut(t, i, j)) /\ Number(Cut(t, i, j)) \in Nat
<1>0. Len(t) \in Nat /\ End(t) = Len(t) + 1
  BY DEF End
<1>1. ~At(t, i, <<"-">>)
  <2>1. ~DecimalDigit("-")
    BY DEF DecimalDigit, Decimal
  <2>2. i < End(t) => t[i] # "-"
    BY <1>0, <2>1
  <2> QED BY <2>2, AtOne
<1>2. Digits(t, i) = Cut(t, i, j)
  BY DigitsAre
<1>3. Number(Cut(t, i, j)) \in Nat
  BY <1>2, DigitsTyped
<1> QED BY <1>1, <1>2, <1>3 DEF atoll

\* What a text asks for are two numbers.
LEMMA AskedTyped ==
  ASSUME NEW X, NEW t \in Seq(X), NEW size \in Nat, find_char(t, 1, End(t), "-") # End(t)
  PROVE  \E x \in Int, y \in Int : Asked(t, size) = <<x, y>>
<1>0. Len(t) \in Nat /\ End(t) = Len(t) + 1 /\ 1 \in 1..End(t) /\ End(t) \in 1..End(t)
  BY DEF End
<1> DEFINE dash == find_char(t, 1, End(t), "-")
           y == IF OpenEnded(t, dash) THEN size - 1 ELSE atoll(t, dash + 1)
<1>1. dash \in 1..End(t) /\ dash + 1 \in 1..End(t)
  <2>1. dash \in 1..End(t)
    BY <1>0, FindCharFacts
  <2> QED BY <1>0, <2>1
<1>2. CASE At(t, 1, <<"-">>)
  <2>1. 2 \in 1..End(t)
    BY <1>0, <1>2, AtOne
  <2>2. atoll(t, 2) \in Int
    BY <2>1, AtollTyped
  <2> DEFINE s == {size - atoll(t, 2), 0}
  <2>3. Max(s) \in Int
    <3>1. \E m \in s : \A k \in s : m >= k
      BY <2>2
    <3>2. Max(s) \in s
      BY <3>1 DEF Max
    <3> QED BY <2>2, <3>2
  <2>4. Asked(t, size) = <<Max(s), size - 1>>
    BY <1>2 DEF Asked
  <2> HIDE DEF s
  <2> QED BY <2>3, <2>4
<1>3. CASE ~At(t, 1, <<"-">>)
  <2>1. atoll(t, 1) \in Int /\ atoll(t, dash + 1) \in Int
    <3>1. atoll(t, 1) \in Int
      BY <1>0, AtollTyped
    <3>2. atoll(t, dash + 1) \in Int
      BY <1>1, AtollTyped
    <3> QED BY <3>1, <3>2
  <2>2. Asked(t, size) = <<atoll(t, 1), y>>
    BY <1>3 DEF Asked
  <2>3. y \in Int
    BY <2>1
  <2> HIDE DEF y
  <2> QED BY <2>1, <2>2, <2>3
<1> QED BY <1>2, <1>3

\* The line of the header and what is left and right of its dash.
LEMMA LineParts ==
  ASSUME NEW X, text \in Seq(X), WellFormed
  PROVE  /\ End(Line) \in 1..End(text) /\ (End(Line) < End(text) => text[End(Line)] = CR)
         /\ Dash \in 1..End(Line) - 1 /\ text[Dash] = "-"
         /\ find_char(text, 1, End(text), "-") = Dash
         /\ Left = Cut(text, 1, Dash) /\ (Left = <<>> <=> Dash = 1)
         /\ \A k \in 1..Dash - 1 : DecimalDigit(text[k])
         /\ Right = Cut(text, Dash + 1, End(Line)) /\ (Right = <<>> <=> Dash + 1 = End(Line))
         /\ \A k \in Dash + 1..End(Line) - 1 : DecimalDigit(text[k])
         /\ ~(Left = <<>> /\ Right = <<>>)
<1>0. Len(text) \in Nat /\ End(text) = Len(text) + 1 /\ 1 \in 1..End(text)
      /\ End(text) \in 1..End(text) /\ DOMAIN text = 1..Len(text)
  BY DEF End
<1> DEFINE l == find_char(text, 1, End(text), CR)
<1>1. l \in 1..End(text) /\ (l < End(text) => text[l] = CR)
  BY <1>0, FindCharFacts
<1>2. Line = Cut(text, 1, l)
  BY DEF Line, find_char
<1> HIDE DEF l
<1>3. Line \in Seq(X) /\ Len(Line) = l - 1 /\ \A k \in 1..l - 1 : Line[k] = text[k]
  <2> DEFINE s == Cut(text, 1, l)
  <2>0. l \in 1..End(text) /\ 1 \in 1..End(text)
    BY <1>0, <1>1
  <2>1. s \in Seq(X) /\ Len(s) = l - 1 /\ \A k \in 1..l - 1 : s[k] = text[1 - 1 + k]
    BY <2>0, CutHas
  <2> HIDE DEF s
  <2>2. \A k \in 1..l - 1 : 1 - 1 + k = k
    BY <1>1
  <2> QED BY <1>2, <2>1, <2>2 DEF s
<1>4. End(Line) = l /\ l \in Nat
  BY <1>0, <1>1, <1>3 DEF End
<1>5. /\ Dash \in 1..l - 1 /\ Line[Dash] = "-" /\ \A k \in 1..Dash - 1 : Line[k] # "-"
  <2>1. 1 \in 1..End(Line) /\ l \in 1..End(Line)
    BY <1>0, <1>1, <1>4
  <2>2. /\ Dash \in 1..l /\ (Dash < l => Line[Dash] = "-")
        /\ \A k \in 1..Dash - 1 : Line[k] # "-"
    <3> DEFINE d == find_char(Line, 1, l, "-")
    <3>1. /\ d \in 1..l /\ (d < l => Line[d] = "-") /\ \A k \in 1..d - 1 : Line[k] # "-"
      BY <1>3, <2>1, FindCharFacts
    <3>2. Dash = d
      BY <1>4 DEF Dash
    <3> HIDE DEF d
    <3> QED BY <3>1, <3>2
  <2>3. Dash < l
    BY <1>4 DEF WellFormed
  <2> QED BY <1>4, <2>2, <2>3
<1>6. text[Dash] = "-" /\ find_char(text, 1, End(text), "-") = Dash
  <2>1. text[Dash] = "-" /\ \A k \in 1..Dash - 1 : text[k] # "-"
    BY <1>3, <1>4, <1>5
  <2>2. Dash \in 1..End(text) /\ Dash \in DOMAIN text
    BY <1>0, <1>1, <1>5
  <2>3. IsFirst(Dash, 1, End(text), Where(text, "-"))
    BY <1>0, <2>1, <2>2 DEF IsFirst, Where
  <2> QED BY <1>0, <2>1, <2>3, OneFound
<1>7. ASSUME NEW i \in 1..l, NEW j \in i..l
      PROVE  /\ Cut(Line, i, j) = Cut(text, i, j)
             /\ Cut(Line, i, j) = <<>> <=> i = j
             /\ AllDigits(Cut(Line, i, j)) => \A k \in i..j - 1 : DecimalDigit(text[k])
  <2> DEFINE s == Cut(Line, i, j)  r == Cut(text, i, j)
  <2>1. s \in Seq(X) /\ Len(s) = j - i /\ \A k \in 1..j - i : s[k] = Line[i - 1 + k]
    BY <1>3, <1>4, CutHas
  <2>2. r \in Seq(X) /\ Len(r) = j - i /\ \A k \in 1..j - i : r[k] = text[i - 1 + k]
    <3>1. i \in 1..End(text) /\ j \in i..End(text)
      BY <1>0, <1>1
    <3> QED BY <3>1, CutHas
  <2> HIDE DEF s, r
  <2>3. \A k \in 1..j - i : i - 1 + k \in 1..l - 1
    BY <1>4
  <2>4. s = r
    <3>1. \A k \in 1..Len(s) : s[k] = r[k]
      BY <1>3, <2>1, <2>2, <2>3
    <3> QED BY <2>1, <2>2, <3>1, SeqEqual
  <2>5. s = <<>> <=> i = j
    <3>1. s = <<>> <=> Len(s) = 0
      BY <2>1
    <3> QED BY <1>4, <2>1, <3>1
  <2>6. ASSUME AllDigits(s), NEW k \in i..j - 1 PROVE DecimalDigit(text[k])
    <3> DEFINE m == k - (i - 1)
    <3>1. m \in 1..j - i /\ i - 1 + m = k
      BY <1>4
    <3> HIDE DEF m
    <3>2. s[m] = text[k] /\ m \in DOMAIN s
      <4>1. k \in 1..l - 1
        BY <1>4
      <4>2. DOMAIN s = 1..j - i
        BY <2>1
      <4> QED BY <1>3, <2>1, <3>1, <4>1, <4>2
    <3> QED BY <2>6, <3>2 DEF AllDigits
  <2> QED BY <2>4, <2>5, <2>6 DEF s, r
<1>8. /\ Left = Cut(text, 1, Dash) /\ (Left = <<>> <=> Dash = 1)
      /\ \A k \in 1..Dash - 1 : DecimalDigit(text[k])
  <2>1. 1 \in 1..l /\ Dash \in 1..l
    BY <1>4, <1>5
  <2>2. AllDigits(Left)
    BY DEF WellFormed
  <2> QED BY <1>7, <2>1, <2>2 DEF Left
<1>9. /\ Right = Cut(text, Dash + 1, End(Line)) /\ (Right = <<>> <=> Dash + 1 = End(Line))
      /\ \A k \in Dash + 1..End(Line) - 1 : DecimalDigit(text[k])
  <2>1. Dash + 1 \in 1..l /\ l \in Dash + 1..l
    BY <1>4, <1>5
  <2>2. AllDigits(Right)
    BY DEF WellFormed
  <2> QED BY <1>4, <1>7, <2>1, <2>2 DEF Right
<1>10. ~(Left = <<>> /\ Right = <<>>)
  <2>1. Len(Line) > 1
    BY DEF WellFormed
  <2> QED BY <1>3, <1>4, <1>8, <1>9, <2>1
<1> QED BY <1>1, <1>4, <1>5, <1>6, <1>8, <1>9, <1>10

\* A well-formed range, read as the parser reads it.
LEMMA AskedWell ==
  ASSUME NEW X, text \in Seq(X), NEW size \in Nat, WellFormed
  PROVE  /\ find_char(text, 1, End(text), "-") # End(text)
         /\ Number(Left) \in Nat /\ Number(Right) \in Nat
         /\ Asked(text, size)
              = IF Left = <<>> THEN <<Max({size - Number(Right), 0}), size - 1>>
                ELSE <<Number(Left), IF Right = <<>> THEN size - 1 ELSE Number(Right)>>
<1>0. Len(text) \in Nat /\ End(text) = Len(text) + 1 /\ 1 \in 1..End(text)
  BY DEF End
<1>1. /\ End(Line) \in 1..End(text) /\ (End(Line) < End(text) => text[End(Line)] = CR)
      /\ Dash \in 1..End(Line) - 1 /\ text[Dash] = "-"
      /\ find_char(text, 1, End(text), "-") = Dash
      /\ Left = Cut(text, 1, Dash) /\ (Left = <<>> <=> Dash = 1)
      /\ \A k \in 1..Dash - 1 : DecimalDigit(text[k])
      /\ Right = Cut(text, Dash + 1, End(Line)) /\ (Right = <<>> <=> Dash + 1 = End(Line))
      /\ \A k \in Dash + 1..End(Line) - 1 : DecimalDigit(text[k])
  BY LineParts
<1>2. ~DecimalDigit("-") /\ ~DecimalDigit(CR) /\ ~DecimalDigit(SP) /\ ~DecimalDigit(LF)
      /\ CR # "-"
  <2>1. \A c : DecimalDigit(c) => c \in {"0", "1", "2", "3", "4", "5", "6", "7", "8", "9"}
    BY DEF DecimalDigit, Decimal
  <2>2. \A c \in {"0", "1", "2", "3", "4", "5", "6", "7", "8", "9"} :
          c # "-" /\ c # "CR" /\ c # " " /\ c # "LF"
    OBVIOUS
  <2> QED BY <2>1, <2>2 DEF CR, SP, LF
<1>3. atoll(text, Dash + 1) = Number(Right) /\ Number(Right) \in Nat
  <2>1. Dash + 1 \in 1..End(text) /\ End(Line) \in Dash + 1..End(text)
    BY <1>0, <1>1
  <2>2. End(Line) < End(text) => ~DecimalDigit(text[End(Line)]) /\ text[End(Line)] # "-"
    BY <1>1, <1>2
  <2> QED BY <1>1, <2>1, <2>2, AtollDigits
<1>4. Number(Left) \in Nat /\ (Left # <<>> => atoll(text, 1) = Number(Left))
  <2>1. Dash \in 1..End(text) /\ 1 \in 1..End(text)
    BY <1>0, <1>1
  <2>2. Digits(text, 1) = Left
    <3>1. Dash < End(text) => ~DecimalDigit(text[Dash])
      BY <1>1, <1>2
    <3> QED BY <1>1, <2>1, <3>1, DigitsAre
  <2>3. Number(Left) \in Nat
    BY <2>1, <2>2, DigitsTyped
  <2>4. Left # <<>> => ~At(text, 1, <<"-">>)
    <3>1. Left # <<>> => DecimalDigit(text[1])
      BY <1>0, <1>1
    <3> QED BY <1>2, <2>1, <3>1, AtOne
  <2> QED BY <2>2, <2>3, <2>4 DEF atoll
<1>5. At(text, 1, <<"-">>) <=> Left = <<>>
  <2>1. At(text, 1, <<"-">>) <=> 1 < End(text) /\ text[1] = "-"
    BY <1>0, AtOne
  <2>2. Left # <<>> => DecimalDigit(text[1])
    BY <1>0, <1>1
  <2>3. Left = <<>> => 1 < End(text) /\ text[1] = "-"
    BY <1>0, <1>1
  <2> QED BY <1>2, <2>1, <2>2, <2>3
<1>6. OpenEnded(text, Dash) <=> Right = <<>>
  <2>1. CASE Right = <<>>
    BY <1>0, <1>1, <2>1 DEF OpenEnded
  <2>2. CASE Right # <<>>
    <3>1. DecimalDigit(text[Dash + 1]) /\ Dash + 1 # End(text)
      BY <1>0, <1>1, <2>2
    <3> QED BY <1>2, <2>2, <3>1 DEF OpenEnded
  <2> QED BY <2>1, <2>2
<1>7. find_char(text, 1, End(text), "-") # End(text)
  BY <1>0, <1>1
<1>8. CASE Left = <<>>
  <2>1. Dash + 1 = 2
    BY <1>1, <1>8
  <2>2. atoll(text, 2) = Number(Right)
    BY <1>3, <2>1
  <2>3. Asked(text, size) = <<Max({size - Number(Right), 0}), size - 1>>
    BY <1>5, <1>8, <2>2 DEF Asked
  <2> QED BY <1>3, <1>4, <1>7, <1>8, <2>3
<1>9. CASE Left # <<>>
  <2>1. Asked(text, size)
          = <<atoll(text, 1), IF OpenEnded(text, Dash) THEN size - 1
                              ELSE atoll(text, Dash + 1)>>
    BY <1>1, <1>5, <1>9 DEF Asked
  <2> QED BY <1>3, <1>4, <1>6, <1>7, <1>9, <2>1
<1> QED BY <1>8, <1>9

\* The bytes a well-formed range asks for, as numbers from one to another.
LEMMA WantedAs ==
  ASSUME NEW X, text \in Seq(X), subject.size \in Nat, WellFormed
  PROVE  \E x \in Int, y \in Int :
           /\ x >= 0 /\ Asked(text, subject.size) = <<x, y>>
           /\ Wanted = Between(x, y, subject.size)
<1> DEFINE size == subject.size
<1>1. /\ Number(Left) \in Nat /\ Number(Right) \in Nat
      /\ Asked(text, size)
           = IF Left = <<>> THEN <<Max({size - Number(Right), 0}), size - 1>>
             ELSE <<Number(Left), IF Right = <<>> THEN size - 1 ELSE Number(Right)>>
  BY AskedWell
<1>2. size \in Nat
  OBVIOUS
<1>3. Wanted = {b \in 0..size - 1 : IF Left = <<>> THEN b >= size - Number(Right)
                                    ELSE b >= Number(Left)
                                           /\ (Right = <<>> \/ b <= Number(Right))}
  BY DEF Wanted
<1> HIDE DEF size
<1>4. CASE Left = <<>>
  <2> DEFINE n == size - Number(Right)
             x == IF n >= 0 THEN n ELSE 0
  <2>1. Max({n, 0}) = x
    <3>1. n \in Int
      BY <1>1, <1>2
    <3> HIDE DEF n
    <3>2. x \in {n, 0} /\ \A k \in {n, 0} : x >= k
      BY <3>1
    <3> HIDE DEF x
    <3>3. Max({n, 0}) \in {n, 0} /\ \A k \in {n, 0} : Max({n, 0}) >= k
      BY <3>2 DEF Max
    <3>4. x \in Int
      BY <3>1, <3>2
    <3> QED BY <3>1, <3>2, <3>3, <3>4
  <2>2. x \in Int /\ x >= 0 /\ size - 1 \in Int
    BY <1>1, <1>2
  <2>3. Asked(text, size) = <<x, size - 1>>
    BY <1>1, <1>4, <2>1
  <2>4. Wanted = Between(x, size - 1, size)
    <3>1. Wanted = {b \in 0..size - 1 : b >= n}
      BY <1>3, <1>4
    <3>2. \A b \in 0..size - 1 : b >= n <=> b >= x /\ b <= size - 1
      BY <1>1, <1>2
    <3> HIDE DEF n, x
    <3> QED BY <3>1, <3>2 DEF Between
  <2> HIDE DEF x
  <2> QED BY <2>2, <2>3, <2>4 DEF size
<1>5. CASE Left # <<>>
  <2> DEFINE x == Number(Left)
             y == IF Right = <<>> THEN size - 1 ELSE Number(Right)
  <2>1. x \in Int /\ x >= 0 /\ y \in Int
    BY <1>1, <1>2
  <2>2. Asked(text, size) = <<x, y>>
    BY <1>1, <1>5
  <2>3. Wanted = Between(x, y, size)
    <3>1. Wanted = {b \in 0..size - 1 : b >= x /\ (Right = <<>> \/ b <= Number(Right))}
      BY <1>3, <1>5
    <3>2. \A b \in 0..size - 1 : (Right = <<>> \/ b <= Number(Right)) <=> b <= y
      BY <1>1, <1>2
    <3> HIDE DEF x, y
    <3> QED BY <3>1, <3>2 DEF Between
  <2> HIDE DEF x, y
  <2> QED BY <2>1, <2>2, <2>3 DEF size
<1> QED BY <1>4, <1>5

\* cwh_send_file_range answers a file that is there by bytes the file has, for
\* every size and every header: a part is never empty, and a well-formed range
\* brings exactly the bytes it asks for, or the whole file when there are none.
THEOREM RangesServed == Spec => []RangeServed
<1>1. ASSUME TInv, Is("range"), subject.size \in 0..MaxFile
      PROVE  LET a == cwh_send_file_range(text, subject.size)
             IN  /\ a.status \in {200, 206} /\ Served(a) \subseteq 0..subject.size - 1
                 /\ a.status = 206 => Served(a) # {}
                 /\ a.status = 200 => a.first = 0 /\ a.length = subject.size
                 /\ WellFormed => IF Wanted = {} THEN a.status = 200
                                  ELSE a.status = 206 /\ Served(a) = Wanted
  <2> DEFINE size == subject.size
             a == cwh_send_file_range(text, size)
  <2>1. size \in Nat /\ size <= MaxFile /\ size # NoFile
    BY <1>1, FileAssumption DEF NoFile
  <2>2. PICK X : text \in Seq(X)
    BY <1>1 DEF TInv, Is
  <2> HIDE DEF size
  <2>3. a = Part(parse_range_header(text, size), size)
    BY <2>1, FileAssumption DEF cwh_send_file_range
  <2> HIDE DEF a
  <2>4. CASE find_char(text, 1, End(text), "-") = End(text)
    <3>1. a = FileAnswer(200, 0, size)
      BY <2>3, <2>4 DEF parse_range_header, Part
    <3>2. a.status = 200 /\ a.first = 0 /\ a.length = size
      BY <3>1 DEF FileAnswer
    <3>3. Served(a) \subseteq 0..size - 1
      <4>1. 0 + size - 1 = size - 1
        BY <2>1
      <4> QED BY <3>2, <4>1 DEF Served
    <3>4. ~WellFormed
      BY <2>2, <2>4, LineParts, AskedWell, <2>1
    <3> QED BY <3>2, <3>3, <3>4 DEF a, size
  <2>5. CASE find_char(text, 1, End(text), "-") # End(text)
    <3>1. ASSUME NEW x \in Int, NEW y \in Int, Asked(text, size) = <<x, y>>
          PROVE  a = Answer(x, y, size)
      BY <2>3, <2>5, <3>1 DEF parse_range_header, Answer
    <3>2. /\ a.status \in {200, 206} /\ Served(a) \subseteq 0..size - 1
          /\ a.status = 206 => Served(a) # {}
          /\ a.status = 200 => a.first = 0 /\ a.length = size
      <4>1. PICK x \in Int, y \in Int : Asked(text, size) = <<x, y>>
        BY <2>1, <2>2, <2>5, AskedTyped
      <4>2. a = Answer(x, y, size)
        BY <3>1, <4>1
      <4>3. /\ Answer(x, y, size).status \in {200, 206}
            /\ Served(Answer(x, y, size)) \subseteq 0..size - 1
            /\ Answer(x, y, size).status = 206 => Served(Answer(x, y, size)) # {}
            /\ Answer(x, y, size).status = 200 =>
                 /\ Answer(x, y, size).first = 0
                 /\ Answer(x, y, size).length = size
        BY <2>1, <4>1, AnswerFits
      <4> QED BY <4>2, <4>3
    <3>3. ASSUME WellFormed
          PROVE  IF Wanted = {} THEN a.status = 200
                 ELSE a.status = 206 /\ Served(a) = Wanted
      <4>1. PICK x \in Int, y \in Int :
               /\ x >= 0 /\ Asked(text, size) = <<x, y>>
               /\ Wanted = Between(x, y, size)
        BY <2>1, <2>2, <3>3, WantedAs DEF size
      <4>2. a = Answer(x, y, size)
        BY <3>1, <4>1
      <4>3. IF Between(x, y, size) = {} THEN Answer(x, y, size).status = 200
            ELSE /\ Answer(x, y, size).status = 206
                 /\ Served(Answer(x, y, size)) = Between(x, y, size)
        BY <2>1, <4>1, AnswerFits
      <4> QED BY <4>1, <4>2, <4>3
    <3> QED BY <3>2, <3>3 DEF a, size
  <2> QED BY <2>4, <2>5
<1>2. TInv => RangeServed
  BY <1>1 DEF RangeServed
<1> QED BY <1>2, TInvariance, PTL

-----------------------------------------------------------------------------
(***************************************************************************)
(* The bytes of a number                                                   *)
(***************************************************************************)

\* Bytes put together.
Byte == 0..255
BigStep == [x \in Nat \X Byte |-> x[1] * 256 + x[2]]

\* Big is such a fold.
LEMMA BigFolded ==
  ASSUME NEW seq \in Seq(Byte)
  PROVE  Foldable(Nat, Byte, BigStep, 0, seq) /\ Big(seq) = Folded(BigStep, 0, seq)
<1> DEFINE Iter(g) == g = [s \in SUBSET (DOMAIN seq) |->
                             IF s = {} THEN 0 ELSE g[s \ {Max(s)}] * 256 + seq[Max(s)]]
           c == CHOOSE g : Iter(g)
<1>1. ASSUME NEW n \in Nat, NEW b \in Byte
      PROVE  n * 256 + b \in Nat /\ BigStep[<<n, b>>] = n * 256 + b
  <2>1. n * 256 + b \in Nat
    BY DEF Byte
  <2>2. BigStep[<<n, b>>] = n * 256 + b
    BY DEF BigStep
  <2> QED BY <2>1, <2>2
<1>2. Foldable(Nat, Byte, BigStep, 0, seq)
  <2>1. \A n \in Nat, b \in Byte : n * 256 + b \in Nat
    BY <1>1
  <2> QED BY <2>1 DEF Foldable, BigStep
<1>3. PICK g \in [SUBSET (DOMAIN seq) -> Nat] : IsIter(g, BigStep, 0, seq)
  BY <1>2, IterExists DEF Foldable
<1>4. Iter(g)
  <2>1. \A s \in SUBSET (DOMAIN seq) : s # {} =>
          g[s \ {Max(s)}] \in Nat /\ seq[Max(s)] \in Byte
    BY <1>3, IterStep
  <2>2. \A s \in SUBSET (DOMAIN seq) : s # {} =>
          BigStep[<<g[s \ {Max(s)}], seq[Max(s)]>>] = g[s \ {Max(s)}] * 256 + seq[Max(s)]
    BY <1>1, <2>1
  <2>3. g[{}] = 0
    BY <1>3 DEF IsIter
  <2>4. \A s \in SUBSET (DOMAIN seq) : s # {} =>
          g[s] = BigStep[<<g[s \ {Max(s)}], seq[Max(s)]>>]
    BY <1>3 DEF IsIter
  <2>5. \A s \in SUBSET (DOMAIN seq) : s # {} => g[s] = g[s \ {Max(s)}] * 256 + seq[Max(s)]
    BY <2>2, <2>4, Zenon
  <2>6. g = [s \in SUBSET (DOMAIN seq) |-> g[s]]
    BY <1>3
  <2> QED BY <2>3, <2>5, <2>6
<1>5. Iter(c)
  <2> HIDE DEF Iter
  <2> QED BY <1>4
<1>6. Big(seq) = c[DOMAIN seq]
  BY DEF Big, FoldLeft, MapThenFoldSet
<1> HIDE DEF c
<1>7. Iterates(c, Nat, BigStep, 0, seq)
  <2>1. \A s \in SUBSET (DOMAIN seq) : s # {} => seq[Max(s)] \in Byte
    BY IterStep
  <2>2. \A s \in SUBSET (DOMAIN seq) : s # {} /\ c[s \ {Max(s)}] \in Nat =>
          BigStep[<<c[s \ {Max(s)}], seq[Max(s)]>>] = c[s \ {Max(s)}] * 256 + seq[Max(s)]
    <3>1. ASSUME NEW s \in SUBSET (DOMAIN seq), s # {}, c[s \ {Max(s)}] \in Nat
          PROVE  BigStep[<<c[s \ {Max(s)}], seq[Max(s)]>>] = c[s \ {Max(s)}] * 256 + seq[Max(s)]
      BY <1>1, <2>1, <3>1
    <3> QED BY <3>1
  <2>3. c[{}] = 0
    BY <1>5
  <2>4. \A s \in SUBSET (DOMAIN seq) : s # {} =>
          c[s] = c[s \ {Max(s)}] * 256 + seq[Max(s)]
    BY <1>5
  <2>5. \A s \in SUBSET (DOMAIN seq) : s # {} /\ c[s \ {Max(s)}] \in Nat =>
          c[s] = BigStep[<<c[s \ {Max(s)}], seq[Max(s)]>>]
    BY <2>2, <2>4, Zenon
  <2> QED BY <2>3, <2>5, Zenon DEF Iterates
<1> QED BY <1>2, <1>6, <1>7, IteratedIs

\* Big, byte by byte.
LEMMA BigValue ==
  /\ Big(<<>>) = 0
  /\ \A seq \in Seq(Byte), b \in Byte : /\ Big(seq) \in Nat
                                        /\ Big(Append(seq, b)) = Big(seq) * 256 + b
<1>1. <<>> \in Seq(Byte)
  OBVIOUS
<1>2. Big(<<>>) = 0
  BY <1>1, BigFolded, FoldedEmpty
<1>3. ASSUME NEW seq \in Seq(Byte), NEW b \in Byte
      PROVE  Big(seq) \in Nat /\ Big(Append(seq, b)) = Big(seq) * 256 + b
  <2>1. Append(seq, b) \in Seq(Byte)
    OBVIOUS
  <2>2. Foldable(Nat, Byte, BigStep, 0, seq) /\ Big(seq) = Folded(BigStep, 0, seq)
    BY BigFolded
  <2>3. Big(Append(seq, b)) = Folded(BigStep, 0, Append(seq, b))
    BY <2>1, BigFolded
  <2>4. /\ Folded(BigStep, 0, seq) \in Nat
        /\ Folded(BigStep, 0, Append(seq, b)) = BigStep[<<Folded(BigStep, 0, seq), b>>]
    BY <2>2, FoldedAppend
  <2>5. Big(seq) \in Nat
    BY <2>2, <2>4
  <2>6. \A n \in Nat : BigStep[<<n, b>>] = n * 256 + b
    BY DEF BigStep
  <2> QED BY <2>2, <2>3, <2>4, <2>5, <2>6
<1> QED BY <1>2, <1>3

\* The function Bytes, byte by byte.
ByteMore(k, n) == Append(Bytes[k - 1][n \div 256], n % 256)

\* It is made so.
LEMMA BytesSteps ==
  /\ \A n \in Nat : Bytes[0][n] = <<>>
  /\ \A k \in 1..8, n \in Nat : Bytes[k][n] = ByteMore(k, n)
<1> DEFINE V == [Nat -> Seq(Byte)]
           h == [x \in V \X {0} |-> [n \in Nat |-> Append(x[1][n \div 256], n % 256)]]
           base == [n \in Nat |-> <<>>]
           eight == [i \in 1..8 |-> 0]
           Body(g, k) == [n \in Nat |-> IF k = 0 THEN <<>>
                                        ELSE Append(g[k - 1][n \div 256], n % 256)]
           IsBytes(g) == g = [k \in 0..8 |-> Body(g, k)]
<1>1. \A n \in Nat : n \div 256 \in Nat /\ n % 256 \in Byte
  BY DEF Byte
<1>2. base \in V
  OBVIOUS
<1>3. ASSUME NEW f \in V
      PROVE  [n \in Nat |-> Append(f[n \div 256], n % 256)] \in V
  <2>1. ASSUME NEW n \in Nat PROVE Append(f[n \div 256], n % 256) \in Seq(Byte)
    <3>1. f[n \div 256] \in Seq(Byte) /\ n % 256 \in Byte
      BY <1>1
    <3> QED BY <3>1
  <2> QED BY <2>1
<1>4. h \in [V \X {0} -> V]
  <2>1. \A x \in V \X {0} : x[1] \in V
    OBVIOUS
  <2>2. \A x \in V \X {0} : [n \in Nat |-> Append(x[1][n \div 256], n % 256)] \in V
    <3> HIDE DEF V
    <3> QED BY <1>3, <2>1
  <2> HIDE DEF V
  <2> QED BY <2>2
<1>5. eight \in Seq({0}) /\ Len(eight) = 8
  OBVIOUS
<1>6. \A f \in V : h[<<f, 0>>] = [n \in Nat |-> Append(f[n \div 256], n % 256)]
  OBVIOUS
<1> HIDE DEF V, h, base, eight
<1>7. Foldable(V, {0}, h, base, eight)
  BY <1>2, <1>4, <1>5 DEF Foldable
<1>8. PICK v : IsRun(v, h, base, eight)
  BY <1>7, RunExists
<1>9. v[0] = base /\ \A k \in 1..8 : v[k] = h[<<v[k - 1], 0>>]
  BY <1>5, <1>8 DEF IsRun, eight
<1>10. \A k \in 0..8 : v[k] \in V
  <2>1. Follows(v, V, h, base, eight, 8)
    BY <1>9 DEF Follows, eight
  <2>2. 8 \in 0..Len(eight)
    BY <1>5
  <2> QED BY <1>7, <1>8, <2>1, <2>2, RunIs
<1>11. ASSUME NEW k \in 0..8 PROVE v[k] = Body(v, k)
  <2>1. CASE k = 0
    BY <1>9, <2>1 DEF base
  <2>2. CASE k # 0
    <3>1. k \in 1..8 /\ k - 1 \in 0..8
      BY <2>2
    <3>2. v[k] = [n \in Nat |-> Append(v[k - 1][n \div 256], n % 256)]
      BY <1>6, <1>9, <1>10, <3>1
    <3> QED BY <2>2, <3>2
  <2> QED BY <2>1, <2>2
<1>12. IsBytes([k \in 0..8 |-> v[k]])
  <2> DEFINE w == [k \in 0..8 |-> v[k]]
  <2>1. ASSUME NEW k \in 0..8 PROVE Body(w, k) = Body(v, k)
    <3>1. CASE k = 0
      BY <3>1
    <3>2. CASE k # 0
      <4>1. w[k - 1] = v[k - 1]
        BY <3>2
      <4> HIDE DEF w
      <4> QED BY <4>1
    <3> QED BY <3>1, <3>2
  <2> HIDE DEF Body
  <2>2. w = [k \in 0..8 |-> Body(w, k)]
    BY <1>11, <2>1
  <2> QED BY <2>2
<1>13. \E g : IsBytes(g)
  <2> HIDE DEF IsBytes
  <2> QED BY <1>12
<1>14. IsBytes(Bytes)
  <2>1. Bytes = CHOOSE g : IsBytes(g)
    BY DEF Bytes
  <2> HIDE DEF IsBytes
  <2> QED BY <1>13, <2>1
<1>15. \A k \in 0..8 : Bytes[k] = Body(Bytes, k)
  <2> HIDE DEF Body
  <2> QED BY <1>14
<1>16. Bytes[0] = Body(Bytes, 0) /\ \A k \in 1..8 : Bytes[k] = Body(Bytes, k)
  BY <1>15
<1>17. Body(Bytes, 0) = [n \in Nat |-> <<>>]
  OBVIOUS
<1>18. ASSUME NEW k \in 1..8, NEW n \in Nat
       PROVE  Body(Bytes, k)[n] = ByteMore(k, n)
  <2>1. k # 0
    OBVIOUS
  <2> QED BY <2>1 DEF ByteMore
<1> HIDE DEF Body
<1>19. \A n \in Nat : Bytes[0][n] = <<>>
  BY <1>16, <1>17
<1>20. ASSUME NEW k \in 1..8, NEW n \in Nat
       PROVE  Bytes[k][n] = ByteMore(k, n)
  <2>1. Bytes[k] = Body(Bytes, k)
    BY <1>16
  <2>2. Body(Bytes, k)[n] = ByteMore(k, n)
    BY <1>18
  <2> QED BY <2>1, <2>2
<1> QED BY <1>19, <1>20

\* A number in bytes is as long as it should be.
LEMMA BytesTyped ==
  \A k \in 0..8, n \in Nat : Bytes[k][n] \in Seq(Byte) /\ Len(Bytes[k][n]) = k
<1> DEFINE B == {k \in Nat : k <= 8 => \A n \in Nat : /\ Bytes[k][n] \in Seq(Byte)
                                                     /\ Len(Bytes[k][n]) = k}
<1>1. 0 \in B
  <2>1. <<>> \in Seq(Byte) /\ Len(<<>>) = 0
    OBVIOUS
  <2>2. \A n \in Nat : Bytes[0][n] \in Seq(Byte) /\ Len(Bytes[0][n]) = 0
    BY <2>1, BytesSteps
  <2> QED BY <2>2
<1>2. ASSUME NEW k \in Nat, k \in B PROVE k + 1 \in B
  <2> SUFFICES ASSUME k + 1 <= 8, NEW n \in Nat
               PROVE  Bytes[k + 1][n] \in Seq(Byte) /\ Len(Bytes[k + 1][n]) = k + 1
    OBVIOUS
  <2>1. n \div 256 \in Nat /\ n % 256 \in Byte
    BY DEF Byte
  <2>2. Bytes[k][n \div 256] \in Seq(Byte) /\ Len(Bytes[k][n \div 256]) = k
    BY <1>2, <2>1
  <2>3. Bytes[k + 1][n] = Append(Bytes[k][n \div 256], n % 256)
    <3>1. k + 1 \in 1..8 /\ (k + 1) - 1 = k
      OBVIOUS
    <3>2. Bytes[k + 1][n] = ByteMore(k + 1, n)
      BY <3>1, BytesSteps
    <3> QED BY <3>1, <3>2 DEF ByteMore
  <2> DEFINE s == Bytes[k][n \div 256]
  <2>4. s \in Seq(Byte) /\ Len(s) = k
    BY <2>2
  <2> HIDE DEF s
  <2>5. Append(s, n % 256) \in Seq(Byte) /\ Len(Append(s, n % 256)) = k + 1
    BY <2>1, <2>4
  <2> QED BY <2>3, <2>5 DEF s
<1>3. \A k \in Nat : k \in B
  <2> HIDE DEF B
  <2> QED BY <1>1, <1>2, Induction
<1> QED BY <1>3

\* A number is what is above its low byte, and its low byte.
LEMMA LowByte ==
  \A n \in Nat : n \div 256 \in Nat /\ n = (n \div 256) * 256 + (n % 256)
  OBVIOUS

\* What one more byte carries.
LEMMA OneByteMore ==
  ASSUME NEW k \in 1..8, NEW n \in Nat, Big(Bytes[k - 1][n \div 256]) = n \div 256
  PROVE  Big(Bytes[k][n]) = n
<1>1. n \div 256 \in Nat /\ n % 256 \in Byte /\ n = (n \div 256) * 256 + (n % 256)
  <2>1. n % 256 \in Byte
    BY DEF Byte
  <2>2. n \div 256 \in Nat /\ n = (n \div 256) * 256 + (n % 256)
    BY LowByte
  <2> QED BY <2>1, <2>2
<1>2. Bytes[k][n] = Append(Bytes[k - 1][n \div 256], n % 256)
  <2>1. Bytes[k][n] = ByteMore(k, n)
    BY BytesSteps
  <2> QED BY <2>1 DEF ByteMore
<1>3. Bytes[k - 1][n \div 256] \in Seq(Byte)
  <2>1. k - 1 \in 0..8
    OBVIOUS
  <2>2. \A i \in Nat : Bytes[k - 1][i] \in Seq(Byte)
    BY <2>1, BytesTyped
  <2> QED BY <1>1, <2>2
<1>4. Big(Bytes[k][n]) = Big(Bytes[k - 1][n \div 256]) * 256 + (n % 256)
  BY <1>1, <1>2, <1>3, BigValue
<1> QED BY <1>1, <1>4

\* Two bytes carry the lengths up to 65535, eight all others.
LEMMA BytesReread ==
  ASSUME NEW n \in Nat
  PROVE  /\ n < 65536 => Big(Bytes[2][n]) = n
         /\ ((n \div 65536) \div 65536) \div 65536 < 65536 => Big(Bytes[8][n]) = n
<1>1. \A i \in Nat : i < 1 => Big(Bytes[0][i]) = i
  BY BytesSteps, BigValue
<1>2. \A i \in Nat : i < 256 => Big(Bytes[1][i]) = i
  <2>1. \A i \in Nat : i < 256 => i \div 256 \in Nat /\ i \div 256 < 1
    OBVIOUS
  <2> QED BY <1>1, <2>1, OneByteMore
<1>3. \A i \in Nat : i < 65536 => Big(Bytes[2][i]) = i
  <2>1. \A i \in Nat : i < 65536 => i \div 256 \in Nat /\ i \div 256 < 256
    OBVIOUS
  <2> QED BY <1>2, <2>1, OneByteMore
<1>4. \A i \in Nat : i < 16777216 => Big(Bytes[3][i]) = i
  <2>1. \A i \in Nat : i < 16777216 => i \div 256 \in Nat /\ i \div 256 < 65536
    OBVIOUS
  <2> QED BY <1>3, <2>1, OneByteMore
<1>5. \A i \in Nat : i < 4294967296 => Big(Bytes[4][i]) = i
  <2>1. \A i \in Nat : i < 4294967296 => i \div 256 \in Nat /\ i \div 256 < 16777216
    OBVIOUS
  <2> QED BY <1>4, <2>1, OneByteMore
<1>6. \A i \in Nat : i < 1099511627776 => Big(Bytes[5][i]) = i
  <2>1. \A i \in Nat : i < 1099511627776 => i \div 256 \in Nat /\ i \div 256 < 4294967296
    OBVIOUS
  <2> QED BY <1>5, <2>1, OneByteMore
<1>7. \A i \in Nat : i < 281474976710656 => Big(Bytes[6][i]) = i
  <2>1. \A i \in Nat : i < 281474976710656 => i \div 256 \in Nat /\ i \div 256 < 1099511627776
    OBVIOUS
  <2> QED BY <1>6, <2>1, OneByteMore
<1>8. \A i \in Nat : i < 72057594037927936 => Big(Bytes[7][i]) = i
  <2>1. \A i \in Nat : i < 72057594037927936 =>
          i \div 256 \in Nat /\ i \div 256 < 281474976710656
    OBVIOUS
  <2> QED BY <1>7, <2>1, OneByteMore
<1>9. \A i \in Nat : i < 18446744073709551616 => Big(Bytes[8][i]) = i
  <2>1. \A i \in Nat : i < 18446744073709551616 =>
          i \div 256 \in Nat /\ i \div 256 < 72057594037927936
    OBVIOUS
  <2> QED BY <1>8, <2>1, OneByteMore
<1>10. ((n \div 65536) \div 65536) \div 65536 < 65536 => n < 18446744073709551616
  OBVIOUS
<1> QED BY <1>3, <1>9, <1>10

-----------------------------------------------------------------------------
(***************************************************************************)
(* Frame headers                                                           *)
(***************************************************************************)

\* The frames that are written.
Frame == [fin : BOOLEAN, opcode : 0..15, mask : BOOLEAN, len : Nat]

\* The parts of a header: two bytes, the length, the key.
Assembled(a, b, ext, key) == <<a, b>> \o ext \o key

\* d is two bytes, the extended length, and a key behind it.
HasParts(d, a, b, ext, key) ==
  /\ d \in Seq(Byte) /\ Len(d) = 2 + Len(ext) + Len(key)
  /\ d[1] = a /\ d[2] = b
  /\ SubSeq(d, 3, 2 + Len(ext)) = ext

\* A header put together from its parts has those parts.
LEMMA AssembledParts ==
  ASSUME NEW a \in Byte, NEW b \in Byte, NEW ext \in Seq(Byte), NEW key \in Seq(Byte)
  PROVE  HasParts(Assembled(a, b, ext, key), a, b, ext, key)
<1> DEFINE ab == <<a, b>>  front == Joined(ab, ext)  d == Joined(front, key)
<1>0. d = Assembled(a, b, ext, key)
  BY DEF Assembled, Joined
<1>1. ab \in Seq(Byte) /\ Len(ab) = 2 /\ ab[1] = a /\ ab[2] = b
  OBVIOUS
<1> HIDE DEF ab
<1>2. /\ front \in Seq(Byte) /\ Len(front) = Len(ab) + Len(ext)
      /\ Len(ext) \in Nat
      /\ \A i \in 1..Len(ab) : front[i] = ab[i]
      /\ \A i \in 1..Len(ext) : front[Len(ab) + i] = ext[i]
  <2>1. IsJoin(Byte, ab, ext, Joined(ab, ext))
    BY <1>1, JoinedAt
  <2> QED BY <2>1 DEF IsJoin
<1> HIDE DEF front
<1>3. /\ Len(front) = 2 + Len(ext) /\ front[1] = a /\ front[2] = b
      /\ \A i \in 1..Len(ext) : front[2 + i] = ext[i]
  BY <1>1, <1>2
<1>4. /\ d \in Seq(Byte) /\ Len(d) = Len(front) + Len(key) /\ Len(key) \in Nat
      /\ \A i \in 1..Len(front) : d[i] = front[i]
  <2>1. IsJoin(Byte, front, key, Joined(front, key))
    BY <1>2, JoinedAt
  <2> QED BY <2>1 DEF IsJoin
<1> HIDE DEF d
<1>5. /\ Len(d) = 2 + Len(ext) + Len(key) /\ d[1] = a /\ d[2] = b
      /\ \A i \in 1..Len(ext) : d[2 + i] = ext[i]
  <2>1. \A i \in 1..Len(ext) : 2 + i \in 1..Len(front)
    BY <1>2, <1>3
  <2>2. 1 \in 1..Len(front) /\ 2 \in 1..Len(front)
    BY <1>2, <1>3
  <2> QED BY <1>3, <1>4, <2>1, <2>2
<1>6. SubSeq(d, 3, 2 + Len(ext)) = ext
  <2> DEFINE s == SubSeq(d, 3, 2 + Len(ext))  n == 2 + Len(ext)
  <2>1. 3 \in 1..Len(d) + 1 /\ n \in 3 - 1..Len(d) /\ n - 3 + 1 = Len(ext)
    BY <1>2, <1>4, <1>5
  <2>2. /\ s \in Seq(Byte) /\ Len(s) = n - 3 + 1
        /\ \A i \in 1..n - 3 + 1 : s[i] = d[3 - 1 + i]
    BY <1>4, <2>1, CutAt
  <2> HIDE DEF s, n
  <2>3. Len(s) = Len(ext) /\ \A i \in 1..Len(s) : s[i] = ext[i]
    BY <1>5, <2>1, <2>2
  <2>4. s = ext
    BY <2>2, <2>3, SeqEqual
  <2> QED BY <2>4 DEF s
<1>7. HasParts(d, a, b, ext, key)
  BY <1>4, <1>5, <1>6 DEF HasParts
<1> QED BY <1>0, <1>7

\* The parts of a header as cwh_ws_encode_frame writes them.
Low(f) == Bit(f.fin) + f.opcode
High(f) == Bit(f.mask) + LengthBits(f.len)
Ext(f) == IF Short(f.len) THEN <<>> ELSE Bytes[Extension(LengthBits(f.len))][f.len]
Key(f) == IF f.mask THEN MaskingKey ELSE <<>>
HeaderOf(f) == Assembled(Low(f), High(f), Ext(f), Key(f))

\* The fields of a frame.
LEMMA FrameFields ==
  ASSUME NEW f \in Frame
  PROVE  /\ f.fin \in BOOLEAN /\ f.opcode \in 0..15 /\ f.mask \in BOOLEAN /\ f.len \in Nat
  BY DEF Frame

\* What each byte says of the frame.
LEMMA ByteMeanings ==
  ASSUME NEW f \in Frame
  PROVE  /\ Low(f) \in Byte /\ (Low(f) >= 128 <=> f.fin) /\ Low(f) % 16 = f.opcode
         /\ High(f) \in Byte /\ (High(f) >= 128 <=> f.mask)
         /\ High(f) % 128 = LengthBits(f.len)
<1>1. f.opcode \in 0..15 /\ f.len \in Nat
  BY FrameFields
<1>2. LengthBits(f.len) \in 0..127
  BY <1>1 DEF LengthBits, Short
<1>3. (Bit(f.fin) = 128 /\ f.fin) \/ (Bit(f.fin) = 0 /\ ~f.fin)
  BY FrameFields DEF Bit
<1>4. (Bit(f.mask) = 128 /\ f.mask) \/ (Bit(f.mask) = 0 /\ ~f.mask)
  BY FrameFields DEF Bit
<1>5. \A n \in 0..127 : n % 128 = n /\ (128 + n) % 128 = n /\ (0 + n) % 128 = n
  OBVIOUS
<1>6. \A n \in 0..15 : n % 16 = n /\ (128 + n) % 16 = n /\ (0 + n) % 16 = n
  OBVIOUS
<1>7. \/ Low(f) = 128 + f.opcode /\ f.fin
      \/ Low(f) = 0 + f.opcode /\ ~f.fin
  BY <1>3, Zenon DEF Low
<1>8. \/ High(f) = 128 + LengthBits(f.len) /\ f.mask
      \/ High(f) = 0 + LengthBits(f.len) /\ ~f.mask
  BY <1>4, Zenon DEF High
<1>9. \A n \in 0..127 : /\ 128 + n \in Byte /\ 128 + n >= 128
                        /\ 0 + n \in Byte /\ ~(0 + n >= 128)
  BY DEF Byte
<1>10. /\ Low(f) \in Byte /\ (Low(f) >= 128 <=> f.fin) /\ Low(f) % 16 = f.opcode
  <2>1. f.opcode \in 0..127
    BY <1>1
  <2>2. CASE Low(f) = 128 + f.opcode /\ f.fin
    <3>1. Low(f) \in Byte /\ Low(f) >= 128 /\ Low(f) % 16 = f.opcode
      BY <1>1, <1>6, <1>9, <2>1, <2>2
    <3> QED BY <2>2, <3>1, Zenon
  <2>3. CASE Low(f) = 0 + f.opcode /\ ~f.fin
    <3>1. Low(f) \in Byte /\ ~(Low(f) >= 128) /\ Low(f) % 16 = f.opcode
      BY <1>1, <1>6, <1>9, <2>1, <2>3
    <3> QED BY <2>3, <3>1, Zenon
  <2> QED BY <1>7, <2>2, <2>3
<1>11. /\ High(f) \in Byte /\ (High(f) >= 128 <=> f.mask)
      /\ High(f) % 128 = LengthBits(f.len)
  <2>1. CASE High(f) = 128 + LengthBits(f.len) /\ f.mask
    <3>1. High(f) \in Byte /\ High(f) >= 128 /\ High(f) % 128 = LengthBits(f.len)
      BY <1>2, <1>5, <1>9, <2>1
    <3> QED BY <2>1, <3>1, Zenon
  <2>2. CASE High(f) = 0 + LengthBits(f.len) /\ ~f.mask
    <3>1. High(f) \in Byte /\ ~(High(f) >= 128) /\ High(f) % 128 = LengthBits(f.len)
      BY <1>2, <1>5, <1>9, <2>2
    <3> QED BY <2>2, <3>1, Zenon
  <2> QED BY <1>8, <2>1, <2>2
<1> QED BY <1>10, <1>11

\* The bytes that lengths take behind the second byte.
Extended(len) == IF len < 126 THEN 0 ELSE IF len < 65536 THEN 2 ELSE 8

\* The extended length has the bytes that the second byte says, and is read as
\* the length that was written.
LEMMA ExtMeaning ==
  ASSUME NEW f \in Frame, InMemory(f.len)
  PROVE  /\ Ext(f) \in Seq(Byte) /\ Len(Ext(f)) = Extension(LengthBits(f.len))
         /\ Len(Ext(f)) = Extended(f.len)
         /\ f.len = IF Len(Ext(f)) = 0 THEN LengthBits(f.len) ELSE Big(Ext(f))
<1>1. f.len \in Nat
  BY FrameFields
<1>2. CASE f.len < 126
  <2>1. Ext(f) = <<>> /\ LengthBits(f.len) = f.len /\ Extension(LengthBits(f.len)) = 0
    BY <1>1, <1>2 DEF Ext, Short, LengthBits, Extension
  <2>2. <<>> \in Seq(Byte) /\ Len(<<>>) = 0
    OBVIOUS
  <2> QED BY <1>2, <2>1, <2>2 DEF Extended
<1>3. CASE f.len >= 126 /\ f.len < 65536
  <2>1. LengthBits(f.len) = 126 /\ ~Short(f.len)
    BY <1>1, <1>3 DEF Short, LengthBits
  <2>2. Extension(126) = 2
    BY DEF Extension
  <2>3. Ext(f) = Bytes[2][f.len]
    BY <2>1, <2>2 DEF Ext
  <2>4. Bytes[2][f.len] \in Seq(Byte) /\ Len(Bytes[2][f.len]) = 2
    BY <1>1, BytesTyped
  <2>5. Big(Bytes[2][f.len]) = f.len
    BY <1>1, <1>3, BytesReread
  <2> QED BY <1>1, <1>3, <2>1, <2>2, <2>3, <2>4, <2>5 DEF Extended
<1>4. CASE f.len >= 65536
  <2>1. LengthBits(f.len) = 127 /\ ~Short(f.len)
    BY <1>1, <1>4 DEF Short, LengthBits
  <2>2. Extension(127) = 8
    BY DEF Extension
  <2>3. Ext(f) = Bytes[8][f.len]
    BY <2>1, <2>2 DEF Ext
  <2>4. Bytes[8][f.len] \in Seq(Byte) /\ Len(Bytes[8][f.len]) = 8
    BY <1>1, BytesTyped
  <2>5. Big(Bytes[8][f.len]) = f.len
    <3>1. ((f.len \div 65536) \div 65536) \div 65536 < 65536
      BY <1>1 DEF InMemory
    <3> QED BY <1>1, <3>1, BytesReread
  <2> QED BY <1>1, <1>4, <2>1, <2>2, <2>3, <2>4, <2>5 DEF Extended
<1> QED BY <1>1, <1>2, <1>3, <1>4

\* What cwh_ws_encode_frame writes, cwh_ws_parse_frame_header reads back, and
\* nothing shorter.
LEMMA FrameReread ==
  ASSUME NEW f \in Frame, InMemory(f.len), NEW room \in Nat
  PROVE  LET data == cwh_ws_encode_frame(room, f)
         IN  /\ data = TooSmall <=>
                  room < f.len + (IF f.mask THEN 6 ELSE 2)
                           + Extended(f.len)
             /\ data # TooSmall =>
                  /\ \A n \in 0..Len(data) - 1 :
                       cwh_ws_parse_frame_header(SubSeq(data, 1, n)) = Incomplete
                  /\ cwh_ws_parse_frame_header(data)
                       = [length |-> Len(data), fin |-> f.fin, opcode |-> f.opcode,
                          mask |-> f.mask, len |-> f.len]
<1> DEFINE data == cwh_ws_encode_frame(room, f)  d == HeaderOf(f)
           e == Extended(f.len)
           m == IF f.mask THEN 4 ELSE 0
<1>1. f.len \in Nat /\ f.mask \in BOOLEAN
  BY FrameFields
<1>2. Key(f) \in Seq(Byte) /\ Len(Key(f)) = m
  <2>1. <<>> \in Seq(Byte) /\ Len(<<>>) = 0
    OBVIOUS
  <2>2. MaskingKey \in Seq(Byte) /\ Len(MaskingKey) = 4
    <3>1. 1 \in Byte /\ 2 \in Byte /\ 3 \in Byte /\ 4 \in Byte
      BY DEF Byte
    <3> QED BY <3>1 DEF MaskingKey
  <2> HIDE DEF m
  <2>3. CASE f.mask
    <3>1. Key(f) = MaskingKey /\ m = 4
      BY <2>3 DEF Key, m
    <3> QED BY <2>2, <3>1, Zenon
  <2>4. CASE ~f.mask
    <3>1. Key(f) = <<>> /\ m = 0
      BY <2>4 DEF Key, m
    <3> QED BY <2>1, <3>1, Zenon
  <2> QED BY <2>3, <2>4
<1>3. /\ d \in Seq(Byte) /\ Len(d) = 2 + Len(Ext(f)) + Len(Key(f))
      /\ d[1] = Low(f) /\ d[2] = High(f) /\ SubSeq(d, 3, 2 + Len(Ext(f))) = Ext(f)
  <2>1. Low(f) \in Byte /\ High(f) \in Byte
    BY ByteMeanings
  <2>2. Ext(f) \in Seq(Byte)
    BY ExtMeaning
  <2>3. d = Assembled(Low(f), High(f), Ext(f), Key(f))
    BY DEF HeaderOf
  <2> HIDE DEF d
  <2>4. Key(f) \in Seq(Byte)
    BY <1>2
  <2>5. HasParts(d, Low(f), High(f), Ext(f), Key(f))
    BY <2>1, <2>2, <2>3, <2>4, AssembledParts
  <2> QED BY <2>5 DEF HasParts
<1>4. data = IF room < Len(d) + f.len THEN TooSmall ELSE d
  BY DEF cwh_ws_encode_frame, HeaderOf, Assembled, Low, High, Ext, Key
<1>4a. Len(Ext(f)) = e /\ Len(Ext(f)) = Extension(LengthBits(f.len))
      /\ f.len = IF Len(Ext(f)) = 0 THEN LengthBits(f.len) ELSE Big(Ext(f))
  BY ExtMeaning
<1>5. e \in Nat /\ m \in Nat /\ Len(d) = 2 + e + m
  <2> HIDE DEF d
  <2>1. e \in Nat /\ m \in Nat
    BY DEF Extended
  <2> HIDE DEF e, m
  <2> QED BY <1>2, <1>3, <1>4a, <2>1
<1>6. d # TooSmall
  <2>1. Len(TooSmall) = 0
    BY DEF TooSmall
  <2> HIDE DEF d
  <2> QED BY <1>5, <2>1
<1>7. data = TooSmall <=> room < f.len + (IF f.mask THEN 6 ELSE 2) + e
  <2> HIDE DEF d, e, data
  <2> QED BY <1>1, <1>4, <1>5, <1>6
<1> HIDE DEF d
<1>8. cwh_ws_parse_frame_header(d)
        = [length |-> Len(d), fin |-> f.fin, opcode |-> f.opcode, mask |-> f.mask, len |-> f.len]
  <2>1. /\ Extension(d[2] % 128) = e /\ (d[2] >= 128 <=> f.mask)
        /\ d[2] % 128 = LengthBits(f.len) /\ (d[1] >= 128 <=> f.fin) /\ d[1] % 16 = f.opcode
    <3> HIDE DEF e
    <3>1. /\ (Low(f) >= 128 <=> f.fin) /\ Low(f) % 16 = f.opcode
          /\ (High(f) >= 128 <=> f.mask) /\ High(f) % 128 = LengthBits(f.len)
      BY ByteMeanings
    <3> QED BY <1>3, <1>4a, <3>1
  <2>2. (IF d[2] >= 128 THEN 4 ELSE 0) = m
    BY <2>1
  <2>3. ~(Len(d) < 2) /\ Len(d) = 2 + Extension(d[2] % 128) + (IF d[2] >= 128 THEN 4 ELSE 0)
    BY <1>5, <2>1, <2>2
  <2>4. (d[1] >= 128) = f.fin /\ (d[2] >= 128) = f.mask
    BY <2>1, FrameFields
  <2>5. (IF 2 + e = 2 THEN d[2] % 128 ELSE Big(SubSeq(d, 3, 2 + e))) = f.len
    <3> HIDE DEF e
    <3> DEFINE big == Big(SubSeq(d, 3, 2 + e))
    <3>1. big = Big(Ext(f))
      BY <1>3, <1>4a, Zenon
    <3> HIDE DEF big
    <3>2. (2 + e = 2) <=> (Len(Ext(f)) = 0)
      BY <1>5, <1>4a
    <3>3. (IF 2 + e = 2 THEN d[2] % 128 ELSE big) = f.len
      BY <1>4a, <2>1, <3>1, <3>2, Zenon
    <3> QED BY <3>3 DEF big
  <2> HIDE DEF e, m
  <2>6. 2 + Extension(d[2] % 128) = 2 + e
    BY <2>1
  <2> QED BY <1>5, <2>1, <2>3, <2>4, <2>5, <2>6 DEF cwh_ws_parse_frame_header
<1>9. ASSUME NEW n \in 0..Len(d) - 1
      PROVE  cwh_ws_parse_frame_header(SubSeq(d, 1, n)) = Incomplete
  <2> DEFINE s == SubSeq(d, 1, n)
             L(b) == 2 + Extension(b % 128) + (IF b >= 128 THEN 4 ELSE 0)
  <2>1. Len(d) \in Nat /\ n \in Nat /\ n < Len(d)
    BY <1>5
  <2>2. Len(s) = n /\ (n >= 2 => s[2] = d[2])
    BY <1>3, <2>1
  <2> HIDE DEF s
  <2>3. Len(d) = L(d[2])
    <3>1. (High(f) >= 128 <=> f.mask) /\ High(f) % 128 = LengthBits(f.len)
      BY ByteMeanings
    <3>2. L(d[2]) = 2 + e + (IF d[2] >= 128 THEN 4 ELSE 0)
      BY <1>3, <1>4a, <3>1
    <3>3. (IF d[2] >= 128 THEN 4 ELSE 0) = m
      BY <1>3, <3>1
    <3> HIDE DEF L
    <3> QED BY <1>5, <3>2, <3>3
  <2>4. (Len(s) < 2 \/ Len(s) < L(s[2])) => cwh_ws_parse_frame_header(s) = Incomplete
    BY DEF cwh_ws_parse_frame_header
  <2> HIDE DEF L
  <2>5. Len(s) < 2 \/ Len(s) < L(s[2])
    BY <2>1, <2>2, <2>3
  <2> QED BY <2>4, <2>5 DEF s
<1>10. data # TooSmall => data = d
  BY <1>4
<1> HIDE DEF data
<1>11. data # TooSmall =>
          /\ \A n \in 0..Len(data) - 1 :
               cwh_ws_parse_frame_header(SubSeq(data, 1, n)) = Incomplete
          /\ cwh_ws_parse_frame_header(data)
               = [length |-> Len(data), fin |-> f.fin, opcode |-> f.opcode,
                  mask |-> f.mask, len |-> f.len]
  BY <1>8, <1>9, <1>10
<1> QED BY <1>7, <1>11 DEF data

\* cwh_ws_parse_frame_header reads back every header that cwh_ws_encode_frame
\* writes, for every payload that fits in memory: the same fields, the same number
\* of bytes, and nothing from a header that has not arrived whole.
THEOREM FramesReread == Spec => []HeaderReread
<1>1. TInv => HeaderReread
  <2> SUFFICES ASSUME TInv, Is("frame"), text # <<>>
               PROVE  LET f == text[1]
                          data == cwh_ws_encode_frame(subject.room, f)
                      IN  /\ data = TooSmall <=>
                               subject.room < f.len + (IF f.mask THEN 6 ELSE 2)
                                 + (IF f.len < 126 THEN 0 ELSE IF f.len < 65536 THEN 2 ELSE 8)
                          /\ data # TooSmall =>
                               /\ \A n \in 0..Len(data) - 1 :
                                    cwh_ws_parse_frame_header(SubSeq(data, 1, n)) = Incomplete
                               /\ cwh_ws_parse_frame_header(data)
                                    = [length |-> Len(data), fin |-> f.fin, opcode |-> f.opcode,
                                       mask |-> f.mask, len |-> f.len]
    BY DEF HeaderReread
  <2>1. subject \in Subjects /\ subject.kind = "frame"
    BY DEF TInv, Is
  <2>2. text \in Seq(Pieces["frame"])
    BY <2>1 DEF TInv
  <2>3. text[1] \in Pieces["frame"]
    BY <2>2
  <2>4. /\ subject.room \in Nat /\ Pieces["frame"] \subseteq Frame
        /\ \A f \in Pieces["frame"] : InMemory(f.len)
    BY <2>1, FrameAssumption DEF Frame
  <2>5. text[1] \in Frame /\ InMemory(text[1].len)
    BY <2>3, <2>4
  <2> QED BY <2>4, <2>5, FrameReread DEF Extended
<1> QED BY <1>1, TInvariance, PTL

-----------------------------------------------------------------------------
(***************************************************************************)
(* Cookies: what a jar keeps                                               *)
(***************************************************************************)

\* The position of the cookie that c takes the place of, 0 when there is none.
Old(jar, c) == SelectInSeq(jar, LAMBDA x : SameCookie(x, c))
Without(jar, c) == IF Old(jar, c) = 0 THEN jar ELSE RemoveAt(jar, Old(jar, c))

\* m is the first of the jar that c takes the place of, or 0.
IsOld(m, jar, c) == \/ m = 0 /\ \A k \in 1..Len(jar) : ~SameCookie(jar[k], c)
                    \/ /\ m \in 1..Len(jar) /\ SameCookie(jar[m], c)
                       /\ \A k \in 1..m - 1 : ~SameCookie(jar[k], c)

\* That is what Old is, and nothing else.
LEMMA OldIs ==
  ASSUME NEW X, NEW jar \in Seq(X), NEW c
  PROVE  /\ IsOld(Old(jar, c), jar, c)
         /\ \A m : IsOld(m, jar, c) => m = Old(jar, c)
<1> DEFINE I == {i \in 1..Len(jar) : SameCookie(jar[i], c)}
           o == Old(jar, c)
<1>0. Len(jar) \in Nat
  OBVIOUS
<1>1. o = IF I # {} THEN Min(I) ELSE 0
  BY DEF Old, SelectInSeq
<1>2. I # {} => o \in I /\ \A k \in I : o <= k
  <2>1. PICK j \in 1..Len(jar) + 1 : (j = Len(jar) + 1 \/ j \in I) /\ \A k \in 1..j - 1 : k \notin I
    <3> HIDE DEF I
    <3>1. 1 \in Nat /\ Len(jar) + 1 \in Nat /\ 1 <= Len(jar) + 1
      BY <1>0
    <3> QED BY <3>1, FirstExists
  <2>2. \A k \in I : k \in 1..Len(jar)
    OBVIOUS
  <2> HIDE DEF I, o
  <2>3. I # {} => j \in I /\ \A k \in I : j <= k
    BY <1>0, <2>1, <2>2
  <2>4. I # {} => Min(I) \in I /\ \A k \in I : Min(I) <= k
    BY <2>3 DEF Min
  <2> QED BY <1>1, <2>4
<1>3. I = {} => o = 0
  BY <1>1
<1> HIDE DEF o
<1>4. IsOld(o, jar, c)
  <2>1. CASE I = {}
    BY <1>3, <2>1 DEF IsOld
  <2>2. CASE I # {}
    <3>1. o \in 1..Len(jar) /\ SameCookie(jar[o], c)
      BY <1>2, <2>2
    <3>2. \A k \in 1..o - 1 : ~SameCookie(jar[k], c)
      <4>1. \A k \in 1..o - 1 : k \in 1..Len(jar) /\ ~(o <= k)
        BY <1>0, <3>1
      <4> QED BY <1>2, <2>2, <4>1
    <3> QED BY <3>1, <3>2 DEF IsOld
  <2> QED BY <2>1, <2>2
<1>5. ASSUME NEW m, IsOld(m, jar, c) PROVE m = o
  BY <1>0, <1>4, <1>5 DEF IsOld
<1> QED BY <1>4, <1>5 DEF o

\* Nothing can be taken from an empty jar.
LEMMA WithoutEmpty == \A c : Without(<<>>, c) = <<>>
<1> SUFFICES ASSUME NEW c PROVE Without(<<>>, c) = <<>>
  OBVIOUS
<1>1. Len(<<>>) = 0 /\ <<>> \in Seq({})
  OBVIOUS
<1>2. IsOld(0, <<>>, c)
  BY <1>1 DEF IsOld
<1>3. Old(<<>>, c) = 0
  BY <1>1, <1>2, OldIs
<1> QED BY <1>3 DEF Without

\* What is left when the first cookie is one of those that go, or is not.
LEMMA WithoutFirst ==
  ASSUME NEW X, NEW x \in X, NEW s \in Seq(X), NEW c
  PROVE  Without(Push(x, s), c) = IF SameCookie(x, c) THEN s ELSE Push(x, Without(s, c))
<1> DEFINE j == Push(x, s)
<1>1. /\ j \in Seq(X) /\ Len(j) = Len(s) + 1 /\ Len(s) \in Nat
      /\ j[1] = x /\ \A k \in 1..Len(s) : j[k + 1] = s[k]
  BY Prepended DEF Push
<1> HIDE DEF j
<1>2. CASE SameCookie(x, c)
  <2>1. IsOld(1, j, c)
    BY <1>1, <1>2 DEF IsOld
  <2>2. Old(j, c) = 1
    BY <1>1, <2>1, OldIs
  <2>3. Without(j, c) = RemoveAt(j, 1)
    BY <2>2 DEF Without
  <2>4. 1 \in 1..Len(j)
    BY <1>1
  <2> DEFINE r == RemoveAt(j, 1)
  <2>5. /\ r \in Seq(X) /\ Len(r) = Len(j) - 1
        /\ \A k \in 1..Len(j) - 1 : r[k] = IF k < 1 THEN j[k] ELSE j[k + 1]
    BY <1>1, <2>4, Removed
  <2> HIDE DEF r
  <2>6. Len(r) = Len(s) /\ \A k \in 1..Len(r) : r[k] = s[k]
    BY <1>1, <2>5
  <2>7. r = s
    BY <2>5, <2>6, SeqEqual
  <2> QED BY <1>2, <2>3, <2>7 DEF r, j
<1>3. CASE ~SameCookie(x, c)
  <2> DEFINE m == Old(s, c)
  <2>1. IsOld(m, s, c)
    BY OldIs
  <2> HIDE DEF m
  <2>2. CASE m = 0
    <3>1. \A k \in 1..Len(s) : ~SameCookie(s[k], c)
      BY <2>1, <2>2 DEF IsOld
    <3>2. \A k \in 1..Len(j) : ~SameCookie(j[k], c)
      <4> SUFFICES ASSUME NEW k \in 1..Len(j) PROVE ~SameCookie(j[k], c)
        OBVIOUS
      <4>1. CASE k = 1
        BY <1>1, <1>3, <4>1
      <4>2. CASE k # 1
        <5>1. k - 1 \in 1..Len(s) /\ (k - 1) + 1 = k
          BY <1>1, <4>2
        <5>2. j[(k - 1) + 1] = s[k - 1]
          BY <1>1, <5>1
        <5> QED BY <3>1, <5>1, <5>2
      <4> QED BY <4>1, <4>2
    <3>3. IsOld(0, j, c)
      BY <3>2 DEF IsOld
    <3>4. Old(j, c) = 0
      BY <1>1, <3>3, OldIs
    <3> QED BY <1>3, <2>2, <3>4 DEF Without, m, j
  <2>3. CASE m # 0
    <3>1. m \in 1..Len(s) /\ SameCookie(s[m], c) /\ \A k \in 1..m - 1 : ~SameCookie(s[k], c)
      BY <2>1, <2>3 DEF IsOld
    <3>2. m + 1 \in 1..Len(j) /\ SameCookie(j[m + 1], c)
      BY <1>1, <3>1
    <3>3. \A k \in 1..m : ~SameCookie(j[k], c)
      <4> SUFFICES ASSUME NEW k \in 1..m PROVE ~SameCookie(j[k], c)
        OBVIOUS
      <4>1. CASE k = 1
        BY <1>1, <1>3, <4>1
      <4>2. CASE k # 1
        <5>1. k - 1 \in 1..Len(s) /\ (k - 1) + 1 = k /\ k - 1 \in 1..m - 1
          BY <1>1, <3>1, <4>2
        <5>2. j[(k - 1) + 1] = s[k - 1]
          BY <1>1, <5>1
        <5> QED BY <3>1, <5>1, <5>2
      <4> QED BY <4>1, <4>2
    <3>4. IsOld(m + 1, j, c)
      <4> DEFINE n == m + 1
      <4>0. n - 1 = m
        BY <3>1
      <4>1. n \in 1..Len(j) /\ SameCookie(j[n], c)
        BY <3>2
      <4> HIDE DEF n
      <4>2. IsOld(n, j, c)
        BY <3>3, <4>0, <4>1 DEF IsOld
      <4> QED BY <4>2 DEF n
    <3>5. Old(j, c) = m + 1
      BY <1>1, <3>4, OldIs
    <3>6. m + 1 # 0
      BY <3>1
    <3>7. Without(j, c) = RemoveAt(j, m + 1) /\ Without(s, c) = RemoveAt(s, m)
      BY <2>3, <3>5, <3>6 DEF Without, m
    <3> DEFINE r == RemoveAt(j, m + 1)  q == RemoveAt(s, m)  xq == Push(x, q)
    <3>8. /\ r \in Seq(X) /\ Len(r) = Len(j) - 1
          /\ \A k \in 1..Len(j) - 1 : r[k] = IF k < m + 1 THEN j[k] ELSE j[k + 1]
      BY <1>1, <3>2, Removed
    <3>9. /\ q \in Seq(X) /\ Len(q) = Len(s) - 1
          /\ \A k \in 1..Len(s) - 1 : q[k] = IF k < m THEN s[k] ELSE s[k + 1]
      BY <3>1, Removed
    <3> HIDE DEF r, q
    <3>10. /\ xq \in Seq(X) /\ Len(xq) = Len(q) + 1
           /\ xq[1] = x /\ \A k \in 1..Len(q) : xq[k + 1] = q[k]
      BY <3>9, Prepended DEF Push
    <3> HIDE DEF xq
    <3>11. ASSUME NEW k \in 1..Len(r) PROVE r[k] = xq[k]
      <4>1. Len(r) = Len(s) /\ m \in Nat
        BY <1>1, <3>1, <3>8
      <4>2. CASE k = 1
        BY <1>1, <3>1, <3>8, <3>10, <4>1, <4>2
      <4>3. CASE k # 1
        <5> DEFINE i == k - 1
        <5>1. i \in 1..Len(s) - 1 /\ k = i + 1
          BY <1>1, <4>1, <4>3
        <5> HIDE DEF i
        <5>2. xq[i + 1] = IF i < m THEN s[i] ELSE s[i + 1]
          BY <3>9, <3>10, <5>1
        <5>3. r[i + 1] = IF i + 1 < m + 1 THEN j[i + 1] ELSE j[i + 2]
          <6>1. i + 1 \in 1..Len(j) - 1 /\ i + 1 + 1 = i + 2
            BY <1>1, <5>1
          <6> QED BY <3>8, <6>1
        <5>4. j[i + 1] = s[i] /\ j[i + 2] = s[i + 1]
          <6>1. i \in 1..Len(s) /\ i + 1 \in 1..Len(s) /\ (i + 1) + 1 = i + 2
            BY <1>1, <5>1
          <6>2. j[(i + 1) + 1] = s[i + 1]
            BY <1>1, <6>1
          <6> QED BY <1>1, <6>1, <6>2
        <5>5. i + 1 < m + 1 <=> i < m
          BY <4>1, <5>1
        <5> QED BY <5>1, <5>2, <5>3, <5>4, <5>5
      <4> QED BY <4>2, <4>3
    <3>12. Len(r) = Len(xq)
      BY <1>1, <3>8, <3>9, <3>10
    <3>13. r = xq
      BY <3>8, <3>10, <3>11, <3>12, SeqEqual
    <3> QED BY <1>3, <3>7, <3>13 DEF r, q, xq, j
  <2> QED BY <2>2, <2>3
<1> QED BY <1>2, <1>3

\* The i-th of a sequence of cookies is replaced by a later one.
Replaced(cs, i) == \E j \in i + 1..Len(cs) : SameCookie(cs[i], cs[j])

\* What a jar keeps of the first i cookies: those not replaced, newest first.
IsKept(v, cs) == v = [i \in 0..Len(cs) |-> IF i = 0 THEN <<>>
                                           ELSE IF Replaced(cs, i) THEN v[i - 1]
                                           ELSE Push(cs[i], v[i - 1])]

\* What is kept, cookie by cookie.
LEMMA KeptSteps ==
  ASSUME NEW X, NEW cs \in Seq(X), NEW v, IsKept(v, cs)
  PROVE  /\ v[0] = <<>> /\ \A i \in 0..Len(cs) : v[i] \in Seq(X)
         /\ \A i \in 1..Len(cs) : v[i] = IF Replaced(cs, i) THEN v[i - 1] ELSE Push(cs[i], v[i - 1])
<1>0. Len(cs) \in Nat /\ \A i \in 1..Len(cs) : cs[i] \in X
  OBVIOUS
<1>1. v[0] = <<>>
  BY <1>0 DEF IsKept
<1>2. \A i \in 1..Len(cs) : v[i] = IF Replaced(cs, i) THEN v[i - 1] ELSE Push(cs[i], v[i - 1])
  BY <1>0 DEF IsKept
<1> DEFINE B == {i \in Nat : i <= Len(cs) => v[i] \in Seq(X)}
<1>3. 0 \in B
  <2>1. <<>> \in Seq(X)
    OBVIOUS
  <2> QED BY <1>1, <2>1
<1>4. ASSUME NEW i \in Nat, i \in B PROVE i + 1 \in B
  <2> SUFFICES ASSUME i + 1 <= Len(cs) PROVE v[i + 1] \in Seq(X)
    OBVIOUS
  <2>1. v[i] \in Seq(X) /\ i + 1 \in 1..Len(cs) /\ (i + 1) - 1 = i
    BY <1>0, <1>4
  <2>2. v[i + 1] = IF Replaced(cs, i + 1) THEN v[(i + 1) - 1] ELSE Push(cs[i + 1], v[(i + 1) - 1])
    BY <1>2, <2>1
  <2> DEFINE s == v[i]  x == cs[i + 1]
  <2>3. x \in X /\ s \in Seq(X)
    BY <1>0, <2>1
  <2> HIDE DEF s, x
  <2>4. Push(x, s) \in Seq(X)
    BY <2>3, Prepended DEF Push
  <2>5. v[i + 1] = s \/ v[i + 1] = Push(x, s)
    BY <2>1, <2>2 DEF s, x
  <2> QED BY <2>3, <2>4, <2>5
<1>5. \A i \in Nat : i \in B
  <2> HIDE DEF B
  <2> QED BY <1>3, <1>4, Induction
<1> QED BY <1>0, <1>1, <1>2, <1>5

\* There are such values.
LEMMA KeptExists ==
  ASSUME NEW X, NEW cs \in Seq(X)
  PROVE  \E v : IsKept(v, cs)
<1> DEFINE W == 1..Len(cs)
           h == [x \in Seq(X) \X W |-> IF Replaced(cs, x[2]) THEN x[1] ELSE Push(cs[x[2]], x[1])]
           seq == [i \in 1..Len(cs) |-> i]
<1>0. Len(cs) \in Nat /\ \A i \in 1..Len(cs) : cs[i] \in X
  OBVIOUS
<1>1. \A s \in Seq(X), i \in W : Push(cs[i], s) \in Seq(X)
  BY <1>0, Prepended DEF Push
<1>2. h \in [Seq(X) \X W -> Seq(X)]
  <2>1. \A x \in Seq(X) \X W : x[1] \in Seq(X) /\ x[2] \in W
    OBVIOUS
  <2>2. \A x \in Seq(X) \X W : Push(cs[x[2]], x[1]) \in Seq(X)
    BY <1>1, <2>1
  <2> QED BY <2>1, <2>2
<1>3. <<>> \in Seq(X) /\ seq \in Seq(W) /\ Len(seq) = Len(cs)
  OBVIOUS
<1>4. \A s \in Seq(X), i \in W :
        h[<<s, i>>] = IF Replaced(cs, i) THEN s ELSE Push(cs[i], s)
  OBVIOUS
<1>5. \A i \in 1..Len(cs) : seq[i] = i
  OBVIOUS
<1> HIDE DEF h, seq
<1>6. Foldable(Seq(X), W, h, <<>>, seq)
  BY <1>2, <1>3 DEF Foldable
<1>7. PICK v : IsRun(v, h, <<>>, seq)
  BY <1>6, RunExists
<1>8. v[0] = <<>> /\ \A i \in 1..Len(cs) : v[i] = h[<<v[i - 1], seq[i]>>]
  <2>1. \A k \in 0..Len(seq) : v[k] = IF k = 0 THEN <<>> ELSE h[<<v[k - 1], seq[k]>>]
    BY <1>7 DEF IsRun
  <2>2. \A i \in 1..Len(cs) : i \in 0..Len(seq) /\ i # 0
    BY <1>0, <1>3
  <2>3. 0 \in 0..Len(seq)
    BY <1>0, <1>3
  <2> QED BY <2>1, <2>2, <2>3
<1>9. \A i \in 0..Len(cs) : v[i] \in Seq(X)
  <2>1. Follows(v, Seq(X), h, <<>>, seq, Len(cs)) /\ Len(cs) \in 0..Len(seq)
    BY <1>0, <1>3, <1>8 DEF Follows
  <2> QED BY <1>6, <1>7, <2>1, RunIs
<1>10. \A i \in 1..Len(cs) :
         v[i] = IF Replaced(cs, i) THEN v[i - 1] ELSE Push(cs[i], v[i - 1])
  <2> SUFFICES ASSUME NEW i \in 1..Len(cs)
               PROVE  v[i] = IF Replaced(cs, i) THEN v[i - 1] ELSE Push(cs[i], v[i - 1])
    OBVIOUS
  <2>1. v[i] = h[<<v[i - 1], i>>]
    BY <1>5, <1>8
  <2>2. v[i - 1] \in Seq(X)
    <3>1. i - 1 \in 0..Len(cs)
      BY <1>0
    <3> QED BY <1>9, <3>1
  <2> QED BY <1>4, <2>1, <2>2
<1>11. v = [i \in 0..Len(cs) |-> v[i]]
  BY <1>3, <1>7 DEF IsRun
<1>12. IsKept(v, cs)
  <2>1. \A i \in 0..Len(cs) : v[i] = IF i = 0 THEN <<>> ELSE IF Replaced(cs, i) THEN v[i - 1]
                                     ELSE Push(cs[i], v[i - 1])
    <3> SUFFICES ASSUME NEW i \in 0..Len(cs)
                 PROVE  v[i] = IF i = 0 THEN <<>> ELSE IF Replaced(cs, i) THEN v[i - 1]
                               ELSE Push(cs[i], v[i - 1])
      OBVIOUS
    <3>1. i = 0 \/ i \in 1..Len(cs)
      BY <1>0
    <3> QED BY <1>8, <1>10, <3>1
  <2> QED BY <1>11, <2>1 DEF IsKept
<1> QED BY <1>12

\* What a jar keeps when it is given one cookie more.
LEMMA KeptAppend ==
  ASSUME NEW X, NEW cs \in Seq(X), NEW c \in X, NEW v, IsKept(v, cs),
         NEW w, IsKept(w, Append(cs, c))
  PROVE  w[Len(cs) + 1] = Push(c, Without(v[Len(cs)], c))
<1> DEFINE more == Append(cs, c)  n == Len(cs)
<1>1. /\ more \in Seq(X) /\ Len(more) = n + 1 /\ n \in Nat /\ more[n + 1] = c
      /\ \A i \in 1..n : more[i] = cs[i] /\ cs[i] \in X
  OBVIOUS
<1>2. IsKept(w, more)
  OBVIOUS
<1> HIDE DEF more
<1>3. /\ v[0] = <<>> /\ \A i \in 0..n : v[i] \in Seq(X)
      /\ \A i \in 1..n : v[i] = IF Replaced(cs, i) THEN v[i - 1] ELSE Push(cs[i], v[i - 1])
  BY KeptSteps
<1>4. /\ w[0] = <<>>
      /\ \A i \in 1..n + 1 :
           w[i] = IF Replaced(more, i) THEN w[i - 1] ELSE Push(more[i], w[i - 1])
  <2>1. /\ w[0] = <<>>
        /\ \A i \in 1..Len(more) :
             w[i] = IF Replaced(more, i) THEN w[i - 1] ELSE Push(more[i], w[i - 1])
    <3>1. more \in Seq(X)
      BY <1>1
    <3> QED BY <1>2, <3>1, KeptSteps
  <2> QED BY <1>1, <2>1
<1>5. \A i \in 1..n : Replaced(more, i) <=> Replaced(cs, i) \/ SameCookie(cs[i], c)
  <2> SUFFICES ASSUME NEW i \in 1..n
               PROVE  Replaced(more, i) <=> Replaced(cs, i) \/ SameCookie(cs[i], c)
    OBVIOUS
  <2>1. Replaced(more, i) <=> \E j \in i + 1..n + 1 : SameCookie(cs[i], more[j])
    BY <1>1 DEF Replaced
  <2>2. \A j : j \in i + 1..n + 1 <=> j \in i + 1..n \/ j = n + 1
    BY <1>1
  <2>3. \A j \in i + 1..n : more[j] = cs[j]
    BY <1>1
  <2> QED BY <1>1, <2>1, <2>2, <2>3 DEF Replaced, n
<1>6. ~Replaced(more, n + 1)
  BY <1>1 DEF Replaced
<1> HIDE DEF n
<1> DEFINE Untouched(i) == \A j \in 1..i : ~Replaced(cs, j) => ~SameCookie(cs[j], c)
           B == {i \in Nat : i <= n => w[i] = Without(v[i], c) /\ (Untouched(i) => w[i] = v[i])}
<1>7. 0 \in B
  BY <1>3, <1>4, WithoutEmpty
<1>8. ASSUME NEW i \in Nat, i \in B PROVE i + 1 \in B
  <2> SUFFICES ASSUME i + 1 <= n
               PROVE  /\ w[i + 1] = Without(v[i + 1], c)
                      /\ Untouched(i + 1) => w[i + 1] = v[i + 1]
    <3> HIDE DEF Untouched
    <3> QED OBVIOUS
  <2> DEFINE k == i + 1
  <2>1. k \in 1..n /\ k \in 1..n + 1 /\ k - 1 = i /\ i \in 0..n
    BY <1>1
  <2> HIDE DEF k
  <2>2. w[i] = Without(v[i], c) /\ (Untouched(i) => w[i] = v[i])
    <3> HIDE DEF Untouched
    <3> QED BY <1>8, <2>1
  <2>3. v[k] = IF Replaced(cs, k) THEN v[i] ELSE Push(cs[k], v[i])
    BY <1>3, <2>1
  <2>4. w[k] = IF Replaced(cs, k) \/ SameCookie(cs[k], c) THEN w[i] ELSE Push(cs[k], w[i])
    BY <1>1, <1>4, <1>5, <2>1
  <2>5. Untouched(k) => Untouched(i)
    BY <1>1, <2>1
  <2>6. CASE Replaced(cs, k)
    <3> HIDE DEF Untouched
    <3> QED BY <2>2, <2>3, <2>4, <2>5, <2>6 DEF k
  <2>7. CASE ~Replaced(cs, k) /\ SameCookie(cs[k], c)
    <3>1. Untouched(i)
      <4> SUFFICES ASSUME NEW j \in 1..i, SameCookie(cs[j], c) PROVE Replaced(cs, j)
        OBVIOUS
      <4>1. SameCookie(cs[j], cs[k])
        BY <2>7 DEF SameCookie
      <4>2. k \in j + 1..Len(cs)
        BY <1>1, <2>1 DEF n
      <4> QED BY <4>1, <4>2 DEF Replaced
    <3>2. ~Untouched(k)
      BY <2>1, <2>7
    <3> HIDE DEF Untouched
    <3>3. Without(v[k], c) = v[i]
      <4>1. v[i] \in Seq(X) /\ cs[k] \in X
        BY <1>1, <1>3, <2>1
      <4>2. Without(Push(cs[k], v[i]), c) = v[i]
        BY <2>7, <4>1, WithoutFirst
      <4> QED BY <2>3, <2>7, <4>2
    <3> QED BY <2>2, <2>4, <2>7, <3>1, <3>2, <3>3 DEF k
  <2>8. CASE ~Replaced(cs, k) /\ ~SameCookie(cs[k], c)
    <3> HIDE DEF Untouched
    <3>1. Without(v[k], c) = Push(cs[k], Without(v[i], c))
      <4>1. v[i] \in Seq(X) /\ cs[k] \in X
        BY <1>1, <1>3, <2>1
      <4>2. Without(Push(cs[k], v[i]), c) = Push(cs[k], Without(v[i], c))
        BY <2>8, <4>1, WithoutFirst
      <4> QED BY <2>3, <2>8, <4>2
    <3>2. v[k] = Push(cs[k], v[i]) /\ w[k] = Push(cs[k], w[i])
      BY <2>3, <2>4, <2>8
    <3> QED BY <2>2, <2>5, <3>1, <3>2 DEF k
  <2> QED BY <2>6, <2>7, <2>8
<1>9. \A i \in Nat : i \in B
  <2> HIDE DEF B
  <2> QED BY <1>7, <1>8, Induction
<1>10. w[n] = Without(v[n], c)
  <2> HIDE DEF Untouched
  <2> QED BY <1>1, <1>9
<1>11. w[n + 1] = Push(c, w[n])
  <2>1. n + 1 \in 1..n + 1 /\ (n + 1) - 1 = n
    BY <1>1
  <2> QED BY <1>1, <1>4, <1>6, <2>1
<1> QED BY <1>10, <1>11 DEF n

-----------------------------------------------------------------------------
(***************************************************************************)
(* Cookies: what a jar is made from                                        *)
(***************************************************************************)

\* The cookies a piece can make: only its attributes give a place.
PlacesOf(p) == {p.from, <<"/">>}
                 \cup {p.set.attributes[i].value : i \in DOMAIN p.set.attributes}
AttributesOf(p) == {p.set.attributes[i] : i \in DOMAIN p.set.attributes}
CookiesOf(p) == [name : {p.set.name}, value : {p.set.value},
                 domain : PlacesOf(p), path : PlacesOf(p)]
AttributeStep(p) == [x \in CookiesOf(p) \X AttributesOf(p) |-> Attribute(x[1], x[2])]
Bare(p) == [name |-> p.set.name, value |-> p.set.value, domain |-> p.from, path |-> <<"/">>]

\* Cookie is a fold of the attributes.
LEMMA CookieFolded ==
  ASSUME NEW p, IsList(p.set.attributes)
  PROVE  /\ Foldable(CookiesOf(p), AttributesOf(p), AttributeStep(p), Bare(p), p.set.attributes)
         /\ Cookie(p.from, p.set) = Folded(AttributeStep(p), Bare(p), p.set.attributes)
<1> DEFINE seq == p.set.attributes  V == CookiesOf(p)  W == AttributesOf(p)
           h == AttributeStep(p)
           Iter(g) == g = [s \in SUBSET (DOMAIN seq) |->
                             IF s = {} THEN Bare(p)
                             ELSE Attribute(g[s \ {Max(s)}], seq[Max(s)])]
           c == CHOOSE g : Iter(g)
<1>1. \A x \in V, a \in W : Attribute(x, a) \in V
  <2> SUFFICES ASSUME NEW x \in V, NEW a \in W PROVE Attribute(x, a) \in V
    OBVIOUS
  <2>1. a.value \in PlacesOf(p)
    BY DEF AttributesOf, PlacesOf
  <2>2. [x EXCEPT !.domain = a.value] \in V /\ [x EXCEPT !.path = a.value] \in V
    BY <2>1 DEF CookiesOf
  <2> HIDE DEF V
  <2> QED BY <2>2 DEF Attribute
<1>2. \A x \in V, a \in W : h[<<x, a>>] = Attribute(x, a)
  BY DEF AttributeStep
<1>3. h \in [V \X W -> V]
  <2>1. h = [x \in V \X W |-> Attribute(x[1], x[2])]
    BY DEF AttributeStep
  <2>2. \A x \in V \X W : x[1] \in V /\ x[2] \in W
    OBVIOUS
  <2> HIDE DEF h, V, W
  <2> QED BY <1>1, <2>1, <2>2
<1>4. Foldable(V, W, h, Bare(p), seq)
  <2>1. Bare(p) \in V
    BY DEF Bare, CookiesOf, PlacesOf
  <2>2. seq \in Seq(W)
    BY DEF IsList, AttributesOf
  <2> HIDE DEF V, W, h, seq
  <2> QED BY <1>3, <2>1, <2>2 DEF Foldable
<1>5. Cookie(p.from, p.set) = c[DOMAIN seq]
  BY DEF Cookie, FoldLeft, MapThenFoldSet, Bare
<1> HIDE DEF seq, V, W, h
<1>6. PICK g \in [SUBSET (DOMAIN seq) -> V] : IsIter(g, h, Bare(p), seq)
  BY <1>4, IterExists DEF Foldable
<1>7. \A s \in SUBSET (DOMAIN seq) : s # {} => seq[Max(s)] \in W /\ s \ {Max(s)} \in SUBSET (DOMAIN seq)
  BY <1>4, IterStep DEF Foldable
<1>8. Iter(g)
  <2>1. \A s \in SUBSET (DOMAIN seq) : s # {} =>
          h[<<g[s \ {Max(s)}], seq[Max(s)]>>] = Attribute(g[s \ {Max(s)}], seq[Max(s)])
    BY <1>2, <1>6, <1>7
  <2> QED BY <1>6, <2>1 DEF IsIter
<1>9. Iter(c)
  <2> HIDE DEF Iter
  <2> QED BY <1>8
<1> HIDE DEF c
<1>10. Iterates(c, V, h, Bare(p), seq)
  <2>1. \A s \in SUBSET (DOMAIN seq) : s # {} /\ c[s \ {Max(s)}] \in V =>
          h[<<c[s \ {Max(s)}], seq[Max(s)]>>] = Attribute(c[s \ {Max(s)}], seq[Max(s)])
    BY <1>2, <1>7
  <2> QED BY <1>9, <2>1 DEF Iterates
<1>11. c[DOMAIN seq] = Folded(h, Bare(p), seq)
  BY <1>4, <1>10, IteratedIs
<1> QED BY <1>4, <1>5, <1>11 DEF seq, V, W, h

\* A cookie has the name and the value of its header, and its domain and path are
\* sequences.
LEMMA CookieTyped ==
  ASSUME NEW p, IsList(p.set.attributes), IsList(p.from),
         \A i \in DOMAIN p.set.attributes : IsList(p.set.attributes[i].value)
  PROVE  LET c == Cookie(p.from, p.set)
         IN  /\ c.name = p.set.name /\ c.value = p.set.value
             /\ IsList(c.domain) /\ IsList(c.path)
<1> DEFINE c == Cookie(p.from, p.set)
<1>1. c \in CookiesOf(p)
  BY CookieFolded, FoldedTyped
<1>2. \A d \in PlacesOf(p) : IsList(d)
  <2>1. IsList(<<"/">>)
    BY DEF IsList
  <2> QED BY <2>1 DEF PlacesOf
<1> HIDE DEF c
<1>3. c.name = p.set.name /\ c.value = p.set.value /\ c.domain \in PlacesOf(p) /\ c.path \in PlacesOf(p)
  BY <1>1 DEF CookiesOf
<1> QED BY <1>2, <1>3 DEF c

\* The cookies that a sequence of headers makes, in their order, and the jar.
Made(t) == [i \in DOMAIN t |-> Cookie(t[i].from, t[i].set)]
JarOf(t) == FoldLeft(LAMBDA jar, s : cwh_cookie_jar_add(jar, s.from, s.set), <<>>, t)

\* A jar of cookies made from P, and one more.
Makes(P) == {Cookie(p.from, p.set) : p \in P}
JarStep(P) == [x \in Seq(Makes(P)) \X P |-> cwh_cookie_jar_add(x[1], x[2].from, x[2].set)]

\* cwh_cookie_jar_add takes out what is replaced and puts the cookie first.
LEMMA AddIs ==
  ASSUME NEW P, NEW jar \in Seq(Makes(P)), NEW p \in P
  PROVE  /\ cwh_cookie_jar_add(jar, p.from, p.set)
              = Push(Cookie(p.from, p.set), Without(jar, Cookie(p.from, p.set)))
         /\ cwh_cookie_jar_add(jar, p.from, p.set) \in Seq(Makes(P))
<1> DEFINE c == Cookie(p.from, p.set)
<1>1. cwh_cookie_jar_add(jar, p.from, p.set) = Push(c, Without(jar, c))
  BY DEF cwh_cookie_jar_add, Push, Without, Old
<1>2. c \in Makes(P)
  BY DEF Makes
<1> HIDE DEF c
<1>3. Without(jar, c) \in Seq(Makes(P))
  <2>1. CASE Old(jar, c) = 0
    BY <2>1 DEF Without
  <2>2. CASE Old(jar, c) # 0
    <3>1. Old(jar, c) \in 1..Len(jar)
      <4>1. IsOld(Old(jar, c), jar, c)
        BY OldIs
      <4> QED BY <2>2, <4>1 DEF IsOld
    <3>2. RemoveAt(jar, Old(jar, c)) \in Seq(Makes(P))
      BY <3>1, Removed
    <3> QED BY <2>2, <3>2 DEF Without
  <2> QED BY <2>1, <2>2
<1>4. Push(c, Without(jar, c)) \in Seq(Makes(P))
  BY <1>2, <1>3, Prepended DEF Push
<1> QED BY <1>1, <1>4 DEF c

\* JarOf is a fold of cwh_cookie_jar_add.
LEMMA JarFolded ==
  ASSUME NEW P, NEW seq \in Seq(P)
  PROVE  /\ Foldable(Seq(Makes(P)), P, JarStep(P), <<>>, seq)
         /\ JarOf(seq) = Folded(JarStep(P), <<>>, seq)
<1> DEFINE V == Seq(Makes(P))  h == JarStep(P)
           op(x, s) == cwh_cookie_jar_add(x, s.from, s.set)
           Iter(g) == g = [s \in SUBSET (DOMAIN seq) |->
                             IF s = {} THEN <<>> ELSE op(g[s \ {Max(s)}], seq[Max(s)])]
           c == CHOOSE g : Iter(g)
<1>1. JarOf(seq) = c[DOMAIN seq]
  BY DEF JarOf, FoldLeft, MapThenFoldSet
<1>2. \A x \in V, a \in P : op(x, a) \in V
  BY AddIs
<1>3. \A x \in V, a \in P : h[<<x, a>>] = op(x, a)
  BY DEF JarStep
<1>4. h \in [V \X P -> V]
  <2>1. h = [x \in V \X P |-> op(x[1], x[2])]
    BY DEF JarStep
  <2>2. \A x \in V \X P : x[1] \in V /\ x[2] \in P
    OBVIOUS
  <2> HIDE DEF h, V, op
  <2> QED BY <1>2, <2>1, <2>2
<1>5. <<>> \in V
  OBVIOUS
<1> HIDE DEF V, h, op
<1>6. Foldable(V, P, h, <<>>, seq)
  BY <1>4, <1>5 DEF Foldable
<1>7. PICK g \in [SUBSET (DOMAIN seq) -> V] : IsIter(g, h, <<>>, seq)
  BY <1>6, IterExists DEF Foldable
<1>8. \A s \in SUBSET (DOMAIN seq) : s # {} => seq[Max(s)] \in P /\ s \ {Max(s)} \in SUBSET (DOMAIN seq)
  BY IterStep
<1>9. Iter(g)
  <2>1. \A s \in SUBSET (DOMAIN seq) : s # {} =>
          h[<<g[s \ {Max(s)}], seq[Max(s)]>>] = op(g[s \ {Max(s)}], seq[Max(s)])
    BY <1>3, <1>7, <1>8
  <2> QED BY <1>7, <2>1 DEF IsIter
<1>10. Iter(c)
  <2> HIDE DEF Iter
  <2> QED BY <1>9
<1> HIDE DEF c
<1>11. Iterates(c, V, h, <<>>, seq)
  <2>1. \A s \in SUBSET (DOMAIN seq) : s # {} /\ c[s \ {Max(s)}] \in V =>
          h[<<c[s \ {Max(s)}], seq[Max(s)]>>] = op(c[s \ {Max(s)}], seq[Max(s)])
    BY <1>3, <1>8
  <2> QED BY <1>10, <2>1 DEF Iterates
<1>12. c[DOMAIN seq] = Folded(h, <<>>, seq)
  BY <1>6, <1>11, IteratedIs
<1> QED BY <1>1, <1>6, <1>12 DEF V, h

\* The jar, header by header.
LEMMA JarSteps ==
  ASSUME NEW P
  PROVE  /\ JarOf(<<>>) = <<>>
         /\ \A t \in Seq(P), p \in P :
              JarOf(Append(t, p)) = Push(Cookie(p.from, p.set), Without(JarOf(t), Cookie(p.from, p.set)))
<1>1. <<>> \in Seq(P)
  OBVIOUS
<1>2. JarOf(<<>>) = <<>>
  BY <1>1, JarFolded, FoldedEmpty
<1>3. ASSUME NEW t \in Seq(P), NEW p \in P
      PROVE  JarOf(Append(t, p))
               = Push(Cookie(p.from, p.set), Without(JarOf(t), Cookie(p.from, p.set)))
  <2> DEFINE V == Seq(Makes(P))  h == JarStep(P)
  <2>1. Append(t, p) \in Seq(P)
    OBVIOUS
  <2>2. Foldable(V, P, h, <<>>, t) /\ JarOf(t) = Folded(h, <<>>, t)
    BY JarFolded
  <2>3. JarOf(Append(t, p)) = Folded(h, <<>>, Append(t, p))
    BY <2>1, JarFolded
  <2>4. \A x \in V : h[<<x, p>>] = cwh_cookie_jar_add(x, p.from, p.set)
    BY DEF JarStep
  <2> HIDE DEF h
  <2>5. /\ Folded(h, <<>>, t) \in V
        /\ Folded(h, <<>>, Append(t, p)) = h[<<Folded(h, <<>>, t), p>>]
    BY <2>2, FoldedAppend
  <2>6. JarOf(t) \in Seq(Makes(P))
    BY <2>2, <2>5
  <2>7. JarOf(Append(t, p)) = cwh_cookie_jar_add(JarOf(t), p.from, p.set)
    BY <2>2, <2>3, <2>4, <2>5
  <2> QED BY <2>6, <2>7, AddIs
<1> QED BY <1>2, <1>3

\* The cookies made, header by header.
LEMMA MadeSteps ==
  ASSUME NEW P, NEW t \in Seq(P), NEW p \in P
  PROVE  /\ Made(t) \in Seq(Makes(P)) /\ Len(Made(t)) = Len(t)
         /\ Made(Append(t, p)) = Append(Made(t), Cookie(p.from, p.set))
<1>0. ASSUME NEW s \in Seq(P)
      PROVE  /\ Made(s) \in Seq(Makes(P)) /\ Len(Made(s)) = Len(s)
             /\ \A i \in 1..Len(s) : Made(s)[i] = Cookie(s[i].from, s[i].set)
  <2>1. \A i \in 1..Len(s) : Cookie(s[i].from, s[i].set) \in Makes(P)
    BY DEF Makes
  <2>2. DOMAIN s = 1..Len(s) /\ Len(s) \in Nat
    OBVIOUS
  <2>3. Made(s) = [i \in 1..Len(s) |-> Cookie(s[i].from, s[i].set)]
    BY <2>2 DEF Made
  <2> QED BY <2>1, <2>2, <2>3
<1>1. /\ Append(t, p) \in Seq(P) /\ Len(Append(t, p)) = Len(t) + 1 /\ Len(t) \in Nat
      /\ Append(t, p)[Len(t) + 1] = p /\ \A i \in 1..Len(t) : Append(t, p)[i] = t[i]
  OBVIOUS
<1> DEFINE a == Made(t)  c == Cookie(p.from, p.set)  b == Made(Append(t, p))  d == Append(a, c)
<1>2. a \in Seq(Makes(P)) /\ Len(a) = Len(t) /\ c \in Makes(P)
      /\ \A i \in 1..Len(t) : a[i] = Cookie(t[i].from, t[i].set)
  BY <1>0 DEF Makes
<1>3. /\ b \in Seq(Makes(P)) /\ Len(b) = Len(t) + 1 /\ b[Len(t) + 1] = c
      /\ \A i \in 1..Len(t) : b[i] = Cookie(t[i].from, t[i].set)
  <2> DEFINE s == Append(t, p)
  <2>1. /\ s \in Seq(P) /\ Len(s) = Len(t) + 1 /\ Len(t) \in Nat /\ s[Len(t) + 1] = p
        /\ \A i \in 1..Len(t) : s[i] = t[i]
    BY <1>1
  <2>2. b = Made(s)
    OBVIOUS
  <2> HIDE DEF s, b
  <2>3. /\ b \in Seq(Makes(P)) /\ Len(b) = Len(t) + 1
        /\ \A i \in 1..Len(t) + 1 : b[i] = Cookie(s[i].from, s[i].set)
    BY <1>0, <2>1, <2>2
  <2>4. b[Len(t) + 1] = c
    <3>1. Len(t) + 1 \in 1..Len(t) + 1
      BY <2>1
    <3> QED BY <2>1, <2>3, <3>1
  <2>5. ASSUME NEW i \in 1..Len(t) PROVE b[i] = Cookie(t[i].from, t[i].set)
    <3>1. i \in 1..Len(t) + 1 /\ s[i] = t[i]
      BY <2>1
    <3>2. b[i] = Cookie(s[i].from, s[i].set)
      BY <2>3, <3>1
    <3> QED BY <3>1, <3>2
  <2> QED BY <2>3, <2>4, <2>5
<1> HIDE DEF a, b, c
<1>4. /\ d \in Seq(Makes(P)) /\ Len(d) = Len(t) + 1 /\ d[Len(t) + 1] = c
      /\ \A i \in 1..Len(t) : d[i] = a[i]
  BY <1>2
<1> HIDE DEF d
<1>5. \A i \in 1..Len(b) : b[i] = d[i]
  <2>1. \A i \in 1..Len(b) : i \in 1..Len(t) \/ i = Len(t) + 1
    BY <1>1, <1>3
  <2> QED BY <1>2, <1>3, <1>4, <2>1
<1>6. b = d
  BY <1>3, <1>4, <1>5, SeqEqual
<1> QED BY <1>2, <1>6 DEF a, b, c, d

\* The jar has the cookies that are not replaced, newest first.
LEMMA JarKeeps ==
  ASSUME NEW P, NEW t \in Seq(P), NEW v, IsKept(v, Made(t))
  PROVE  JarOf(t) = v[Len(t)]
<1> DEFINE Q == {s \in Seq(P) : \A w : IsKept(w, Made(s)) => JarOf(s) = w[Len(s)]}
<1>1. <<>> \in Q
  <2>1. <<>> \in Seq(P) /\ Len(<<>>) = 0
    OBVIOUS
  <2>2. Made(<<>>) \in Seq({})
    BY DEF Made
  <2>3. \A w : IsKept(w, Made(<<>>)) => w[0] = <<>>
    BY <2>2, KeptSteps
  <2> QED BY <2>1, <2>3, JarSteps
<1>2. ASSUME NEW s \in Seq(P), NEW p \in P, s \in Q PROVE Append(s, p) \in Q
  <2>1. Append(s, p) \in Seq(P) /\ Len(Append(s, p)) = Len(s) + 1
    OBVIOUS
  <2>2. ASSUME NEW w, IsKept(w, Made(Append(s, p)))
        PROVE  JarOf(Append(s, p)) = w[Len(s) + 1]
    <3> DEFINE cs == Made(s)  c == Cookie(p.from, p.set)
    <3>1. cs \in Seq(Makes(P)) /\ Len(cs) = Len(s) /\ Made(Append(s, p)) = Append(cs, c)
      BY MadeSteps
    <3>2. c \in Makes(P)
      BY DEF Makes
    <3>3. PICK u : IsKept(u, cs)
      <4> HIDE DEF cs
      <4> QED BY <3>1, KeptExists
    <3>4. JarOf(s) = u[Len(s)]
      BY <1>2, <3>3
    <3>5. JarOf(Append(s, p)) = Push(c, Without(JarOf(s), c))
      BY JarSteps
    <3> HIDE DEF cs, c
    <3>6. w[Len(cs) + 1] = Push(c, Without(u[Len(cs)], c))
      BY <2>2, <3>1, <3>2, <3>3, KeptAppend
    <3> QED BY <3>1, <3>4, <3>5, <3>6
  <2> QED BY <2>1, <2>2
<1>3. t \in Q
  <2> HIDE DEF Q
  <2> QED BY <1>1, <1>2, SeqInduction
<1> QED BY <1>3

-----------------------------------------------------------------------------
(***************************************************************************)
(* Cookies: what a jar gives                                               *)
(***************************************************************************)

\* Whether a cookie of the jar is sent, and what may be written for it.
Matches(c, domain, path) == cwh_domain_match(domain, c.domain) /\ cwh_path_match(path, c.path)
Items(C) == {Separator} \cup {Pair(c) : c \in C}
Chips(C) == Items(C) \cup {snprintf(CookieRoom, n, i) : n \in Nat, i \in Items(C)}
Strs(C) == [pieces : Seq(Chips(C)), offset : Nat]

\* The names of C are not the separator's, and their values are sequences.
Nameable(C) == \A c \in C : c.name # Separator[1] /\ IsList(c.value)

\* A pair is not a separator, and longer than what the separator leaves.
LEMMA PairIs ==
  ASSUME NEW C, Nameable(C), NEW c \in C
  PROVE  /\ Pair(c) # Separator /\ Pair(c) \in Items(C)
         /\ Len(Pair(c)) \in Nat /\ Len(Pair(c)) >= 2 /\ IsList(Pair(c))
<1> DEFINE a == <<c.name, "=">>  D == {c.value[i] : i \in DOMAIN c.value}
           X == D \cup {c.name, "="}  j == Joined(a, c.value)  sep == Separator[1]
<1>1. a \in Seq(X) /\ Len(a) = 2 /\ a[1] = c.name
  OBVIOUS
<1>2. c.value \in Seq(X)
  <2>1. c.value \in Seq(D) /\ D \subseteq X
    BY DEF Nameable, IsList
  <2> HIDE DEF D, X
  <2> QED BY <2>1, SeqMonotonic
<1>3. c.name # sep
  BY DEF Nameable
<1>4. Pair(c) = j
  BY DEF Pair, Joined
<1>5. Pair(c) \in Items(C)
  BY DEF Items
<1> HIDE DEF a, X, j, sep
<1>6. IsJoin(X, a, c.value, j)
  BY <1>1, <1>2, JoinedAt DEF j
<1>7. /\ j \in Seq(X) /\ Len(j) = Len(a) + Len(c.value) /\ Len(c.value) \in Nat
      /\ \A k \in 1..Len(a) : j[k] = a[k]
  BY <1>6 DEF IsJoin
<1>8. 1 \in 1..Len(a)
  BY <1>1
<1>9. j[1] = c.name /\ Len(j) \in Nat /\ Len(j) >= 2
  BY <1>1, <1>7, <1>8
<1>10. IsList(j)
  BY <1>7 DEF IsList
<1>11. j[1] # Separator[1]
  BY <1>3, <1>9 DEF sep
<1>12. j # Separator
  BY <1>11
<1> QED BY <1>4, <1>5, <1>9, <1>10, <1>12

\* What fits is written as it is.
LEMMA Fitted ==
  ASSUME NEW piece, IsList(piece), NEW room \in Nat, NEW n \in Nat, n + Len(piece) < room
  PROVE  snprintf(room, n, piece) = piece
<1> DEFINE m == Len(piece)  X == {piece[i] : i \in DOMAIN piece}
<1>1. piece \in Seq(X)
  BY DEF IsList
<1> HIDE DEF X
<1>2. m \in Nat /\ DOMAIN piece = 1..m
  BY <1>1
<1>3. \A i \in 1..m : n + i < room
  BY <1>2
<1>4. snprintf(room, n, piece) = [i \in 1..m |-> IF n > room \/ n + i < room THEN piece[i]
                                    ELSE IF n + i = room THEN NUL ELSE Stale]
  BY <1>2 DEF snprintf
<1>5. piece = [i \in 1..m |-> piece[i]]
  BY <1>1, <1>2
<1> HIDE DEF m
<1> QED BY <1>3, <1>4, <1>5

\* What is sent, without the separators.
Kept(x, i) == IF i = Separator THEN x ELSE Append(x, i)
CookiesStep(J) == [x \in Seq(J) \X J |-> Kept(x[1], x[2])]

\* Cookies is a fold of Kept.
LEMMA CookiesFolded ==
  ASSUME NEW J, NEW seq \in Seq(J)
  PROVE  /\ Foldable(Seq(J), J, CookiesStep(J), <<>>, seq)
         /\ Cookies(seq) = Folded(CookiesStep(J), <<>>, seq)
<1> DEFINE V == Seq(J)  h == CookiesStep(J)  op(x, i) == Kept(x, i)
           Iter(g) == g = [s \in SUBSET (DOMAIN seq) |->
                             IF s = {} THEN <<>> ELSE op(g[s \ {Max(s)}], seq[Max(s)])]
           c == CHOOSE g : Iter(g)
<1>1. Cookies(seq) = c[DOMAIN seq]
  BY DEF Cookies, Kept, FoldLeft, MapThenFoldSet
<1>2. \A x \in V, a \in J : op(x, a) \in V
  BY DEF Kept
<1>3. \A x \in V, a \in J : h[<<x, a>>] = op(x, a)
  BY DEF CookiesStep
<1>4. h \in [V \X J -> V]
  <2>1. h = [x \in V \X J |-> op(x[1], x[2])]
    BY DEF CookiesStep
  <2>2. \A x \in V \X J : x[1] \in V /\ x[2] \in J
    OBVIOUS
  <2> HIDE DEF h, V, op
  <2> QED BY <1>2, <2>1, <2>2
<1>5. <<>> \in V
  OBVIOUS
<1> HIDE DEF V, h, op
<1>6. Foldable(V, J, h, <<>>, seq)
  BY <1>4, <1>5 DEF Foldable
<1>7. PICK g \in [SUBSET (DOMAIN seq) -> V] : IsIter(g, h, <<>>, seq)
  BY <1>6, IterExists DEF Foldable
<1>8. \A s \in SUBSET (DOMAIN seq) : s # {} => seq[Max(s)] \in J /\ s \ {Max(s)} \in SUBSET (DOMAIN seq)
  BY IterStep
<1>9. Iter(g)
  <2>1. \A s \in SUBSET (DOMAIN seq) : s # {} =>
          h[<<g[s \ {Max(s)}], seq[Max(s)]>>] = op(g[s \ {Max(s)}], seq[Max(s)])
    BY <1>3, <1>7, <1>8
  <2> QED BY <1>7, <2>1 DEF IsIter
<1>10. Iter(c)
  <2> HIDE DEF Iter
  <2> QED BY <1>9
<1> HIDE DEF c
<1>11. Iterates(c, V, h, <<>>, seq)
  <2>1. \A s \in SUBSET (DOMAIN seq) : s # {} /\ c[s \ {Max(s)}] \in V =>
          h[<<c[s \ {Max(s)}], seq[Max(s)]>>] = op(c[s \ {Max(s)}], seq[Max(s)])
    BY <1>3, <1>8
  <2> QED BY <1>10, <2>1 DEF Iterates
<1>12. c[DOMAIN seq] = Folded(h, <<>>, seq)
  BY <1>6, <1>11, IteratedIs
<1> QED BY <1>1, <1>6, <1>12 DEF V, h

\* What is kept of one item more.
LEMMA CookiesSteps ==
  ASSUME NEW J
  PROVE  /\ Cookies(<<>>) = <<>>
         /\ \A s \in Seq(J), i \in J : /\ Cookies(s) \in Seq(J)
                                       /\ Cookies(Append(s, i)) = Kept(Cookies(s), i)
<1> DEFINE V == Seq(J)  h == CookiesStep(J)
<1>1. \A s \in Seq(J) : Foldable(V, J, h, <<>>, s) /\ Cookies(s) = Folded(h, <<>>, s)
  BY CookiesFolded
<1>2. \A x \in V, i \in J : h[<<x, i>>] = Kept(x, i)
  BY DEF CookiesStep
<1>3. <<>> \in Seq(J) /\ \A s \in Seq(J), i \in J : Append(s, i) \in Seq(J)
  OBVIOUS
<1> HIDE DEF h
<1>4. Cookies(<<>>) = <<>>
  BY <1>1, <1>3, FoldedEmpty
<1>5. ASSUME NEW s \in Seq(J), NEW i \in J
      PROVE  Cookies(s) \in Seq(J) /\ Cookies(Append(s, i)) = Kept(Cookies(s), i)
  <2>1. /\ Folded(h, <<>>, s) \in V
        /\ Folded(h, <<>>, Append(s, i)) = h[<<Folded(h, <<>>, s), i>>]
    BY <1>1, FoldedAppend
  <2> QED BY <1>1, <1>2, <1>3, <2>1
<1> QED BY <1>4, <1>5

\* A piece more of cookie_str.
LEMMA PieceWritten ==
  ASSUME NEW C, NEW str \in Strs(C), NEW piece \in Items(C), IsList(piece)
  PROVE  /\ WithPiece(str, piece) \in Strs(C)
         /\ WithPiece(str, piece).offset = str.offset + Len(piece) /\ Len(piece) \in Nat
         /\ str.offset + Len(piece) < CookieRoom =>
              Cookies(WithPiece(str, piece).pieces) = Kept(Cookies(str.pieces), piece)
<1> DEFINE J == Chips(C)  n == str.offset  chip == snprintf(CookieRoom, n, piece)
           w == WithPiece(str, piece)  X == {piece[i] : i \in DOMAIN piece}
<1>1. str.pieces \in Seq(J) /\ n \in Nat
  BY DEF Strs
<1>2. Len(piece) \in Nat
  <2>1. piece \in Seq(X)
    BY DEF IsList
  <2> HIDE DEF X
  <2> QED BY <2>1
<1>3. chip \in J /\ piece \in J
  BY <1>1 DEF Chips
<1>4. w.pieces = Append(str.pieces, chip) /\ w.offset = n + Len(piece)
      /\ w = [pieces |-> Append(str.pieces, chip), offset |-> n + Len(piece)]
  BY DEF WithPiece
<1>5. n + Len(piece) < CookieRoom => chip = piece
  BY <1>1, CookieRoomAssumption, Fitted
<1> HIDE DEF J, n, chip, w
<1>6. Append(str.pieces, chip) \in Seq(J)
  BY <1>1, <1>3
<1>7. w \in Strs(C)
  BY <1>1, <1>2, <1>4, <1>6 DEF Strs, J
<1>8. Cookies(Append(str.pieces, piece)) = Kept(Cookies(str.pieces), piece)
  BY <1>1, <1>3, CookiesSteps
<1> QED BY <1>2, <1>4, <1>5, <1>7, <1>8 DEF n, w

\* What Sent makes of cookie_str, if it fits, adds the cookie if it has a name.
Sends(C, str, next, c) ==
  /\ next \in Strs(C) /\ next.offset >= str.offset
  /\ next.offset < CookieRoom =>
       Cookies(next.pieces) = IF c.name = NoName THEN Cookies(str.pieces)
                              ELSE Append(Cookies(str.pieces), Pair(c))

LEMMA SentIs ==
  ASSUME NEW C, Nameable(C), NEW str \in Strs(C), NEW c \in C
  PROVE  Sends(C, str, Sent(str, c), c)
<1> DEFINE sep == Separator  led == IF str.pieces # <<>> /\ str.offset < CookieRoom - 2
                                    THEN WithPiece(str, sep) ELSE str
           p == Pair(c)  next == Sent(str, c)
<1>1. next = IF c.name = NoName THEN led ELSE WithPiece(led, p)
  BY DEF Sent
<1>2. sep \in Items(C) /\ IsList(sep) /\ Len(sep) = 2
  <2>1. \A x, y : IsList(<<x, y>>) /\ Len(<<x, y>>) = 2
    BY DEF IsList
  <2>2. \E x, y : sep = <<x, y>>
    BY ZenonT(10) DEF Separator
  <2>3. sep \in Items(C)
    BY DEF Items
  <2> HIDE DEF sep
  <2> QED BY <2>1, <2>2, <2>3
<1>3. p # sep /\ p \in Items(C) /\ IsList(p) /\ Len(p) \in Nat /\ Len(p) >= 2
  BY PairIs
<1>4. CookieRoom \in Nat /\ CookieRoom > 2 /\ str.offset \in Nat
  BY CookieRoomAssumption DEF Strs
<1>5. /\ WithPiece(str, sep) \in Strs(C) /\ WithPiece(str, sep).offset = str.offset + 2
      /\ str.offset + 2 < CookieRoom =>
           Cookies(WithPiece(str, sep).pieces) = Kept(Cookies(str.pieces), sep)
  <2> HIDE DEF sep
  <2> QED BY <1>2, PieceWritten
<1>6. Kept(Cookies(str.pieces), sep) = Cookies(str.pieces)
  BY DEF Kept
<1>7. /\ led \in Strs(C) /\ led.offset >= str.offset
      /\ led.offset < CookieRoom => Cookies(led.pieces) = Cookies(str.pieces)
  <2>1. CASE led = str
    BY <1>4, <2>1
  <2>2. CASE led = WithPiece(str, sep)
    <3> HIDE DEF sep, led
    <3> QED BY <1>4, <1>5, <1>6, <2>2
  <2>3. led = str \/ led = WithPiece(str, sep)
    OBVIOUS
  <2> HIDE DEF led
  <2> QED BY <2>1, <2>2, <2>3
<1>8. led.offset \in Nat
  <2> HIDE DEF led
  <2> QED BY <1>7 DEF Strs
<1> HIDE DEF sep, led, p, next
<1>9. /\ WithPiece(led, p) \in Strs(C) /\ WithPiece(led, p).offset = led.offset + Len(p)
      /\ led.offset + Len(p) < CookieRoom =>
           Cookies(WithPiece(led, p).pieces) = Kept(Cookies(led.pieces), p)
  BY <1>3, <1>7, PieceWritten
<1>10. Kept(Cookies(led.pieces), p) = Append(Cookies(led.pieces), p)
  BY <1>3 DEF Kept, sep
<1>11. CASE c.name = NoName
  BY <1>1, <1>7, <1>11 DEF Sends, next
<1>12. CASE c.name # NoName
  <2>1. next = WithPiece(led, p) /\ next.offset = led.offset + Len(p)
    BY <1>1, <1>9, <1>12
  <2>2. next.offset >= str.offset /\ (next.offset < CookieRoom => led.offset < CookieRoom)
    BY <1>3, <1>4, <1>7, <1>8, <2>1
  <2>3. next.offset < CookieRoom => Cookies(next.pieces) = Append(Cookies(str.pieces), p)
    BY <1>7, <1>9, <1>10, <2>1, <2>2
  <2> QED BY <1>9, <1>12, <2>1, <2>2, <2>3 DEF Sends, next, p
<1> QED BY <1>11, <1>12

\* cwh_cookie_jar_get, one cookie after the other.
Fetched(str, c, domain, path) == IF Matches(c, domain, path) THEN Sent(str, c) ELSE str
GetStep(C, domain, path) == [x \in Strs(C) \X C |-> Fetched(x[1], x[2], domain, path)]
EmptyStr == [pieces |-> <<>>, offset |-> 0]

\* cwh_cookie_jar_get is a fold of Fetched.
LEMMA GetFolded ==
  ASSUME NEW C, Nameable(C), NEW domain, NEW path, NEW seq \in Seq(C)
  PROVE  /\ Foldable(Strs(C), C, GetStep(C, domain, path), EmptyStr, seq)
         /\ cwh_cookie_jar_get(seq, domain, path) = Folded(GetStep(C, domain, path), EmptyStr, seq)
<1> DEFINE V == Strs(C)  h == GetStep(C, domain, path)
           op(x, s) == Fetched(x, s, domain, path)
           Iter(g) == g = [s \in SUBSET (DOMAIN seq) |->
                             IF s = {} THEN EmptyStr ELSE op(g[s \ {Max(s)}], seq[Max(s)])]
           c == CHOOSE g : Iter(g)
<1>1. cwh_cookie_jar_get(seq, domain, path) = c[DOMAIN seq]
  BY DEF cwh_cookie_jar_get, Fetched, Matches, EmptyStr, FoldLeft, MapThenFoldSet
<1>2. \A x \in V, a \in C : op(x, a) \in V
  BY SentIs DEF Fetched, Sends
<1>3. \A x \in V, a \in C : h[<<x, a>>] = op(x, a)
  BY DEF GetStep
<1>4. h \in [V \X C -> V]
  <2>1. h = [x \in V \X C |-> op(x[1], x[2])]
    BY DEF GetStep
  <2>2. \A x \in V \X C : x[1] \in V /\ x[2] \in C
    OBVIOUS
  <2> HIDE DEF h, V, op
  <2> QED BY <1>2, <2>1, <2>2
<1>5. EmptyStr \in V
  BY DEF EmptyStr, Strs
<1> HIDE DEF V, h, op
<1>6. Foldable(V, C, h, EmptyStr, seq)
  BY <1>4, <1>5 DEF Foldable
<1>7. PICK g \in [SUBSET (DOMAIN seq) -> V] : IsIter(g, h, EmptyStr, seq)
  BY <1>6, IterExists DEF Foldable
<1>8. \A s \in SUBSET (DOMAIN seq) : s # {} => seq[Max(s)] \in C /\ s \ {Max(s)} \in SUBSET (DOMAIN seq)
  BY IterStep
<1>9. Iter(g)
  <2>1. \A s \in SUBSET (DOMAIN seq) : s # {} =>
          h[<<g[s \ {Max(s)}], seq[Max(s)]>>] = op(g[s \ {Max(s)}], seq[Max(s)])
    BY <1>3, <1>7, <1>8
  <2> QED BY <1>7, <2>1 DEF IsIter
<1>10. Iter(c)
  <2> HIDE DEF Iter
  <2> QED BY <1>9
<1> HIDE DEF c
<1>11. Iterates(c, V, h, EmptyStr, seq)
  <2>1. \A s \in SUBSET (DOMAIN seq) : s # {} /\ c[s \ {Max(s)}] \in V =>
          h[<<c[s \ {Max(s)}], seq[Max(s)]>>] = op(c[s \ {Max(s)}], seq[Max(s)])
    BY <1>3, <1>8
  <2> QED BY <1>10, <2>1 DEF Iterates
<1>12. c[DOMAIN seq] = Folded(h, EmptyStr, seq)
  BY <1>6, <1>11, IteratedIs
<1> QED BY <1>1, <1>6, <1>12 DEF V, h

\* The cookies that are asked for and have a name, as they are sent.
Fits(c, domain, path) == Matches(c, domain, path) /\ c.name # NoName
Picked(x, c, domain, path) == IF Fits(c, domain, path) THEN Append(x, Pair(c)) ELSE x
PickStep(C, domain, path) == [x \in Seq(Items(C)) \X C |-> Picked(x[1], x[2], domain, path)]
Given(C, s, domain, path) == Folded(PickStep(C, domain, path), <<>>, s)

\* A cookie more at the end of the jar is one pair more, or nothing.
Gives(C, domain, path) ==
  /\ Given(C, <<>>, domain, path) = <<>>
  /\ \A s \in Seq(C), c \in C :
       /\ Given(C, s, domain, path) \in Seq(Items(C))
       /\ Given(C, Append(s, c), domain, path) = Picked(Given(C, s, domain, path), c, domain, path)

LEMMA GivenSteps ==
  ASSUME NEW C, NEW domain, NEW path
  PROVE  Gives(C, domain, path)
<1> DEFINE V == Seq(Items(C))  h == PickStep(C, domain, path)
           op(x, c) == Picked(x, c, domain, path)
<1>1. \A x \in V, c \in C : op(x, c) \in V /\ h[<<x, c>>] = op(x, c)
  <2>1. \A c \in C : Pair(c) \in Items(C)
    BY DEF Items
  <2>2. \A x \in V, c \in C : Append(x, Pair(c)) \in V
    BY <2>1
  <2> QED BY <2>2 DEF PickStep, Picked
<1>2. h \in [V \X C -> V]
  <2>1. h = [x \in V \X C |-> op(x[1], x[2])]
    BY DEF PickStep
  <2>2. \A x \in V \X C : x[1] \in V /\ x[2] \in C
    OBVIOUS
  <2> HIDE DEF h, V, op
  <2> QED BY <1>1, <2>1, <2>2
<1>3. <<>> \in V /\ <<>> \in Seq(C)
  OBVIOUS
<1> HIDE DEF V, h, op
<1>4. \A s \in Seq(C) : Foldable(V, C, h, <<>>, s)
  BY <1>2, <1>3 DEF Foldable
<1>5. Folded(h, <<>>, <<>>) = <<>>
  BY <1>3, <1>4, FoldedEmpty
<1>6. ASSUME NEW s \in Seq(C), NEW c \in C
      PROVE  Folded(h, <<>>, s) \in V
             /\ Folded(h, <<>>, Append(s, c)) = op(Folded(h, <<>>, s), c)
  <2>1. /\ Folded(h, <<>>, s) \in V
        /\ Folded(h, <<>>, Append(s, c)) = h[<<Folded(h, <<>>, s), c>>]
    BY <1>4, FoldedAppend
  <2> QED BY <1>1, <2>1
<1> QED BY <1>5, <1>6 DEF Gives, Given, V, h, op

\* What get sends, if it fits cookie_str, are these cookies.
LEMMA GetGives ==
  ASSUME NEW C, Nameable(C), NEW domain, NEW path, NEW jar \in Seq(C)
  PROVE  LET str == cwh_cookie_jar_get(jar, domain, path)
         IN  str.offset < CookieRoom => Cookies(str.pieces) = Given(C, jar, domain, path)
<1> DEFINE get(s) == cwh_cookie_jar_get(s, domain, path)  K(s) == Given(C, s, domain, path)
           V == Strs(C)  h == GetStep(C, domain, path)
           Same(str, x) == str.offset < CookieRoom => Cookies(str.pieces) = x
           Q == {s \in Seq(C) : Same(get(s), K(s))}
<1>1. \A s \in Seq(C) : Foldable(V, C, h, EmptyStr, s) /\ get(s) = Folded(h, EmptyStr, s)
  BY GetFolded
<1>2. \A x \in V, c \in C : h[<<x, c>>] = Fetched(x, c, domain, path)
  BY DEF GetStep
<1>3. <<>> \in Seq(C) /\ \A s \in Seq(C), c \in C : Append(s, c) \in Seq(C)
  OBVIOUS
<1>4. /\ K(<<>>) = <<>>
      /\ \A s \in Seq(C), c \in C : K(Append(s, c)) = Picked(K(s), c, domain, path)
  BY GivenSteps DEF Gives
<1> HIDE DEF get, K, V, h
<1>5. get(<<>>) = EmptyStr
  BY <1>1, <1>3, FoldedEmpty
<1>6. ASSUME NEW s \in Seq(C), NEW c \in C
      PROVE  get(s) \in V /\ get(Append(s, c)) = Fetched(get(s), c, domain, path)
  <2>1. /\ Folded(h, EmptyStr, s) \in V
        /\ Folded(h, EmptyStr, Append(s, c)) = h[<<Folded(h, EmptyStr, s), c>>]
    BY <1>1, FoldedAppend
  <2> QED BY <1>1, <1>2, <1>3, <2>1
<1>7. <<>> \in Q
  <2>1. Cookies(<<>>) = <<>>
    BY CookiesSteps
  <2> QED BY <1>3, <1>4, <1>5, <2>1 DEF EmptyStr
<1>8. ASSUME NEW s \in Seq(C), NEW c \in C, s \in Q PROVE Append(s, c) \in Q
  <2> DEFINE a == get(s)  b == get(Append(s, c))
  <2>1. a \in V /\ b = IF Matches(c, domain, path) THEN Sent(a, c) ELSE a
    BY <1>6 DEF Fetched
  <2>2. a.offset < CookieRoom => Cookies(a.pieces) = K(s)
    BY <1>8
  <2>3. Append(s, c) \in Seq(C) /\ K(Append(s, c)) = Picked(K(s), c, domain, path)
    BY <1>3, <1>4
  <2> HIDE DEF a, b
  <2>4. Same(b, Picked(K(s), c, domain, path))
    <3>1. CASE ~Matches(c, domain, path)
      BY <2>1, <2>2, <3>1 DEF Picked, Fits
    <3>2. CASE Matches(c, domain, path)
      <4>1. Sends(C, a, b, c)
        BY <2>1, <3>2, SentIs DEF V
      <4>2. /\ b.offset \in Nat /\ a.offset \in Nat /\ CookieRoom \in Nat
            /\ b.offset >= a.offset
            /\ b.offset < CookieRoom =>
                 Cookies(b.pieces) = IF c.name = NoName THEN Cookies(a.pieces)
                                     ELSE Append(Cookies(a.pieces), Pair(c))
        BY <2>1, <4>1, CookieRoomAssumption DEF Sends, Strs, V
      <4>3. b.offset < CookieRoom => a.offset < CookieRoom
        BY <4>2
      <4> QED BY <2>2, <3>2, <4>2, <4>3 DEF Picked, Fits
    <3> QED BY <3>1, <3>2
  <2> QED BY <2>3, <2>4 DEF b
<1>9. jar \in Q
  <2> HIDE DEF Q
  <2> QED BY <1>7, <1>8, SeqInduction
<1> QED BY <1>9 DEF get, K

\* Before the others comes the cookie that is first in the jar.
LEMMA GivenFirst ==
  ASSUME NEW C, NEW domain, NEW path, NEW x \in C, NEW s \in Seq(C)
  PROVE  Given(C, Push(x, s), domain, path)
           = IF Fits(x, domain, path) THEN Push(Pair(x), Given(C, s, domain, path))
             ELSE Given(C, s, domain, path)
<1> DEFINE K(t) == Given(C, t, domain, path)  W(c) == Fits(c, domain, path)
           Q == {t \in Seq(C) : K(Push(x, t)) = IF W(x) THEN Push(Pair(x), K(t)) ELSE K(t)}
<1>1. /\ K(<<>>) = <<>>
      /\ \A t \in Seq(C), c \in C :
           /\ K(t) \in Seq(Items(C))
           /\ K(Append(t, c)) = IF W(c) THEN Append(K(t), Pair(c)) ELSE K(t)
  <2>1. Gives(C, domain, path)
    BY GivenSteps
  <2> QED BY <2>1 DEF Gives, Picked
<1>2. \A c \in C : Pair(c) \in Items(C)
  BY DEF Items
<1> HIDE DEF K, W
<1>3. <<>> \in Q
  <2>1. <<>> \in Seq(C) /\ Push(x, <<>>) = Append(<<>>, x)
        /\ Push(Pair(x), <<>>) = Append(<<>>, Pair(x))
    BY DEF Push
  <2>2. K(Append(<<>>, x)) = IF W(x) THEN Append(K(<<>>), Pair(x)) ELSE K(<<>>)
    BY <1>1, <2>1
  <2>3. K(Push(x, <<>>)) = IF W(x) THEN Push(Pair(x), K(<<>>)) ELSE K(<<>>)
    BY <1>1, <2>1, <2>2
  <2> QED BY <2>1, <2>3
<1>4. ASSUME NEW t \in Seq(C), NEW c \in C, t \in Q PROVE Append(t, c) \in Q
  <2>1. Append(t, c) \in Seq(C)
    OBVIOUS
  <2>2. Push(x, Append(t, c)) = Append(Push(x, t), c) /\ Push(x, t) \in Seq(C)
    BY PushAppend
  <2>3. Push(Pair(x), Append(K(t), Pair(c))) = Append(Push(Pair(x), K(t)), Pair(c))
    BY <1>1, <1>2, PushAppend
  <2>4. K(Push(x, t)) = IF W(x) THEN Push(Pair(x), K(t)) ELSE K(t)
    BY <1>4
  <2>5. K(Append(t, c)) = IF W(c) THEN Append(K(t), Pair(c)) ELSE K(t)
    BY <1>1
  <2>6. K(Append(Push(x, t), c)) = IF W(c) THEN Append(K(Push(x, t)), Pair(c)) ELSE K(Push(x, t))
    BY <1>1, <2>2
  <2>7. K(Push(x, Append(t, c)))
          = IF W(x) THEN Push(Pair(x), K(Append(t, c))) ELSE K(Append(t, c))
    BY <2>2, <2>3, <2>4, <2>5, <2>6
  <2> QED BY <2>1, <2>7
<1>5. s \in Q
  <2> HIDE DEF Q
  <2> QED BY <1>3, <1>4, SeqInduction
<1> QED BY <1>5 DEF K, W

-----------------------------------------------------------------------------
(***************************************************************************)
(* Cookies: what is due                                                    *)
(***************************************************************************)

\* cwh_domain_match takes a domain for the cookie's own or for one below it.
LEMMA DomainMatches ==
  ASSUME NEW X, NEW domain \in Seq(X), NEW d \in Seq(X)
  PROVE  cwh_domain_match(domain, d)
           <=> \/ d = domain
               \/ At(d, 1, <<".">>) /\ \E k \in 1..Len(domain) : Cut(domain, k, End(domain)) = d
<1> DEFINE m == Len(d)  n == Len(domain)  Rests(k) == SubSeq(domain, k, n)
<1>1. m \in Nat /\ n \in Nat
  OBVIOUS
<1>2. At(d, 1, <<".">>) <=> m >= 1 /\ d[1] = "."
  <2>1. Len(<<".">>) = 1 /\ 1 + 1 - 1 = 1
    OBVIOUS
  <2>2. At(d, 1, <<".">>) <=> m >= 1 /\ SubSeq(d, 1, 1) = <<".">>
    BY <1>1, <2>1 DEF At, End
  <2>3. ASSUME m >= 1 PROVE SubSeq(d, 1, 1) = <<".">> <=> d[1] = "."
    <3> DEFINE a == SubSeq(d, 1, 1)
    <3>1. 1 \in 1..Len(d) + 1 /\ 1 \in 1 - 1..Len(d) /\ 1 - 1 + 1 = 1
      BY <1>1, <2>3
    <3>2. a \in Seq(X) /\ Len(a) = 1 - 1 + 1 /\ \A i \in 1..1 - 1 + 1 : a[i] = d[1 - 1 + i]
      BY <3>1, CutAt
    <3> HIDE DEF a
    <3>3. a \in Seq(X) /\ Len(a) = 1 /\ a[1] = d[1]
      BY <3>2
    <3>4. a = <<d[1]>>
      BY <3>3
    <3> QED BY <3>4 DEF a
  <2> QED BY <2>2, <2>3
<1>3. \A k \in 1..n : /\ Rests(k) \in Seq(X) /\ Len(Rests(k)) = n - k + 1
                      /\ \A i \in 1..n - k + 1 : Rests(k)[i] = domain[k - 1 + i]
  <2> SUFFICES ASSUME NEW k \in 1..n
               PROVE  /\ Rests(k) \in Seq(X) /\ Len(Rests(k)) = n - k + 1
                      /\ \A i \in 1..n - k + 1 : Rests(k)[i] = domain[k - 1 + i]
    OBVIOUS
  <2> DEFINE l == Len(domain)
  <2>1. k \in 1..Len(domain) + 1 /\ l \in k - 1..Len(domain)
    BY <1>1
  <2> HIDE DEF l
  <2>2. /\ SubSeq(domain, k, l) \in Seq(X) /\ Len(SubSeq(domain, k, l)) = l - k + 1
        /\ \A i \in 1..l - k + 1 : SubSeq(domain, k, l)[i] = domain[k - 1 + i]
    BY <2>1, CutAt
  <2> QED BY <2>2 DEF l
<1>4. \A k : Cut(domain, k, End(domain)) = Rests(k)
  <2>1. End(domain) - 1 = n
    BY <1>1 DEF End
  <2>2. \A k : Cut(domain, k, End(domain)) = SubSeq(domain, k, End(domain) - 1)
    BY DEF Cut
  <2> QED BY <2>1, <2>2
<1>5. cwh_domain_match(domain, d) <=>
        \/ d = domain
        \/ m >= 1 /\ d[1] = "." /\ n >= m /\ (IsSuffix(d, domain) \/ domain = Tail(d))
  BY <1>2 DEF cwh_domain_match
<1>6. n >= m /\ m >= 1 => domain # Tail(d)
  <2>1. m >= 1 => Len(Tail(d)) = m - 1
    BY <1>1
  <2> QED BY <1>1, <2>1
<1>7. IsSuffix(d, domain) <=> m <= n /\ \A i \in 1..m : d[i] = domain[n - m + i]
  BY SuffixIs
<1> HIDE DEF Rests
<1>8. ASSUME m >= 1, m <= n, \A i \in 1..m : d[i] = domain[n - m + i]
      PROVE  n - m + 1 \in 1..n /\ Rests(n - m + 1) = d
  <2> DEFINE k == n - m + 1
  <2>1. k \in 1..n /\ n - k + 1 = m /\ \A i \in 1..m : k - 1 + i = n - m + i
    BY <1>1, <1>8
  <2> HIDE DEF k
  <2> DEFINE r == Rests(k)
  <2>2. r \in Seq(X) /\ Len(r) = n - k + 1 /\ \A i \in 1..n - k + 1 : r[i] = domain[k - 1 + i]
    BY <1>3, <2>1
  <2> HIDE DEF r
  <2>3. r \in Seq(X) /\ Len(r) = m /\ \A i \in 1..m : r[i] = d[i]
    BY <1>8, <2>1, <2>2
  <2>4. r = d
    BY <2>3, SeqEqual
  <2> QED BY <2>1, <2>4 DEF r, k
<1>9. ASSUME NEW k \in 1..n, Rests(k) = d
      PROVE  m >= 1 /\ m <= n /\ \A i \in 1..m : d[i] = domain[n - m + i]
  <2>1. /\ Len(d) = n - k + 1
        /\ \A i \in 1..n - k + 1 : d[i] = domain[k - 1 + i]
    BY <1>3, <1>9
  <2>2. m = n - k + 1 /\ m >= 1 /\ m <= n /\ \A i \in 1..m : k - 1 + i = n - m + i
    BY <1>1, <2>1
  <2> QED BY <2>1, <2>2
<1> QED BY <1>2, <1>4, <1>5, <1>6, <1>7, <1>8, <1>9

\* A cookie for ".x" is not sent to "x".
LEMMA DomainMissed ==
  ASSUME NEW X, NEW domain \in Seq(X), NEW d \in Seq(X), d = <<".">> \o domain
  PROVE  ~cwh_domain_match(domain, d)
<1> DEFINE n == Len(domain)  Y == X \cup {"."}
<1>1. domain \in Seq(Y) /\ "." \in Y
  OBVIOUS
<1>2. Len(d) = n + 1 /\ n \in Nat
  <2> HIDE DEF Y
  <2> QED BY <1>1, Prepended
<1>3. d # domain
  <2>1. d = domain => n = n + 1
    BY <1>2
  <2> QED BY <1>2, <2>1
<1>4. ~(n >= Len(d))
  BY <1>2
<1> QED BY <1>3, <1>4 DEF cwh_domain_match

\* cwh_path_match asks for the cookie's path at the beginning.
LEMMA PathMatches ==
  ASSUME NEW X, NEW path \in Seq(X), NEW p \in Seq(X)
  PROVE  cwh_path_match(path, p) <=> At(path, 1, p)
<1>0. Len(p) \in Nat /\ Len(path) \in Nat
  OBVIOUS
<1> DEFINE b == SubSeq(path, 1, Len(p))
<1>1. At(path, 1, p) <=> Len(p) <= Len(path) /\ b = p
  <2>1. 1 + Len(p) - 1 = Len(p) /\ (1 + Len(p) <= Len(path) + 1 <=> Len(p) <= Len(path))
    BY <1>0
  <2> QED BY <2>1 DEF At, End
<1>2. cwh_path_match(path, p) <=> Len(p) <= Len(path) /\ SubSeq(p, 1, Len(p)) = b
  BY DEF cwh_path_match, IsPrefix
<1>3. SubSeq(p, 1, Len(p)) = p
  OBVIOUS
<1> QED BY <1>1, <1>2, <1>3

\* What the headers of the text must be: those of CookieAssumption.
Wellmade(p) == /\ p.set.name # Separator[1] /\ IsList(p.set.value)
               /\ IsList(p.from) /\ IsList(p.set.attributes)
               /\ \A i \in DOMAIN p.set.attributes : IsList(p.set.attributes[i].value)

\* Headers that are well made make cookies that are.
LEMMA MadeWell ==
  ASSUME NEW P, \A p \in P : Wellmade(p)
  PROVE  Nameable(Makes(P)) /\ \A c \in Makes(P) : IsList(c.domain) /\ IsList(c.path)
<1>1. ASSUME NEW p \in P
      PROVE  LET c == Cookie(p.from, p.set)
             IN  /\ c.name # Separator[1] /\ IsList(c.value)
                 /\ IsList(c.domain) /\ IsList(c.path)
  <2>1. /\ p.set.name # Separator[1] /\ IsList(p.set.value)
        /\ IsList(p.set.attributes) /\ IsList(p.from)
        /\ \A i \in DOMAIN p.set.attributes : IsList(p.set.attributes[i].value)
    BY DEF Wellmade
  <2> QED BY <2>1, CookieTyped
<1> QED BY <1>1 DEF Nameable, Makes

\* The cookies of the text are made one by one.
LEMMA NthMade ==
  ASSUME NEW P, text \in Seq(P)
  PROVE  /\ Made(text) \in Seq(Makes(P)) /\ Len(Made(text)) = Len(text)
         /\ \A i \in 1..Len(text) : Made(text)[i] = Nth(i) /\ Nth(i) \in Makes(P)
<1>1. DOMAIN text = 1..Len(text) /\ Len(text) \in Nat
  OBVIOUS
<1>2. \A i \in 1..Len(text) : Nth(i) \in Makes(P)
  BY DEF Nth, Makes
<1>3. Made(text) = [i \in 1..Len(text) |-> Nth(i)]
  BY <1>1 DEF Made, Nth
<1> QED BY <1>1, <1>2, <1>3

\* A cookie is current when it has a name and is not replaced.
LEMMA CurrentIs ==
  ASSUME NEW P, text \in Seq(P), NEW i \in 1..Len(text)
  PROVE  Current(i) <=> Nth(i).name # NoName /\ ~Replaced(Made(text), i)
<1> DEFINE cs == Made(text)
<1>1. Len(cs) = Len(text) /\ \A j \in 1..Len(text) : cs[j] = Nth(j)
  BY NthMade
<1>2. \A j \in i + 1..Len(text) : j \in 1..Len(text)
  OBVIOUS
<1> HIDE DEF cs
<1>3. Replaced(cs, i) <=> \E j \in i + 1..Len(text) : SameCookie(Nth(i), Nth(j))
  BY <1>1, <1>2 DEF Replaced
<1>4. \A a, b : a.name # NoName =>
        (SameCookie(a, b) <=> <<b.name, b.domain, b.path>> = <<a.name, a.domain, a.path>>)
  BY DEF SameCookie
<1> QED BY <1>3, <1>4 DEF Current, cs

\* A cookie is sent where it belongs, except for those that are missed.
LEMMA BelongsIs ==
  ASSUME NEW i \in DOMAIN text, NEW domain, NEW path, IsList(domain), IsList(path),
         IsList(Nth(i).domain), IsList(Nth(i).path)
  PROVE  Belongs(i, domain, path) /\ i \notin Missed(domain) <=> Matches(Nth(i), domain, path)
<1> DEFINE d == Nth(i).domain  p == Nth(i).path  dot == <<".">>
           Below == At(d, 1, dot) /\ \E k \in 1..Len(domain) : Cut(domain, k, End(domain)) = d
<1>1. /\ cwh_domain_match(domain, d) <=> d = domain \/ Below
      /\ d = dot \o domain => ~cwh_domain_match(domain, d)
  <2>1. PICK X : domain \in Seq(X) /\ d \in Seq(X)
    BY SameSet
  <2> HIDE DEF d
  <2> QED BY <2>1, DomainMatches, DomainMissed
<1>2. cwh_path_match(path, p) <=> At(path, 1, p)
  <2>1. PICK X : path \in Seq(X) /\ p \in Seq(X)
    BY SameSet
  <2> HIDE DEF p
  <2> QED BY <2>1, PathMatches
<1>3. i \in Missed(domain) <=> d = dot \o domain
  BY DEF Missed
<1>4. Belongs(i, domain, path) <=> (d = domain \/ Below \/ d = dot \o domain) /\ At(path, 1, p)
  BY DEF Belongs
<1>5. Matches(Nth(i), domain, path) <=> cwh_domain_match(domain, d) /\ cwh_path_match(path, p)
  BY DEF Matches
<1> HIDE DEF d, p, Below, dot
<1> QED BY <1>1, <1>2, <1>3, <1>4, <1>5

\* Newest, one cookie after the other.
Owed(x, i, S) == IF i \in S THEN Push(Pair(Nth(i)), x) ELSE x
DueStep(J, S) == [x \in Seq(J) \X DOMAIN text |-> Owed(x[1], x[2], S)]
Numbers == [i \in DOMAIN text |-> i]

\* Newest is a fold of Owed.
LEMMA DueFolded ==
  ASSUME NEW P, text \in Seq(P), NEW S
  PROVE  LET J == Items(Makes(P))
         IN  /\ Foldable(Seq(J), DOMAIN text, DueStep(J, S), <<>>, Numbers)
             /\ Newest(S) = Folded(DueStep(J, S), <<>>, Numbers)
<1> DEFINE J == Items(Makes(P))  V == Seq(J)  h == DueStep(J, S)  D == DOMAIN text
           seq == Numbers
           op(x, i) == Owed(x, i, S)
           Iter(g) == g = [s \in SUBSET (DOMAIN seq) |->
                             IF s = {} THEN <<>> ELSE op(g[s \ {Max(s)}], seq[Max(s)])]
           c == CHOOSE g : Iter(g)
<1>1. Newest(S) = c[DOMAIN seq]
  BY DEF Newest, Owed, Push, Numbers, FoldLeft, MapThenFoldSet
<1>2. \A x \in V, a \in D : op(x, a) \in V
  <2>1. \A a \in D : Pair(Nth(a)) \in J
    BY NthMade DEF Items
  <2> HIDE DEF J
  <2>2. \A x \in V, a \in D : Push(Pair(Nth(a)), x) \in V
    BY <2>1, Prepended DEF Push
  <2> QED BY <2>2 DEF Owed
<1>3. \A x \in V, a \in D : h[<<x, a>>] = op(x, a)
  BY DEF DueStep
<1>4. h \in [V \X D -> V]
  <2>1. h = [x \in V \X D |-> op(x[1], x[2])]
    BY DEF DueStep
  <2>2. \A x \in V \X D : x[1] \in V /\ x[2] \in D
    OBVIOUS
  <2> HIDE DEF h, V, D, op
  <2> QED BY <1>2, <2>1, <2>2
<1>5. <<>> \in V /\ seq \in Seq(D)
  BY DEF Numbers
<1> HIDE DEF V, h, op, D, seq
<1>6. Foldable(V, D, h, <<>>, seq)
  BY <1>4, <1>5 DEF Foldable
<1>7. PICK g \in [SUBSET (DOMAIN seq) -> V] : IsIter(g, h, <<>>, seq)
  BY <1>6, IterExists DEF Foldable
<1>8. \A s \in SUBSET (DOMAIN seq) : s # {} => seq[Max(s)] \in D /\ s \ {Max(s)} \in SUBSET (DOMAIN seq)
  BY <1>5, IterStep
<1>9. Iter(g)
  <2>1. \A s \in SUBSET (DOMAIN seq) : s # {} =>
          h[<<g[s \ {Max(s)}], seq[Max(s)]>>] = op(g[s \ {Max(s)}], seq[Max(s)])
    BY <1>3, <1>7, <1>8
  <2> QED BY <1>7, <2>1 DEF IsIter
<1>10. Iter(c)
  <2> HIDE DEF Iter
  <2> QED BY <1>9
<1> HIDE DEF c
<1>11. Iterates(c, V, h, <<>>, seq)
  <2>1. \A s \in SUBSET (DOMAIN seq) : s # {} /\ c[s \ {Max(s)}] \in V =>
          h[<<c[s \ {Max(s)}], seq[Max(s)]>>] = op(c[s \ {Max(s)}], seq[Max(s)])
    BY <1>3, <1>8
  <2> QED BY <1>10, <2>1 DEF Iterates
<1>12. c[DOMAIN seq] = Folded(h, <<>>, seq)
  BY <1>6, <1>11, IteratedIs
<1> QED BY <1>1, <1>6, <1>12 DEF V, h, D, seq

\* What is sent from the jar is what is due.
LEMMA JarGives ==
  ASSUME NEW P, text \in Seq(P), \A p \in P : Wellmade(p),
         NEW domain, NEW path, IsList(domain), IsList(path)
  PROVE  /\ JarOf(text) \in Seq(Makes(P)) /\ Nameable(Makes(P))
         /\ Given(Makes(P), JarOf(text), domain, path) = Newest(Due(domain, path) \ Missed(domain))
<1> DEFINE cs == Made(text)  C == Makes(P)  J == Items(C)  S == Due(domain, path) \ Missed(domain)
           h == DueStep(J, S)  K(s) == Given(C, s, domain, path)  n == Len(text)
<1>1. cs \in Seq(C) /\ Len(cs) = n /\ n \in Nat
      /\ \A i \in 1..n : cs[i] = Nth(i) /\ Nth(i) \in C
  BY NthMade
<1>2. Nameable(C) /\ \A c \in C : IsList(c.domain) /\ IsList(c.path)
  BY MadeWell
<1>3. PICK v : IsKept(v, cs)
  <2> HIDE DEF cs, C
  <2> QED BY <1>1, KeptExists
<1>4. JarOf(text) = v[n]
  BY <1>3, JarKeeps
<1>5. /\ Foldable(Seq(J), DOMAIN text, h, <<>>, Numbers)
      /\ Newest(S) = Folded(h, <<>>, Numbers)
  BY DueFolded
<1>6. DOMAIN text = 1..n /\ Len(Numbers) = n /\ \A i \in 1..n : Numbers[i] = i
  BY DEF Numbers
<1>7. \A x \in Seq(J), i \in 1..n : h[<<x, i>>] = Owed(x, i, S)
  BY <1>6 DEF DueStep
<1>8. \A i \in 1..n : Current(i) <=> Nth(i).name # NoName /\ ~Replaced(cs, i)
  BY CurrentIs
<1>9. \A i \in 1..n : Belongs(i, domain, path) /\ i \notin Missed(domain)
                         <=> Matches(Nth(i), domain, path)
  BY <1>1, <1>2, <1>6, BelongsIs
<1>17. \A i \in 1..n : i \in S <=> /\ Current(i) /\ Belongs(i, domain, path)
                                    /\ i \notin Missed(domain)
  BY <1>6 DEF Due
<1> HIDE DEF cs, C, h, n, S
<1>10. /\ v[0] = <<>> /\ \A i \in 0..n : v[i] \in Seq(C)
       /\ \A i \in 1..n : v[i] = IF Replaced(cs, i) THEN v[i - 1] ELSE Push(cs[i], v[i - 1])
  BY <1>1, <1>3, KeptSteps
<1>11. K(<<>>) = <<>> /\ \A s \in Seq(C) : K(s) \in Seq(J)
  <2>1. Gives(C, domain, path)
    BY GivenSteps
  <2>2. K(<<>>) = <<>> /\ \A s \in Seq(C), c \in C : K(s) \in Seq(J)
    BY <2>1 DEF Gives
  <2> HIDE DEF K, J
  <2>3. ASSUME NEW s \in Seq(C), C = {} PROVE s = <<>>
    BY <2>3
  <2>4. <<>> \in Seq(J)
    OBVIOUS
  <2> QED BY <2>2, <2>3, <2>4
<1>12. \A x \in C, s \in Seq(C) :
         K(Push(x, s)) = IF Fits(x, domain, path) THEN Push(Pair(x), K(s)) ELSE K(s)
  BY GivenFirst
<1> DEFINE r == [i \in 0..n |-> K(v[i])]
<1> HIDE DEF K
<1>13. ASSUME NEW i \in 1..n PROVE K(v[i]) = Owed(K(v[i - 1]), i, S)
  <2>1. v[i - 1] \in Seq(C) /\ cs[i] = Nth(i) /\ Nth(i) \in C
    <3>1. i - 1 \in 0..n
      BY <1>1
    <3> QED BY <1>1, <1>10, <3>1
  <2>2. v[i] = IF Replaced(cs, i) THEN v[i - 1] ELSE Push(Nth(i), v[i - 1])
    BY <1>10, <2>1
  <2>3. K(Push(Nth(i), v[i - 1]))
          = IF Fits(Nth(i), domain, path) THEN Push(Pair(Nth(i)), K(v[i - 1])) ELSE K(v[i - 1])
    BY <1>12, <2>1
  <2>4. i \in S <=> Fits(Nth(i), domain, path) /\ ~Replaced(cs, i)
    BY <1>8, <1>9, <1>17 DEF Fits
  <2> QED BY <2>2, <2>3, <2>4 DEF Owed
<1>14. Follows(r, Seq(J), h, <<>>, Numbers, n)
  <2>1. r[0] = <<>>
    BY <1>1, <1>10, <1>11
  <2>2. ASSUME NEW i \in 1..n, r[i - 1] \in Seq(J) PROVE r[i] = h[<<r[i - 1], Numbers[i]>>]
    <3>1. i \in 0..n /\ i - 1 \in 0..n
      BY <1>1
    <3>2. r[i] = K(v[i]) /\ r[i - 1] = K(v[i - 1])
      BY <3>1
    <3> HIDE DEF r
    <3> QED BY <1>6, <1>7, <1>13, <2>2, <3>2
  <2> QED BY <2>1, <2>2 DEF Follows
<1>15. Folded(h, <<>>, Numbers) = r[n]
  <2> HIDE DEF r, J
  <2> QED BY <1>5, <1>6, <1>14, FoldedIs
<1>16. r[n] = K(v[n])
  BY <1>1
<1>18. v[n] \in Seq(C)
  BY <1>1, <1>10
<1> QED BY <1>2, <1>4, <1>5, <1>15, <1>16, <1>18 DEF K, S, C

\* cwh_cookie_jar_get sends, to every domain and path for which what is due fits
\* cookie_str, and whatever headers the jar was made from, the cookies that belong
\* there, each with the value set last, newest first, and none that has been
\* replaced; but it does not send a cookie for ".x" to "x" itself.
THEOREM CookiesAreCurrent == Spec => []CookiesCurrent
<1>1. TInv => CookiesCurrent
  <2> SUFFICES ASSUME TInv, Is("cookies"),
                      NEW domain \in subject.domains, NEW path \in subject.paths
               PROVE  LET str == cwh_cookie_jar_get(Jar, domain, path)
                      IN  str.offset < CookieRoom =>
                            Cookies(str.pieces) = Newest(Due(domain, path) \ Missed(domain))
    BY DEF CookiesCurrent
  <2> DEFINE P == Pieces["cookies"]
  <2>1. subject \in Subjects /\ subject.kind = "cookies"
    BY DEF TInv, Is
  <2>2. text \in Seq(P)
    BY <2>1 DEF TInv
  <2>3. /\ IsList(domain) /\ IsList(path)
        /\ \A p \in P : Wellmade(p)
    BY <2>1, CookieAssumption DEF Wellmade, Separator
  <2>4. Jar = JarOf(text)
    BY DEF Jar, JarOf
  <2> HIDE DEF P
  <2> DEFINE C == Makes(P)
  <2>5. /\ JarOf(text) \in Seq(C) /\ Nameable(C)
        /\ Given(C, JarOf(text), domain, path) = Newest(Due(domain, path) \ Missed(domain))
    BY <2>2, <2>3, JarGives
  <2> HIDE DEF C
  <2> QED BY <2>4, <2>5, GetGives
<1> QED BY <1>1, TInvariance, PTL

-----------------------------------------------------------------------------
(***************************************************************************)
(* Recursion                                                               *)
(***************************************************************************)

\* A recursion on a number that goes down: what B makes of a function depends
\* only on its values at lower rank.
Ranked(D, V, B, rank) ==
  /\ B \in [[D -> V] -> [D -> V]] /\ rank \in [D -> Nat]
  /\ \A f, g \in [D -> V], i \in D :
       (\A j \in D : rank[j] < rank[i] => f[j] = g[j]) => B[f][i] = B[g][i]

\* The functions the recursion goes through.
Rounds(D, V, B) == [x \in [D -> V] \X {0} |-> B[x[1]]]
Round(D, V, B, base, k) == Folded(Rounds(D, V, B), base, [j \in 1..k |-> 0])

\* They are functions from D to V, each made from the one before.
GoesOn(D, V, B, base) ==
  \A k \in Nat : /\ Round(D, V, B, base, k) \in [D -> V]
                 /\ Round(D, V, B, base, k + 1) = B[Round(D, V, B, base, k)]

\* So they are, whatever B is and from wherever they begin.
LEMMA RoundSteps ==
  ASSUME NEW D, NEW V, NEW B, B \in [[D -> V] -> [D -> V]], NEW base, base \in [D -> V]
  PROVE  GoesOn(D, V, B, base)
<1> DEFINE S(k) == [j \in 1..k |-> 0]
           h == Rounds(D, V, B)
           F == [D -> V]
<1> SUFFICES ASSUME NEW k \in Nat
             PROVE  /\ Folded(h, base, S(k)) \in F
                    /\ Folded(h, base, S(k + 1)) = B[Folded(h, base, S(k))]
  BY DEF Round, GoesOn
<1>1. S(k) \in Seq({0}) /\ S(k + 1) = Append(S(k), 0)
  <2>1. S(k) \in Seq({0}) /\ Len(S(k)) = k
    OBVIOUS
  <2>2. S(k + 1) \in Seq({0}) /\ Len(S(k + 1)) = k + 1
    OBVIOUS
  <2>3. Append(S(k), 0) \in Seq({0}) /\ Len(Append(S(k), 0)) = k + 1
    BY <2>1
  <2>4. \A i \in 1..k + 1 : Append(S(k), 0)[i] = 0 /\ S(k + 1)[i] = 0
    BY <2>1
  <2> HIDE DEF S
  <2> QED BY <2>1, <2>2, <2>3, <2>4, SeqEqual
<1>2. h \in [F \X {0} -> F]
  BY DEF Rounds
<1>3. Foldable(F, {0}, h, base, S(k))
  <2> HIDE DEF h, S, F
  <2>1. base \in F
    BY DEF F
  <2> QED BY <1>1, <1>2, <2>1 DEF Foldable
<1>4. /\ Folded(h, base, S(k)) \in F
      /\ Folded(h, base, Append(S(k), 0)) = h[<<Folded(h, base, S(k)), 0>>]
  <2> HIDE DEF h, S, F
  <2>1. 0 \in {0}
    OBVIOUS
  <2> QED BY <1>3, <2>1, FoldedAppend
<1>5. \A g \in F : h[<<g, 0>>] = B[g]
  BY DEF Rounds
<1> HIDE DEF h, S, F
<1> QED BY <1>1, <1>4, <1>5

\* Such a recursion has a function.
LEMMA RecursionExists ==
  ASSUME NEW D, NEW V, NEW B, NEW rank, Ranked(D, V, B, rank), NEW base \in [D -> V]
  PROVE  \E f \in [D -> V] : f = B[f]
<1> DEFINE G(k) == Round(D, V, B, base, k)
           f == [i \in D |-> G(rank[i] + 1)[i]]
           P == {k \in Nat : \A i \in D : rank[i] < k => G(k + 1)[i] = G(k)[i]}
           Q == {k \in Nat : \A i \in D : rank[i] < k => G(k)[i] = f[i]}
<1>1. /\ B \in [[D -> V] -> [D -> V]] /\ rank \in [D -> Nat]
      /\ \A p, g \in [D -> V], i \in D :
           (\A j \in D : rank[j] < rank[i] => p[j] = g[j]) => B[p][i] = B[g][i]
  BY DEF Ranked
<1>2. \A k \in Nat : G(k) \in [D -> V] /\ G(k + 1) = B[G(k)]
  <2>1. B \in [[D -> V] -> [D -> V]]
    BY <1>1
  <2>2. base \in [D -> V]
    OBVIOUS
  <2>3. GoesOn(D, V, B, base)
    BY <2>1, <2>2, RoundSteps
  <2> QED BY <2>3 DEF GoesOn
<1> HIDE DEF G
<1>3. \A k \in Nat : k \in P
  <2>1. 0 \in P
    BY <1>1
  <2>2. ASSUME NEW k \in Nat, k \in P PROVE k + 1 \in P
    <3> DEFINE m == k + 1
    <3> SUFFICES ASSUME NEW i \in D, rank[i] < m PROVE G(m + 1)[i] = G(m)[i]
      OBVIOUS
    <3>1. m \in Nat /\ rank[i] \in Nat /\ \A j \in D : rank[j] \in Nat
      BY <1>1
    <3>2. \A j \in D : rank[j] < rank[i] => G(m)[j] = G(k)[j]
      BY <2>2, <3>1
    <3>3. G(m) = B[G(k)] /\ G(m + 1) = B[G(m)] /\ G(m) \in [D -> V] /\ G(k) \in [D -> V]
      BY <1>2, <3>1
    <3> HIDE DEF m
    <3> QED BY <1>1, <3>2, <3>3
  <2> HIDE DEF P
  <2> QED BY <2>1, <2>2, Induction
<1>4. \A k \in Nat : k \in Q
  <2>1. 0 \in Q
    BY <1>1
  <2>2. ASSUME NEW k \in Nat, k \in Q PROVE k + 1 \in Q
    <3> DEFINE m == k + 1
    <3> SUFFICES ASSUME NEW i \in D, rank[i] < m PROVE G(m)[i] = f[i]
      OBVIOUS
    <3>1. rank[i] \in Nat /\ m \in Nat
      BY <1>1
    <3>2. CASE rank[i] = k
      BY <3>2
    <3>3. CASE rank[i] < k
      <4>1. G(k + 1)[i] = G(k)[i]
        BY <1>3, <3>3
      <4>2. G(k)[i] = f[i]
        BY <2>2, <3>3
      <4> QED BY <4>1, <4>2
    <3> QED BY <3>1, <3>2, <3>3
  <2> HIDE DEF Q
  <2> QED BY <2>1, <2>2, Induction
<1>5. f \in [D -> V]
  <2>1. ASSUME NEW i \in D PROVE G(rank[i] + 1)[i] \in V
    <3>1. rank[i] + 1 \in Nat
      BY <1>1
    <3> QED BY <1>2, <3>1
  <2> QED BY <2>1
<1>6. ASSUME NEW i \in D PROVE f[i] = B[f][i]
  <2> DEFINE r == rank[i]
  <2>1. r \in Nat /\ f[i] = G(r + 1)[i]
    BY <1>1
  <2>2. \A j \in D : rank[j] < rank[i] => f[j] = G(r)[j]
    BY <1>4, <2>1
  <2>3. G(r) \in [D -> V] /\ G(r + 1) = B[G(r)]
    BY <1>2, <2>1
  <2> HIDE DEF f, r
  <2>4. B[f][i] = B[G(r)][i]
    BY <1>1, <1>5, <2>2, <2>3
  <2> QED BY <2>1, <2>3, <2>4
<1>7. B[f] \in [D -> V]
  BY <1>1, <1>5
<1> HIDE DEF f
<1>8. f = B[f]
  BY <1>5, <1>6, <1>7
<1> QED BY <1>5, <1>8

-----------------------------------------------------------------------------
(***************************************************************************)
(* Texts and the helpers that scan them                                    *)
(***************************************************************************)

\* s stands in t from position i on, symbol by symbol.
Placed(t, i, s) == /\ i + Len(s) <= Len(t) + 1
                   /\ \A k \in 1..Len(s) : t[i - 1 + k] = s[k]

\* That is what At says.
LEMMA AtPlaced ==
  ASSUME NEW X, NEW t \in Seq(X), NEW s \in Seq(X), NEW i \in 1..End(t)
  PROVE  At(t, i, s) <=> Placed(t, i, s)
<1>0. Len(t) \in Nat /\ Len(s) \in Nat /\ End(t) = Len(t) + 1 /\ i \in Nat /\ i >= 1
  BY DEF End
<1>1. ASSUME i + Len(s) <= End(t)
      PROVE  SubSeq(t, i, i + Len(s) - 1) = s <=> \A k \in 1..Len(s) : t[i - 1 + k] = s[k]
  <2> DEFINE n == i + Len(s) - 1
             p == SubSeq(t, i, n)
  <2>1. i \in 1..Len(t) + 1 /\ n \in i - 1..Len(t) /\ n - i + 1 = Len(s)
    BY <1>0, <1>1
  <2> HIDE DEF n
  <2>2. p \in Seq(X) /\ Len(p) = Len(s) /\ \A k \in 1..Len(s) : p[k] = t[i - 1 + k]
    BY <2>1, CutAt
  <2> HIDE DEF p
  <2>3. (\A k \in 1..Len(s) : p[k] = s[k]) => p = s
    BY <2>2, SeqEqual
  <2>4. p = s <=> \A k \in 1..Len(s) : t[i - 1 + k] = s[k]
    BY <2>2, <2>3
  <2> QED BY <2>4 DEF p, n
<1> QED BY <1>0, <1>1 DEF At, Placed

\* A line ends where both its symbols are.
LEMMA AtLineEnd ==
  ASSUME NEW X, NEW t \in Seq(X), NEW i \in 1..End(t)
  PROVE  At(t, i, CRLF) <=> i + 2 <= End(t) /\ t[i] = CR /\ t[i + 1] = LF
<1> DEFINE Y == X \cup {CR, LF}
<1>1. t \in Seq(Y) /\ CRLF \in Seq(Y) /\ Len(CRLF) = 2 /\ CRLF[1] = CR /\ CRLF[2] = LF
  BY DEF CRLF
<1> HIDE DEF Y
<1>2. At(t, i, CRLF) <=> Placed(t, i, CRLF)
  BY <1>1, AtPlaced
<1>3. i \in Nat /\ i - 1 + 1 = i /\ i - 1 + 2 = i + 1 /\ 1..2 = {1, 2}
  BY DEF End
<1>4. (\A k \in 1..2 : t[i - 1 + k] = CRLF[k]) <=> t[i] = CR /\ t[i + 1] = LF
  BY <1>1, <1>3
<1> QED BY <1>1, <1>2, <1>4 DEF Placed, End

\* The positions the scanning helpers look for.
NotSpaces(t) == {k \in DOMAIN t : t[k] # SP}
Breaks(t) == {k \in DOMAIN t : At(t, k, CRLF)}
PathEnds(t) == {k \in DOMAIN t : EndsPath(t[k])}
NonDigits(t) == {k \in DOMAIN t : ~IsDigit(t[k])}
NulFrom(t, i) == First(i, End(t), LAMBDA j : EndsPath(t[j]))
DigitsFrom(t, i) == First(i, End(t), LAMBDA j : ~IsDigit(t[j]))

\* skip_ws returns the first position without a space.
LEMMA SkipsSpaces ==
  ASSUME NEW X, NEW t \in Seq(X), NEW i \in 1..End(t)
  PROVE  IsFirst(skip_ws(t, i, End(t)), i, End(t), NotSpaces(t))
<1> DEFINE S == {k \in Nat : t[k] # SP}
           f == skip_ws(t, i, End(t))
<1>0. /\ i \in Nat /\ End(t) \in Nat /\ i <= End(t) /\ DOMAIN t = 1..Len(t)
      /\ Len(t) \in Nat /\ End(t) = Len(t) + 1
  BY DEF End
<1>1. PICK j \in i..End(t) : (j = End(t) \/ j \in S) /\ \A k \in i..j - 1 : k \notin S
  <2> HIDE DEF S
  <2> QED BY <1>0, FirstExists
<1>2. (j = End(t) \/ t[j] # SP) /\ \A k \in i..j - 1 : ~(t[k] # SP)
  BY <1>0, <1>1
<1>3. f \in i..End(t) /\ (f = End(t) \/ t[f] # SP) /\ \A k \in i..f - 1 : ~(t[k] # SP)
  BY <1>2 DEF skip_ws, First
<1> HIDE DEF f
<1>4. f < End(t) => f \in DOMAIN t
  BY <1>0, <1>3
<1>5. IsFirst(f, i, End(t), NotSpaces(t))
  BY <1>0, <1>3, <1>4 DEF IsFirst, NotSpaces
<1> QED BY <1>5 DEF f

\* skip_to_crlf returns the first end of a line.
LEMMA SkipsToBreak ==
  ASSUME NEW X, NEW t \in Seq(X), NEW i \in 1..End(t)
  PROVE  IsFirst(skip_to_crlf(t, i), i, End(t), Breaks(t))
<1> DEFINE S == {k \in Nat : At(t, k, CRLF)}
           f == skip_to_crlf(t, i)
<1>0. /\ i \in Nat /\ End(t) \in Nat /\ i <= End(t) /\ DOMAIN t = 1..Len(t)
      /\ Len(t) \in Nat /\ End(t) = Len(t) + 1
  BY DEF End
<1>1. PICK j \in i..End(t) : (j = End(t) \/ j \in S) /\ \A k \in i..j - 1 : k \notin S
  <2> HIDE DEF S
  <2> QED BY <1>0, FirstExists
<1>2. (j = End(t) \/ At(t, j, CRLF)) /\ \A k \in i..j - 1 : ~(At(t, k, CRLF))
  BY <1>0, <1>1
<1>3. f \in i..End(t) /\ (f = End(t) \/ At(t, f, CRLF)) /\ \A k \in i..f - 1 : ~(At(t, k, CRLF))
  BY <1>2 DEF skip_to_crlf, First
<1> HIDE DEF f
<1>4. f < End(t) => f \in DOMAIN t
  BY <1>0, <1>3
<1>5. IsFirst(f, i, End(t), Breaks(t))
  BY <1>0, <1>3, <1>4 DEF IsFirst, Breaks
<1> QED BY <1>5 DEF f

\* The NUL of a path goes to the first position where paths end.
LEMMA PathEndsAt ==
  ASSUME NEW X, NEW t \in Seq(X), NEW i \in 1..End(t)
  PROVE  IsFirst(NulFrom(t, i), i, End(t), PathEnds(t))
<1> DEFINE S == {k \in Nat : EndsPath(t[k])}
           f == NulFrom(t, i)
<1>0. /\ i \in Nat /\ End(t) \in Nat /\ i <= End(t) /\ DOMAIN t = 1..Len(t)
      /\ Len(t) \in Nat /\ End(t) = Len(t) + 1
  BY DEF End
<1>1. PICK j \in i..End(t) : (j = End(t) \/ j \in S) /\ \A k \in i..j - 1 : k \notin S
  <2> HIDE DEF S
  <2> QED BY <1>0, FirstExists
<1>2. (j = End(t) \/ EndsPath(t[j])) /\ \A k \in i..j - 1 : ~(EndsPath(t[k]))
  BY <1>0, <1>1
<1>3. f \in i..End(t) /\ (f = End(t) \/ EndsPath(t[f])) /\ \A k \in i..f - 1 : ~(EndsPath(t[k]))
  BY <1>2 DEF NulFrom, First
<1> HIDE DEF f
<1>4. f < End(t) => f \in DOMAIN t
  BY <1>0, <1>3
<1>5. IsFirst(f, i, End(t), PathEnds(t))
  BY <1>0, <1>3, <1>4 DEF IsFirst, PathEnds
<1> QED BY <1>5 DEF f

\* A number ends at the first position without a digit.
LEMMA DigitsEndAt ==
  ASSUME NEW X, NEW t \in Seq(X), NEW i \in 1..End(t)
  PROVE  IsFirst(DigitsFrom(t, i), i, End(t), NonDigits(t))
<1> DEFINE S == {k \in Nat : ~IsDigit(t[k])}
           f == DigitsFrom(t, i)
<1>0. /\ i \in Nat /\ End(t) \in Nat /\ i <= End(t) /\ DOMAIN t = 1..Len(t)
      /\ Len(t) \in Nat /\ End(t) = Len(t) + 1
  BY DEF End
<1>1. PICK j \in i..End(t) : (j = End(t) \/ j \in S) /\ \A k \in i..j - 1 : k \notin S
  <2> HIDE DEF S
  <2> QED BY <1>0, FirstExists
<1>2. (j = End(t) \/ ~IsDigit(t[j])) /\ \A k \in i..j - 1 : ~(~IsDigit(t[k]))
  BY <1>0, <1>1
<1>3. f \in i..End(t) /\ (f = End(t) \/ ~IsDigit(t[f])) /\ \A k \in i..f - 1 : ~(~IsDigit(t[k]))
  BY <1>2 DEF DigitsFrom, First
<1> HIDE DEF f
<1>4. f < End(t) => f \in DOMAIN t
  BY <1>0, <1>3
<1>5. IsFirst(f, i, End(t), NonDigits(t))
  BY <1>0, <1>3, <1>4 DEF IsFirst, NonDigits
<1> QED BY <1>5 DEF f

\* The length of two sequences joined.
LEMMA JoinLen ==
  ASSUME NEW X, NEW a \in Seq(X), NEW b \in Seq(X)
  PROVE  a \o b \in Seq(X) /\ Len(a \o b) = Len(a) + Len(b) /\ Len(a) \in Nat /\ Len(b) \in Nat
<1> DEFINE j == Joined(a, b)
<1>1. IsJoin(X, a, b, j)
  BY JoinedAt
<1> HIDE DEF j
<1>2. j \in Seq(X) /\ Len(j) = Len(a) + Len(b) /\ Len(a) \in Nat /\ Len(b) \in Nat
  BY <1>1 DEF IsJoin
<1> QED BY <1>2 DEF j, Joined

\* What stands in a text as two parts joined is each of them in its place.
LEMMA PlacedSplit ==
  ASSUME NEW X, NEW a \in Seq(X), NEW b \in Seq(X), NEW t, Len(t) \in Nat, NEW i \in Nat,
         Placed(t, i, a \o b)
  PROVE  Placed(t, i, a) /\ Placed(t, i + Len(a), b) /\ i + Len(a) \in Nat
<1> DEFINE j == Joined(a, b)
<1>1. IsJoin(X, a, b, j) /\ Placed(t, i, j)
  BY JoinedAt DEF Joined
<1> HIDE DEF j
<1>2. /\ Len(j) = Len(a) + Len(b) /\ Len(a) \in Nat /\ Len(b) \in Nat
      /\ \A k \in 1..Len(a) : j[k] = a[k]
      /\ \A k \in 1..Len(b) : j[Len(a) + k] = b[k]
  BY <1>1 DEF IsJoin
<1>3. i + Len(j) <= Len(t) + 1 /\ \A k \in 1..Len(j) : t[i - 1 + k] = j[k]
  BY <1>1 DEF Placed
<1>4. Placed(t, i, a)
  BY <1>2, <1>3 DEF Placed
<1>5. Placed(t, i + Len(a), b)
  <2>1. i + Len(a) + Len(b) <= Len(t) + 1
    BY <1>2, <1>3
  <2>2. ASSUME NEW k \in 1..Len(b) PROVE t[i + Len(a) - 1 + k] = b[k]
    <3>1. Len(a) + k \in 1..Len(j) /\ i - 1 + (Len(a) + k) = i + Len(a) - 1 + k
      BY <1>2
    <3>2. t[i - 1 + (Len(a) + k)] = j[Len(a) + k]
      BY <1>3, <3>1
    <3> QED BY <1>2, <3>1, <3>2
  <2> QED BY <2>1, <2>2 DEF Placed
<1> QED BY <1>2, <1>4, <1>5

\* One symbol in its place.
LEMMA PlacedOne ==
  ASSUME NEW t, Len(t) \in Nat, NEW i \in Nat, NEW c, Placed(t, i, <<c>>)
  PROVE  i < Len(t) + 1 /\ t[i] = c
<1>1. Len(<<c>>) = 1 /\ <<c>>[1] = c /\ 1 \in 1..1 /\ i - 1 + 1 = i
  OBVIOUS
<1>2. i + 1 <= Len(t) + 1 /\ \A k \in 1..1 : t[i - 1 + k] = <<c>>[k]
  BY <1>1 DEF Placed
<1>3. t[i - 1 + 1] = <<c>>[1]
  BY <1>1, <1>2
<1> QED BY <1>1, <1>2, <1>3

\* Two symbols in their place.
LEMMA PlacedTwo ==
  ASSUME NEW t, Len(t) \in Nat, NEW i \in Nat, NEW c, NEW d, Placed(t, i, <<c, d>>)
  PROVE  i + 2 <= Len(t) + 1 /\ t[i] = c /\ t[i + 1] = d
<1> DEFINE s == <<c, d>>
<1>1. Len(s) = 2 /\ s[1] = c /\ s[2] = d /\ i - 1 + 1 = i /\ i - 1 + 2 = i + 1
  OBVIOUS
<1>2. 1 \in 1..2 /\ 2 \in 1..2
  OBVIOUS
<1> HIDE DEF s
<1>3. i + 2 <= Len(t) + 1 /\ \A k \in 1..2 : t[i - 1 + k] = s[k]
  <2>1. Placed(t, i, s)
    BY DEF s
  <2> QED BY <1>1, <2>1 DEF Placed
<1>4. t[i - 1 + 1] = s[1] /\ t[i - 1 + 2] = s[2]
  BY <1>2, <1>3
<1> QED BY <1>1, <1>3, <1>4

\* What stands in a text is what is cut from it.
LEMMA PlacedCut ==
  ASSUME NEW X, NEW t \in Seq(X), NEW s \in Seq(X), NEW i \in 1..End(t), Placed(t, i, s)
  PROVE  Cut(t, i, i + Len(s)) = s /\ i + Len(s) \in i..End(t)
<1>0. /\ Len(t) \in Nat /\ End(t) = Len(t) + 1 /\ Len(s) \in Nat
      /\ i + Len(s) <= End(t) /\ \A k \in 1..Len(s) : t[i - 1 + k] = s[k]
  BY DEF End, Placed
<1> DEFINE j == i + Len(s)
           c == Cut(t, i, j)
<1>1. j \in i..End(t) /\ j - i = Len(s)
  BY <1>0
<1> HIDE DEF j
<1>2. c \in Seq(X) /\ Len(c) = j - i /\ \A k \in 1..j - i : c[k] = t[i - 1 + k]
  BY <1>1, CutHas
<1> HIDE DEF c
<1>3. c = s
  BY <1>0, <1>1, <1>2, SeqEqual
<1> QED BY <1>1, <1>3 DEF c, j

-----------------------------------------------------------------------------
(***************************************************************************)
(* The beginning of a text                                                 *)
(***************************************************************************)

\* Where a first position has been found, more text does not change it.
LEMMA FirstStays ==
  ASSUME NEW i \in Nat, NEW stop \in Nat, NEW more \in Nat, stop <= more, NEW S, NEW T, NEW j,
         IsFirst(j, i, stop, S), j < stop, j \in T, \A k \in i..j - 1 : k \notin S => k \notin T
  PROVE  IsFirst(j, i, more, T)
  BY DEF IsFirst

\* t is the beginning of w.
Begins(t, w) == Len(t) <= Len(w) /\ \A k \in 1..Len(t) : t[k] = w[k]

\* find_char finds the same in the beginning of a text, once it finds something,
LEMMA FoundStays ==
  ASSUME NEW X, NEW t \in Seq(X), NEW w \in Seq(X), Begins(t, w), NEW c, NEW i \in 1..End(t),
         find_char(t, i, End(t), c) < End(t)
  PROVE  find_char(w, i, End(w), c) = find_char(t, i, End(t), c)
<1> DEFINE j == find_char(t, i, End(t), c)
<1>0. /\ Len(t) \in Nat /\ Len(w) \in Nat /\ End(t) = Len(t) + 1 /\ End(w) = Len(w) + 1
      /\ Len(t) <= Len(w) /\ i \in Nat /\ DOMAIN t = 1..Len(t) /\ DOMAIN w = 1..Len(w)
      /\ \A k \in 1..Len(t) : t[k] = w[k]
  BY DEF End, Begins
<1>1. IsFirst(j, i, End(t), Where(t, c))
  <2>1. End(t) \in i..End(t)
    BY <1>0
  <2> QED BY <2>1, FindChar
<1>2. j < End(t)
  OBVIOUS
<1> HIDE DEF j
<1>3. j \in i..Len(t) /\ j \in Where(t, c)
  BY <1>0, <1>1, <1>2 DEF IsFirst
<1>4. \A k \in 1..Len(t) : k \in Where(t, c) <=> k \in Where(w, c)
  BY <1>0 DEF Where
<1>5. j \in Where(w, c) /\ \A k \in i..j - 1 : k \notin Where(t, c) => k \notin Where(w, c)
  BY <1>0, <1>3, <1>4
<1>6. IsFirst(j, i, End(w), Where(w, c))
  <2>1. End(t) \in Nat /\ End(w) \in Nat /\ End(t) <= End(w)
    BY <1>0
  <2> QED BY <1>0, <1>1, <1>2, <1>5, <2>1, FirstStays
<1>7. i \in 1..End(w) /\ End(w) \in i..End(w)
  BY <1>0
<1>8. find_char(w, i, End(w), c) = j
  BY <1>6, <1>7, OneFound
<1> QED BY <1>8 DEF j

\* and between positions both have.
LEMMA FoundWithin ==
  ASSUME NEW X, NEW t \in Seq(X), NEW w \in Seq(X), Begins(t, w), NEW c, NEW i \in 1..End(t),
         NEW e \in i..End(t)
  PROVE  find_char(w, i, e, c) = find_char(t, i, e, c)
<1> DEFINE j == find_char(t, i, e, c)
<1>0. /\ Len(t) \in Nat /\ Len(w) \in Nat /\ End(t) = Len(t) + 1 /\ End(w) = Len(w) + 1
      /\ Len(t) <= Len(w) /\ i \in Nat /\ e \in Nat /\ DOMAIN t = 1..Len(t) /\ DOMAIN w = 1..Len(w)
      /\ \A k \in 1..Len(t) : t[k] = w[k]
  BY DEF End, Begins
<1>1. IsFirst(j, i, e, Where(t, c))
  BY FindChar
<1> HIDE DEF j
<1>2. \A k \in 1..Len(t) : k \in Where(t, c) <=> k \in Where(w, c)
  BY <1>0 DEF Where
<1>3. IsFirst(j, i, e, Where(w, c))
  <2>1. j \in i..e /\ (j = e \/ j \in Where(t, c)) /\ \A k \in i..j - 1 : k \notin Where(t, c)
    BY <1>1 DEF IsFirst
  <2>2. j = e \/ j \in Where(w, c)
    BY <1>0, <1>2, <2>1
  <2>3. \A k \in i..j - 1 : k \in 1..Len(t)
    BY <1>0, <2>1
  <2> QED BY <1>2, <2>1, <2>2, <2>3 DEF IsFirst
<1>4. i \in 1..End(w) /\ e \in i..End(w)
  BY <1>0
<1>5. find_char(w, i, e, c) = j
  BY <1>3, <1>4, OneFound
<1> QED BY <1>5 DEF j

\* skip_ws stops at the same place once it stops,
LEMMA SpacesStay ==
  ASSUME NEW X, NEW t \in Seq(X), NEW w \in Seq(X), Begins(t, w), NEW i \in 1..End(t),
         skip_ws(t, i, End(t)) < End(t)
  PROVE  skip_ws(w, i, End(w)) = skip_ws(t, i, End(t))
<1> DEFINE j == skip_ws(t, i, End(t))
           k == skip_ws(w, i, End(w))
<1>0. /\ Len(t) \in Nat /\ Len(w) \in Nat /\ End(t) = Len(t) + 1 /\ End(w) = Len(w) + 1
      /\ Len(t) <= Len(w) /\ i \in Nat /\ DOMAIN t = 1..Len(t) /\ DOMAIN w = 1..Len(w)
      /\ \A n \in 1..Len(t) : t[n] = w[n]
  BY DEF End, Begins
<1>1. IsFirst(j, i, End(t), NotSpaces(t)) /\ j < End(t)
  BY SkipsSpaces
<1>2. i \in 1..End(w)
  BY <1>0
<1>3. IsFirst(k, i, End(w), NotSpaces(w))
  BY <1>2, SkipsSpaces
<1> HIDE DEF j, k
<1>4. \A n \in 1..Len(t) : n \in NotSpaces(t) <=> n \in NotSpaces(w)
  BY <1>0 DEF NotSpaces
<1>5. j \in i..Len(t) /\ j \in NotSpaces(t)
  BY <1>0, <1>1 DEF IsFirst
<1>6. j \in NotSpaces(w) /\ \A n \in i..j - 1 : n \notin NotSpaces(t) => n \notin NotSpaces(w)
  BY <1>0, <1>4, <1>5
<1>7. End(t) \in Nat /\ End(w) \in Nat /\ End(t) <= End(w)
  BY <1>0
<1>8. IsFirst(j, i, End(w), NotSpaces(w))
  BY <1>0, <1>1, <1>6, <1>7, FirstStays
<1>9. k = j
  BY <1>0, <1>3, <1>7, <1>8, OneFirst
<1> QED BY <1>9 DEF j, k

\* and so does the search for the end of a path.
LEMMA PathEndStays ==
  ASSUME NEW X, NEW t \in Seq(X), NEW w \in Seq(X), Begins(t, w), NEW i \in 1..End(t),
         NulFrom(t, i) < End(t)
  PROVE  NulFrom(w, i) = NulFrom(t, i)
<1> DEFINE m == NulFrom(t, i)
           k == NulFrom(w, i)
<1>0. /\ Len(t) \in Nat /\ Len(w) \in Nat /\ End(t) = Len(t) + 1 /\ End(w) = Len(w) + 1
      /\ Len(t) <= Len(w) /\ i \in Nat /\ DOMAIN t = 1..Len(t) /\ DOMAIN w = 1..Len(w)
      /\ \A n \in 1..Len(t) : t[n] = w[n]
  BY DEF End, Begins
<1>1. IsFirst(m, i, End(t), PathEnds(t)) /\ m < End(t)
  BY PathEndsAt
<1>2. i \in 1..End(w)
  BY <1>0
<1>3. IsFirst(k, i, End(w), PathEnds(w))
  BY <1>2, PathEndsAt
<1> HIDE DEF m, k
<1>4. \A n \in 1..Len(t) : n \in PathEnds(t) <=> n \in PathEnds(w)
  BY <1>0 DEF PathEnds
<1>5. m \in i..Len(t) /\ m \in PathEnds(t)
  BY <1>0, <1>1 DEF IsFirst
<1>6. m \in PathEnds(w) /\ \A n \in i..m - 1 : n \notin PathEnds(t) => n \notin PathEnds(w)
  BY <1>0, <1>4, <1>5
<1>7. End(t) \in Nat /\ End(w) \in Nat /\ End(t) <= End(w)
  BY <1>0
<1>8. IsFirst(m, i, End(w), PathEnds(w))
  BY <1>0, <1>1, <1>6, <1>7, FirstStays
<1>9. k = m
  BY <1>0, <1>3, <1>7, <1>8, OneFirst
<1> QED BY <1>9 DEF m, k

\* A line that ends in the beginning of a text ends there in the text,
LEMMA LineEndStays ==
  ASSUME NEW X, NEW t \in Seq(X), NEW w \in Seq(X), Begins(t, w), NEW i \in 1..End(t)
  PROVE  /\ At(t, i, CRLF) => At(w, i, CRLF)
         /\ i + 2 <= End(t) /\ At(w, i, CRLF) => At(t, i, CRLF)
<1>0. /\ Len(t) \in Nat /\ Len(w) \in Nat /\ End(t) = Len(t) + 1 /\ End(w) = Len(w) + 1
      /\ Len(t) <= Len(w) /\ i \in Nat /\ i >= 1
      /\ \A n \in 1..Len(t) : t[n] = w[n]
  BY DEF End, Begins
<1>1. i \in 1..End(w)
  BY <1>0
<1>2. At(t, i, CRLF) <=> i + 2 <= End(t) /\ t[i] = CR /\ t[i + 1] = LF
  BY AtLineEnd
<1>3. At(w, i, CRLF) <=> i + 2 <= End(w) /\ w[i] = CR /\ w[i + 1] = LF
  BY <1>1, AtLineEnd
<1>4. i + 2 <= End(t) => i \in 1..Len(t) /\ i + 1 \in 1..Len(t)
  BY <1>0
<1> QED BY <1>0, <1>2, <1>3, <1>4

\* so that skip_to_crlf finds it in both.
LEMMA BreakStays ==
  ASSUME NEW X, NEW t \in Seq(X), NEW w \in Seq(X), Begins(t, w), NEW i \in 1..End(t),
         skip_to_crlf(t, i) < End(t)
  PROVE  /\ skip_to_crlf(w, i) = skip_to_crlf(t, i)
         /\ skip_to_crlf(t, i) \in i..End(t) - 2
<1> DEFINE j == skip_to_crlf(t, i)
           k == skip_to_crlf(w, i)
<1>0. /\ Len(t) \in Nat /\ Len(w) \in Nat /\ End(t) = Len(t) + 1 /\ End(w) = Len(w) + 1
      /\ Len(t) <= Len(w) /\ i \in Nat /\ i >= 1 /\ DOMAIN t = 1..Len(t) /\ DOMAIN w = 1..Len(w)
      /\ \A n \in 1..Len(t) : t[n] = w[n]
  BY DEF End, Begins
<1>1. IsFirst(j, i, End(t), Breaks(t)) /\ j < End(t)
  BY SkipsToBreak
<1>2. i \in 1..End(w)
  BY <1>0
<1>3. IsFirst(k, i, End(w), Breaks(w))
  BY <1>2, SkipsToBreak
<1> HIDE DEF j, k
<1>4. j \in i..Len(t) /\ j \in 1..End(t) /\ j \in Breaks(t)
  BY <1>0, <1>1 DEF IsFirst
<1>5. At(t, j, CRLF)
  BY <1>4 DEF Breaks
<1>6. j + 2 <= End(t)
  BY <1>4, <1>5, AtLineEnd
<1>7. j \in Breaks(w)
  <2>1. At(w, j, CRLF)
    BY <1>4, <1>5, LineEndStays
  <2> QED BY <1>0, <1>4, <2>1 DEF Breaks
<1>8. ASSUME NEW n \in i..j - 1, n \notin Breaks(t) PROVE n \notin Breaks(w)
  <2>1. n \in 1..End(t) /\ n + 2 <= End(t) /\ n \in DOMAIN t
    BY <1>0, <1>4, <1>6
  <2>2. ~At(t, n, CRLF)
    BY <1>8, <2>1 DEF Breaks
  <2>3. ~At(w, n, CRLF)
    BY <2>1, <2>2, LineEndStays
  <2> QED BY <2>3 DEF Breaks
<1>9. End(t) \in Nat /\ End(w) \in Nat /\ End(t) <= End(w)
  BY <1>0
<1>10. IsFirst(j, i, End(w), Breaks(w))
  BY <1>0, <1>1, <1>7, <1>8, <1>9, FirstStays
<1>11. k = j
  BY <1>0, <1>3, <1>9, <1>10, OneFirst
<1>12. j \in i..End(t) - 2
  BY <1>0, <1>4, <1>6
<1> QED BY <1>11, <1>12 DEF j, k

\* What is cut from the beginning of a text is cut from the text.
LEMMA CutStays ==
  ASSUME NEW X, NEW t \in Seq(X), NEW w \in Seq(X), Begins(t, w), NEW i \in 1..End(t),
         NEW j \in i..End(t)
  PROVE  Cut(t, i, j) = Cut(w, i, j)
<1>0. /\ Len(t) \in Nat /\ Len(w) \in Nat /\ End(t) = Len(t) + 1 /\ End(w) = Len(w) + 1
      /\ Len(t) <= Len(w) /\ i \in Nat /\ i >= 1 /\ \A n \in 1..Len(t) : t[n] = w[n]
  BY DEF End, Begins
<1> DEFINE a == Cut(t, i, j)
           b == Cut(w, i, j)
<1>1. a \in Seq(X) /\ Len(a) = j - i /\ \A k \in 1..j - i : a[k] = t[i - 1 + k]
  BY CutHas
<1>2. i \in 1..End(w) /\ j \in i..End(w)
  BY <1>0
<1>3. b \in Seq(X) /\ Len(b) = j - i /\ \A k \in 1..j - i : b[k] = w[i - 1 + k]
  BY <1>2, CutHas
<1>4. \A k \in 1..j - i : i - 1 + k \in 1..Len(t)
  BY <1>0
<1> HIDE DEF a, b
<1>5. \A k \in 1..j - i : a[k] = b[k]
  BY <1>0, <1>1, <1>3, <1>4
<1>6. a = b
  BY <1>1, <1>3, <1>5, SeqEqual
<1> QED BY <1>6 DEF a, b

\* A symbol more in front keeps a beginning.
LEMMA PrependedBegins ==
  ASSUME NEW A, NEW B, NEW a \in Seq(A), NEW b \in Seq(B), NEW x \in A \cap B, Begins(a, b)
  PROVE  Begins(<<x>> \o a, <<x>> \o b)
<1> DEFINE p == <<x>> \o a
           q == <<x>> \o b
<1>1. /\ p \in Seq(A) /\ Len(p) = Len(a) + 1 /\ Len(a) \in Nat
      /\ p[1] = x /\ \A k \in 1..Len(a) : p[k + 1] = a[k]
  BY Prepended
<1>2. /\ q \in Seq(B) /\ Len(q) = Len(b) + 1 /\ Len(b) \in Nat
      /\ q[1] = x /\ \A k \in 1..Len(b) : q[k + 1] = b[k]
  BY Prepended
<1> HIDE DEF p, q
<1>3. Len(a) <= Len(b) /\ \A k \in 1..Len(a) : a[k] = b[k]
  BY DEF Begins
<1>4. ASSUME NEW j \in 1..Len(p) PROVE p[j] = q[j]
  <2>1. CASE j = 1
    BY <1>1, <1>2, <2>1
  <2>2. CASE j # 1
    <3>1. j - 1 \in 1..Len(a) /\ j - 1 \in 1..Len(b) /\ j - 1 + 1 = j
      BY <1>1, <1>2, <1>3, <2>2
    <3>2. p[j - 1 + 1] = a[j - 1] /\ q[j - 1 + 1] = b[j - 1] /\ a[j - 1] = b[j - 1]
      BY <1>1, <1>2, <1>3, <3>1
    <3> QED BY <3>1, <3>2
  <2> QED BY <2>1, <2>2
<1>5. Begins(p, q)
  BY <1>1, <1>2, <1>3, <1>4 DEF Begins
<1> QED BY <1>5 DEF p, q

-----------------------------------------------------------------------------
(***************************************************************************)
(* Headers: what is parsed                                                 *)
(***************************************************************************)

\* Where the parts of a header line are.
LEMMA LineFacts ==
  ASSUME NEW X, NEW t \in Seq(X), NEW i \in 1..Len(t), parse_header(t, i)
  PROVE  /\ Colon(t, i) \in i..Len(t) /\ t[Colon(t, i)] = ":"
         /\ ValueAt(t, i) \in Colon(t, i) + 1..Len(t)
         /\ LineEnd(t, i) \in ValueAt(t, i)..Len(t) - 1
         /\ LineEnd(t, i) + 2 \in i + 2..End(t)
<1> DEFINE c == Colon(t, i)
           v == ValueAt(t, i)
           e == LineEnd(t, i)
<1>0. /\ Len(t) \in Nat /\ End(t) = Len(t) + 1 /\ i \in 1..End(t) /\ i \in Nat
      /\ End(t) \in i..End(t)
  BY DEF End
<1>1. c \in i..Len(t) /\ t[c] = ":"
  <2>1. c < End(t)
    BY DEF parse_header
  <2>2. c \in i..End(t) /\ (c < End(t) => t[c] = ":")
    BY <1>0, FindCharFacts DEF Colon
  <2> HIDE DEF c
  <2> QED BY <1>0, <2>1, <2>2
<1>2. c + 1 \in 1..End(t)
  <2> HIDE DEF c
  <2> QED BY <1>0, <1>1
<1>3. v \in c + 1..End(t)
  <2>1. IsFirst(v, c + 1, End(t), NotSpaces(t))
    BY <1>2, SkipsSpaces DEF ValueAt
  <2> HIDE DEF v, c
  <2> QED BY <2>1 DEF IsFirst
<1>4. v \in 1..End(t)
  <2> HIDE DEF v, c
  <2> QED BY <1>0, <1>2, <1>3
<1>5. e \in v..End(t) - 2
  <2>1. e < End(t) /\ e = skip_to_crlf(t, v)
    BY DEF parse_header, LineEnd
  <2>2. Begins(t, t)
    BY <1>0 DEF Begins
  <2> HIDE DEF v, c, e
  <2> QED BY <1>4, <2>1, <2>2, BreakStays
<1> HIDE DEF c, v, e
<1>6. v \in c + 1..Len(t) /\ e \in v..Len(t) - 1 /\ e + 2 \in i + 2..End(t)
  BY <1>0, <1>1, <1>3, <1>5
<1> QED BY <1>1, <1>6 DEF c, v, e

\* A header line that is whole in the beginning of a text is the same in it.
LEMMA HeaderStays ==
  ASSUME NEW X, NEW t \in Seq(X), NEW w \in Seq(X), Begins(t, w), NEW i \in 1..Len(t),
         parse_header(t, i)
  PROVE  /\ parse_header(w, i) /\ Colon(w, i) = Colon(t, i)
         /\ ValueAt(w, i) = ValueAt(t, i) /\ LineEnd(w, i) = LineEnd(t, i)
<1>0. /\ Len(t) \in Nat /\ Len(w) \in Nat /\ End(t) = Len(t) + 1 /\ End(w) = Len(w) + 1
      /\ Len(t) <= Len(w) /\ i \in 1..End(t) /\ i \in Nat
  BY DEF End, Begins
<1>1. /\ Colon(t, i) \in i..Len(t) /\ ValueAt(t, i) \in Colon(t, i) + 1..Len(t)
      /\ LineEnd(t, i) \in ValueAt(t, i)..Len(t) - 1
  BY LineFacts
<1>2. Colon(w, i) = Colon(t, i)
  <2>1. find_char(t, i, End(t), ":") < End(t)
    BY DEF parse_header, Colon
  <2> QED BY <1>0, <2>1, FoundStays DEF Colon
<1>3. ValueAt(w, i) = ValueAt(t, i)
  <2> DEFINE c == Colon(t, i) + 1
  <2>1. c \in 1..End(t) /\ ValueAt(t, i) < End(t)
    BY <1>0, <1>1
  <2>2. ValueAt(t, i) = skip_ws(t, c, End(t)) /\ ValueAt(w, i) = skip_ws(w, c, End(w))
    BY <1>2 DEF ValueAt
  <2> HIDE DEF c
  <2> QED BY <2>1, <2>2, SpacesStay
<1>4. LineEnd(w, i) = LineEnd(t, i)
  <2> DEFINE v == ValueAt(t, i)
  <2>1. v \in 1..End(t) /\ LineEnd(t, i) < End(t)
    BY <1>0, <1>1
  <2>2. LineEnd(t, i) = skip_to_crlf(t, v) /\ LineEnd(w, i) = skip_to_crlf(w, v)
    BY <1>3 DEF LineEnd
  <2> HIDE DEF v
  <2> QED BY <2>1, <2>2, BreakStays
<1>5. parse_header(w, i)
  BY <1>0, <1>1, <1>2, <1>4 DEF parse_header
<1> QED BY <1>2, <1>3, <1>4, <1>5

\* What a header is to the parser, and those whose name and value end within
\* the text.
Row(t, i) == [key |-> i, val |-> ValueAt(t, i)]
Rows(t) == {r \in [key : 1..Len(t), val : 1..Len(t)] :
              find_char(t, r.key, End(t), ":") < End(t) /\ skip_to_crlf(t, r.val) < End(t)}
Tables(t) == [headers : Seq(Rows(t)), body : 1..End(t)]

\* A header line makes one.
LEMMA RowIs ==
  ASSUME NEW X, NEW t \in Seq(X), NEW i \in 1..Len(t), parse_header(t, i)
  PROVE  Row(t, i) \in Rows(t)
<1>1. ValueAt(t, i) \in 1..Len(t)
  <2>1. /\ Colon(t, i) \in i..Len(t) /\ ValueAt(t, i) \in Colon(t, i) + 1..Len(t)
        /\ i \in Nat /\ i >= 1 /\ Len(t) \in Nat
    BY LineFacts
  <2> QED BY <2>1
<1>2. find_char(t, i, End(t), ":") < End(t) /\ skip_to_crlf(t, ValueAt(t, i)) < End(t)
  BY DEF parse_header, Colon, LineEnd
<1> QED BY <1>1, <1>2 DEF Row, Rows

\* What the header loop makes of the text from i on, with n places left.
Listed(rest, t, i) == [headers |-> <<Row(t, i)>> \o rest.headers, body |-> rest.body]
Parses(from, t, start) ==
  /\ \A n \in 0..MaxHeaders, i \in start..End(t) :
       i < End(t) /\ n > 0 /\ At(t, i, CRLF) => from[n][i] = [headers |-> <<>>, body |-> i + 2]
  /\ \A n \in 0..MaxHeaders, i \in start..End(t) :
       i < End(t) /\ n > 0 /\ ~At(t, i, CRLF) /\ parse_header(t, i) =>
         from[n][i] = Listed(from[n - 1][LineEnd(t, i) + 2], t, i)
  /\ \A n \in 0..MaxHeaders, i \in start..End(t) :
       ~(i < End(t) /\ n > 0 /\ (At(t, i, CRLF) \/ parse_header(t, i))) =>
         from[n][i] = [headers |-> <<>>, body |-> i]

\* One step of the header loop, given what the steps behind it make.
HeaderLoop(f, n, t, start) ==
  [i \in start..End(t) |->
     IF i < End(t) /\ n > 0 /\ At(t, i, CRLF) THEN [headers |-> <<>>, body |-> i + 2]
     ELSE IF i < End(t) /\ n > 0 /\ parse_header(t, i)
     THEN Listed(f[n - 1][LineEnd(t, i) + 2], t, i)
     ELSE [headers |-> <<>>, body |-> i]]

\* It makes tables of headers.
LEMMA HeaderLoopTyped ==
  ASSUME NEW X, NEW t \in Seq(X), NEW start \in 1..End(t), NEW n \in 0..MaxHeaders,
         NEW f \in [0..MaxHeaders -> [start..End(t) -> Tables(t)]]
  PROVE  HeaderLoop(f, n, t, start) \in [start..End(t) -> Tables(t)]
<1>0. /\ Len(t) \in Nat /\ End(t) = Len(t) + 1 /\ start \in Nat /\ start >= 1 /\ n \in Nat
      /\ MaxHeaders \in Nat
  BY HeadersAssumption DEF End
<1> SUFFICES ASSUME NEW i \in start..End(t)
             PROVE  (IF i < End(t) /\ n > 0 /\ At(t, i, CRLF) THEN [headers |-> <<>>, body |-> i + 2]
                     ELSE IF i < End(t) /\ n > 0 /\ parse_header(t, i)
                     THEN Listed(f[n - 1][LineEnd(t, i) + 2], t, i)
                     ELSE [headers |-> <<>>, body |-> i]) \in Tables(t)
  BY DEF HeaderLoop
<1>1. i \in 1..End(t)
  BY <1>0
<1>2. At(t, i, CRLF) => i + 2 \in 1..End(t)
  BY <1>0, <1>1, AtLineEnd
<1>3. \A b \in 1..End(t) : [headers |-> <<>>, body |-> b] \in Tables(t)
  BY DEF Tables
<1>4. ASSUME i < End(t), n > 0, parse_header(t, i)
      PROVE  Listed(f[n - 1][LineEnd(t, i) + 2], t, i) \in Tables(t)
  <2>1. i \in 1..Len(t)
    BY <1>0, <1>1, <1>4
  <2>2. LineEnd(t, i) + 2 \in i + 2..End(t)
    BY <1>4, <2>1, LineFacts
  <2>3. LineEnd(t, i) + 2 \in start..End(t) /\ n - 1 \in 0..MaxHeaders
    BY <1>0, <1>4, <2>1, <2>2
  <2> DEFINE rest == f[n - 1][LineEnd(t, i) + 2]
  <2>4. rest \in Tables(t)
    BY <2>3
  <2> HIDE DEF rest
  <2>5. rest.headers \in Seq(Rows(t)) /\ rest.body \in 1..End(t)
    BY <2>4 DEF Tables
  <2>6. Row(t, i) \in Rows(t)
    BY <1>4, <2>1, RowIs
  <2>7. <<Row(t, i)>> \o rest.headers \in Seq(Rows(t))
    BY <2>5, <2>6, Prepended
  <2>8. Listed(rest, t, i) \in Tables(t)
    BY <2>5, <2>7 DEF Listed, Tables
  <2> QED BY <2>8 DEF rest
<1> QED BY <1>1, <1>2, <1>3, <1>4

\* parse_headers returns what the loop makes with all places left.
LEMMA HeadersParsed ==
  ASSUME NEW X, NEW t \in Seq(X), NEW start \in 1..End(t)
  PROVE  \E from \in [0..MaxHeaders -> [start..End(t) -> Tables(t)]] :
            Parses(from, t, start) /\ parse_headers(t, start) = from[MaxHeaders][start]
<1> DEFINE D == 0..MaxHeaders
           V == [start..End(t) -> Tables(t)]
           B == [f \in [D -> V] |-> [n \in D |-> HeaderLoop(f, n, t, start)]]
           rank == [n \in D |-> n]
           Iter(f) == f = [n \in D |-> HeaderLoop(f, n, t, start)]
           from == CHOOSE f : Iter(f)
<1>0. /\ Len(t) \in Nat /\ End(t) = Len(t) + 1 /\ start \in Nat /\ start >= 1
      /\ MaxHeaders \in Nat /\ start \in start..End(t)
  BY HeadersAssumption DEF End
<1>1. Ranked(D, V, B, rank)
  <2>1. B \in [[D -> V] -> [D -> V]]
    BY HeaderLoopTyped
  <2>2. rank \in [D -> Nat]
    BY <1>0
  <2>3. ASSUME NEW f \in [D -> V], NEW g \in [D -> V], NEW n \in D,
               \A m \in D : rank[m] < rank[n] => f[m] = g[m]
        PROVE  B[f][n] = B[g][n]
    <3>1. n > 0 => f[n - 1] = g[n - 1]
      <4>1. n > 0 => n - 1 \in D /\ n - 1 < n
        BY <1>0
      <4> QED BY <2>3, <4>1
    <3> HIDE DEF V
    <3>2. HeaderLoop(f, n, t, start) = HeaderLoop(g, n, t, start)
      BY <3>1 DEF HeaderLoop
    <3> QED BY <3>2
  <2> HIDE DEF B, V, D, rank
  <2> QED BY <2>1, <2>2, <2>3 DEF Ranked
<1>2. \E f : f \in [D -> V]
  <2>1. [headers |-> <<>>, body |-> start] \in Tables(t)
    BY DEF Tables
  <2>2. [n \in D |-> [i \in start..End(t) |-> [headers |-> <<>>, body |-> start]]] \in [D -> V]
    BY <2>1
  <2> QED BY <2>2
<1>3. \E f \in [D -> V] : Iter(f)
  <2>1. PICK base : base \in [D -> V]
    BY <1>2
  <2>2. PICK f \in [D -> V] : f = B[f]
    <3> HIDE DEF D, V, B, rank
    <3> QED BY <1>1, <2>1, RecursionExists
  <2>3. Iter(f)
    BY <2>2
  <2> QED BY <2>3
<1>4. Iter(from)
  <2> HIDE DEF Iter
  <2> QED BY <1>3
<1>5. parse_headers(t, start) = from[MaxHeaders][start]
  BY DEF parse_headers, HeaderLoop, Listed, Row
<1> HIDE DEF from
<1>6. ASSUME NEW n \in D, NEW i \in start..End(t)
      PROVE  from[n][i] =
               IF i < End(t) /\ n > 0 /\ At(t, i, CRLF) THEN [headers |-> <<>>, body |-> i + 2]
               ELSE IF i < End(t) /\ n > 0 /\ parse_header(t, i)
               THEN Listed(from[n - 1][LineEnd(t, i) + 2], t, i)
               ELSE [headers |-> <<>>, body |-> i]
  <2>1. from[n] = HeaderLoop(from, n, t, start)
    BY <1>4
  <2> QED BY <2>1 DEF HeaderLoop
<1>7. Parses(from, t, start)
  <2>1. ASSUME NEW n \in D, NEW i \in start..End(t), i < End(t), n > 0, At(t, i, CRLF)
        PROVE  from[n][i] = [headers |-> <<>>, body |-> i + 2]
    BY <1>6, <2>1
  <2>2. ASSUME NEW n \in D, NEW i \in start..End(t),
               i < End(t), n > 0, ~At(t, i, CRLF), parse_header(t, i)
        PROVE  from[n][i] = Listed(from[n - 1][LineEnd(t, i) + 2], t, i)
    BY <1>6, <2>2
  <2>3. ASSUME NEW n \in D, NEW i \in start..End(t),
               ~(i < End(t) /\ n > 0 /\ (At(t, i, CRLF) \/ parse_header(t, i)))
        PROVE  from[n][i] = [headers |-> <<>>, body |-> i]
    BY <1>6, <2>3
  <2> QED BY <2>1, <2>2, <2>3 DEF Parses
<1>8. from \in [D -> V]
  <2> DEFINE P == {m \in Nat : m \in D => from[m] \in V}
  <2>1. 0 \in P
    <3>1. ASSUME NEW i \in start..End(t) PROVE from[0][i] \in Tables(t)
      <4>1. 0 \in D
        BY <1>0
      <4>2. from[0][i] = [headers |-> <<>>, body |-> i]
        <5>1. ~(i < End(t) /\ 0 > 0 /\ (At(t, i, CRLF) \/ parse_header(t, i)))
          OBVIOUS
        <5> HIDE DEF V
        <5> QED BY <1>7, <4>1, <5>1 DEF Parses
      <4> QED BY <1>0, <4>2 DEF Tables
    <3>2. 0 \in D /\ from[0] = HeaderLoop(from, 0, t, start)
      BY <1>0, <1>4
    <3>3. from[0] = [i \in start..End(t) |-> from[0][i]]
      BY <3>2 DEF HeaderLoop
    <3>4. from[0] \in V
      BY <3>1, <3>3
    <3> QED BY <3>4
  <2>2. ASSUME NEW m \in Nat, m \in P PROVE m + 1 \in P
    <3> DEFINE n == m + 1
    <3> SUFFICES ASSUME n \in D PROVE from[n] \in V
      OBVIOUS
    <3>1. m \in D /\ n - 1 = m /\ n \in Nat
      BY <1>0
    <3>2. from[m] \in V
      BY <2>2, <3>1
    <3> DEFINE g == [k \in D |-> from[m]]
    <3>3. g \in [D -> V] /\ g[n - 1] = from[n - 1]
      BY <3>1, <3>2
    <3>4. from[n] = HeaderLoop(from, n, t, start)
      BY <1>4
    <3> HIDE DEF n, g, V
    <3>5. HeaderLoop(g, n, t, start) = HeaderLoop(from, n, t, start)
      BY <3>3 DEF HeaderLoop
    <3>6. HeaderLoop(g, n, t, start) \in [start..End(t) -> Tables(t)]
      BY <3>3, HeaderLoopTyped DEF V
    <3> QED BY <3>4, <3>5, <3>6 DEF V
  <2>3. \A m \in Nat : m \in P
    <3> HIDE DEF P
    <3> QED BY <2>1, <2>2, Induction
  <2>4. \A n \in D : from[n] \in V
    BY <1>0, <2>3
  <2>5. from = [n \in D |-> from[n]]
    BY <1>4
  <2> HIDE DEF V, D
  <2> QED BY <2>4, <2>5
<1> QED BY <1>5, <1>7, <1>8

\* The headers read from the beginning of a text are among those of the text.
LEMMA HeadersStay ==
  ASSUME NEW X, NEW t \in Seq(X), NEW w \in Seq(X), Begins(t, w), NEW start \in 1..End(t),
         NEW f \in [0..MaxHeaders -> [start..End(t) -> Tables(t)]], Parses(f, t, start),
         NEW g \in [0..MaxHeaders -> [start..End(w) -> Tables(w)]], Parses(g, w, start)
  PROVE  \A n \in 0..MaxHeaders, i \in start..End(t) : Begins(f[n][i].headers, g[n][i].headers)
<1>0. /\ Len(t) \in Nat /\ Len(w) \in Nat /\ End(t) = Len(t) + 1 /\ End(w) = Len(w) + 1
      /\ Len(t) <= Len(w) /\ start \in Nat /\ start >= 1 /\ MaxHeaders \in Nat
  BY HeadersAssumption DEF End, Begins
<1>1. ASSUME NEW n \in 0..MaxHeaders, NEW i \in start..End(t)
      PROVE  /\ i \in start..End(w) /\ f[n][i] \in Tables(t) /\ g[n][i] \in Tables(w)
             /\ f[n][i].headers \in Seq(Rows(t)) /\ g[n][i].headers \in Seq(Rows(w))
  <2>1. i \in start..End(w)
    BY <1>0
  <2>2. f[n][i] \in Tables(t) /\ g[n][i] \in Tables(w)
    BY <2>1
  <2> QED BY <2>1, <2>2 DEF Tables
<1>2. ASSUME NEW n \in 0..MaxHeaders, NEW i \in start..End(t), f[n][i].headers = <<>>
      PROVE  Begins(f[n][i].headers, g[n][i].headers)
  <2>1. Len(g[n][i].headers) \in Nat
    BY <1>1
  <2> QED BY <1>2, <2>1 DEF Begins
<1> DEFINE P == {n \in Nat : n <= MaxHeaders =>
                               \A i \in start..End(t) : Begins(f[n][i].headers, g[n][i].headers)}
<1>3. 0 \in P
  <2> SUFFICES ASSUME NEW i \in start..End(t) PROVE Begins(f[0][i].headers, g[0][i].headers)
    OBVIOUS
  <2>1. 0 \in 0..MaxHeaders /\ ~(i < End(t) /\ 0 > 0 /\ (At(t, i, CRLF) \/ parse_header(t, i)))
    BY <1>0
  <2>2. f[0][i] = [headers |-> <<>>, body |-> i]
    BY <2>1 DEF Parses
  <2>3. f[0][i].headers = <<>>
    BY <2>2
  <2> QED BY <1>2, <2>1, <2>3
<1>4. ASSUME NEW m \in Nat, m \in P PROVE m + 1 \in P
  <2> DEFINE n == m + 1
  <2> SUFFICES ASSUME n <= MaxHeaders, NEW i \in start..End(t)
               PROVE  Begins(f[n][i].headers, g[n][i].headers)
    OBVIOUS
  <2>1. n \in 0..MaxHeaders /\ m \in 0..MaxHeaders /\ n - 1 = m /\ n > 0 /\ n \in Nat
    BY <1>0
  <2>2. \A k \in start..End(t) : Begins(f[m][k].headers, g[m][k].headers)
    BY <1>4, <2>1
  <2> HIDE DEF n, P
  <2>3. CASE ~(i < End(t) /\ (At(t, i, CRLF) \/ parse_header(t, i)))
    <3>1. f[n][i] = [headers |-> <<>>, body |-> i]
      BY <2>1, <2>3 DEF Parses
    <3>2. f[n][i].headers = <<>>
      BY <3>1
    <3> QED BY <1>2, <2>1, <3>2
  <2>4. CASE i < End(t) /\ At(t, i, CRLF)
    <3>1. f[n][i] = [headers |-> <<>>, body |-> i + 2]
      BY <2>1, <2>4 DEF Parses
    <3>2. f[n][i].headers = <<>>
      BY <3>1
    <3> QED BY <1>2, <2>1, <3>2
  <2>5. CASE i < End(t) /\ ~At(t, i, CRLF) /\ parse_header(t, i)
    <3> DEFINE e == LineEnd(t, i) + 2
    <3>1. i \in 1..Len(t) /\ i \in 1..End(t)
      BY <1>0, <2>5
    <3>2. e \in i + 2..End(t)
      BY <2>5, <3>1, LineFacts
    <3>3. /\ parse_header(w, i) /\ ValueAt(w, i) = ValueAt(t, i)
          /\ LineEnd(w, i) = LineEnd(t, i)
      BY <2>5, <3>1, HeaderStays
    <3>4. ~At(w, i, CRLF)
      <4>1. i + 2 <= End(t)
        BY <1>0, <3>1, <3>2
      <4> QED BY <2>5, <3>1, <4>1, LineEndStays
    <3>5. i \in start..End(w) /\ i < End(w) /\ i \in 1..Len(w)
      BY <1>0, <2>5, <3>1
    <3>6. f[n][i] = Listed(f[m][e], t, i)
      BY <2>1, <2>5 DEF Parses
    <3>7. g[n][i] = Listed(g[m][e], w, i)
      BY <2>1, <3>3, <3>4, <3>5 DEF Parses
    <3>8. Row(w, i) = Row(t, i)
      BY <3>3 DEF Row
    <3>9. Row(t, i) \in Rows(t) \cap Rows(w)
      <4>1. Row(t, i) \in Rows(t)
        BY <2>5, <3>1, RowIs
      <4>2. Row(w, i) \in Rows(w)
        BY <3>3, <3>5, RowIs
      <4> QED BY <3>8, <4>1, <4>2
    <3>10. e \in start..End(t)
      BY <1>0, <3>1, <3>2
    <3> HIDE DEF e
    <3>11. /\ f[m][e].headers \in Seq(Rows(t)) /\ g[m][e].headers \in Seq(Rows(w))
           /\ Begins(f[m][e].headers, g[m][e].headers)
      BY <1>1, <2>1, <2>2, <3>10
    <3>12. Begins(<<Row(t, i)>> \o f[m][e].headers, <<Row(t, i)>> \o g[m][e].headers)
      BY <3>9, <3>11, PrependedBegins
    <3>13. /\ f[n][i].headers = <<Row(t, i)>> \o f[m][e].headers
           /\ g[n][i].headers = <<Row(t, i)>> \o g[m][e].headers
      <4>1. \A rest : /\ Listed(rest, t, i).headers = <<Row(t, i)>> \o rest.headers
                      /\ Listed(rest, w, i).headers = <<Row(w, i)>> \o rest.headers
        BY DEF Listed
      <4> QED BY <3>6, <3>7, <3>8, <4>1
    <3> QED BY <3>12, <3>13
  <2> QED BY <2>3, <2>4, <2>5
<1>5. \A n \in Nat : n \in P
  <2> HIDE DEF P
  <2> QED BY <1>3, <1>4, Induction
<1> QED BY <1>0, <1>5

\* A header that is whole in the beginning of a text reads the same in it.
LEMMA HeaderSame ==
  ASSUME NEW X, NEW t \in Seq(X), NEW w \in Seq(X), Begins(t, w), NEW r \in Rows(t)
  PROVE  Header(t, r) = Header(w, r)
<1> DEFINE c == find_char(t, r.key, End(t), ":")
           e == skip_to_crlf(t, r.val)
<1>0. /\ Len(t) \in Nat /\ End(t) = Len(t) + 1 /\ r.key \in 1..Len(t) /\ r.val \in 1..Len(t)
      /\ c < End(t) /\ e < End(t)
  BY DEF End, Rows
<1>1. r.key \in 1..End(t) /\ r.val \in 1..End(t) /\ End(t) \in r.key..End(t)
  BY <1>0
<1>2. c \in r.key..End(t) /\ find_char(w, r.key, End(w), ":") = c
  BY <1>0, <1>1, FindCharFacts, FoundStays
<1>3. e \in r.val..End(t) - 2 /\ skip_to_crlf(w, r.val) = e
  BY <1>0, <1>1, BreakStays
<1> HIDE DEF c, e
<1>4. e \in r.val..End(t)
  BY <1>0, <1>1, <1>3
<1>5. Cut(t, r.key, c) = Cut(w, r.key, c) /\ Cut(t, r.val, e) = Cut(w, r.val, e)
  BY <1>1, <1>2, <1>4, CutStays
<1> QED BY <1>2, <1>3, <1>5 DEF Header, c, e

-----------------------------------------------------------------------------
(***************************************************************************)
(* Headers: what is written and read back                                  *)
(***************************************************************************)

\* Symbols a message may hold besides its own.
Marks == {":", SP, CR, LF, "?", Version, "OK", "Content-Length", "n"}

\* A header over X, and one that can be told.
Over(X, h) == h.key \in Seq(X) /\ h.val \in Seq(X)

\* The line of a header over X is over X.
LEMMA LineTyped ==
  ASSUME NEW X, Marks \subseteq X, NEW h, Over(X, h)
  PROVE  /\ HeaderLine(h) \in Seq(X) /\ h.key \o <<":", SP>> \in Seq(X)
         /\ (h.key \o <<":", SP>>) \o h.val \in Seq(X) /\ CRLF \in Seq(X) /\ <<":", SP>> \in Seq(X)
         /\ Len(HeaderLine(h)) = Len(h.key) + Len(h.val) + 4
         /\ Len(h.key \o <<":", SP>>) = Len(h.key) + 2
         /\ Len((h.key \o <<":", SP>>) \o h.val) = Len(h.key) + Len(h.val) + 2
         /\ Len(h.key) \in Nat /\ Len(h.val) \in Nat
<1>1. <<":", SP>> \in Seq(X) /\ CRLF \in Seq(X) /\ Len(<<":", SP>>) = 2 /\ Len(CRLF) = 2
  BY DEF Marks, CRLF
<1>2. h.key \in Seq(X) /\ h.val \in Seq(X) /\ Len(h.key) \in Nat /\ Len(h.val) \in Nat
  BY DEF Over
<1> DEFINE a == Joined(h.key, <<":", SP>>)
           b == Joined(a, h.val)
           c == Joined(b, CRLF)
<1>3. a \in Seq(X) /\ Len(a) = Len(h.key) + 2
  <2>1. IsJoin(X, h.key, <<":", SP>>, a)
    BY <1>1, <1>2, JoinedAt
  <2> HIDE DEF a
  <2> QED BY <1>1, <2>1 DEF IsJoin
<1> HIDE DEF a
<1>4. b \in Seq(X) /\ Len(b) = Len(a) + Len(h.val)
  <2>1. IsJoin(X, a, h.val, b)
    BY <1>2, <1>3, JoinedAt
  <2> HIDE DEF b
  <2> QED BY <2>1 DEF IsJoin
<1> HIDE DEF b
<1>5. c \in Seq(X) /\ Len(c) = Len(b) + 2
  <2>1. IsJoin(X, b, CRLF, c)
    BY <1>1, <1>4, JoinedAt
  <2> HIDE DEF c
  <2> QED BY <1>1, <2>1 DEF IsJoin
<1>6. HeaderLine(h) = c /\ (h.key \o <<":", SP>>) \o h.val = b /\ h.key \o <<":", SP>> = a
  BY DEF HeaderLine, Joined, a, b, c
<1> HIDE DEF c
<1>7. Len(b) = Len(h.key) + Len(h.val) + 2 /\ Len(c) = Len(h.key) + Len(h.val) + 4
  <2>1. \A m, n \in Nat : (m + 2) + n = m + n + 2 /\ (m + n + 2) + 2 = m + n + 4
    OBVIOUS
  <2>2. Len(b) = Len(h.key) + Len(h.val) + 2
    BY <1>2, <1>3, <1>4, <2>1
  <2> QED BY <1>2, <1>5, <2>1, <2>2
<1> QED BY <1>1, <1>2, <1>3, <1>4, <1>5, <1>6, <1>7

\* Where the parts of a header line are in the text it stands in.
LEMMA LinePlaced ==
  ASSUME NEW X, Marks \subseteq X, NEW h, Over(X, h), NEW t, Len(t) \in Nat, NEW i \in Nat,
         Placed(t, i, HeaderLine(h))
  PROVE  LET c == i + Len(h.key)
             v == i + Len(h.key) + 2
             e == i + Len(h.key) + 2 + Len(h.val)
         IN  /\ Placed(t, i, h.key) /\ t[c] = ":" /\ t[c + 1] = SP
             /\ Placed(t, v, h.val) /\ t[e] = CR /\ t[e + 1] = LF /\ e + 2 <= Len(t) + 1
<1> DEFINE K == Len(h.key)  V == Len(h.val)
           a == h.key \o <<":", SP>>
           b == a \o h.val
<1>1. /\ a \in Seq(X) /\ b \in Seq(X) /\ CRLF \in Seq(X) /\ <<":", SP>> \in Seq(X)
      /\ Len(a) = K + 2 /\ Len(b) = K + V + 2 /\ K \in Nat /\ V \in Nat
  BY LineTyped
<1>2. h.key \in Seq(X) /\ h.val \in Seq(X)
  BY DEF Over
<1>3. Placed(t, i, b \o CRLF)
  BY DEF HeaderLine
<1> HIDE DEF b
<1>4. Placed(t, i, b) /\ Placed(t, i + Len(b), CRLF) /\ i + Len(b) \in Nat
  BY <1>1, <1>3, PlacedSplit
<1>5. Placed(t, i, a \o h.val)
  BY <1>4 DEF b
<1> HIDE DEF a
<1>6. Placed(t, i, a) /\ Placed(t, i + Len(a), h.val)
  BY <1>1, <1>2, <1>5, PlacedSplit
<1>7. Placed(t, i, h.key \o <<":", SP>>)
  BY <1>6 DEF a
<1>8. Placed(t, i, h.key) /\ Placed(t, i + K, <<":", SP>>) /\ i + K \in Nat
  BY <1>1, <1>2, <1>7, PlacedSplit
<1>9. t[i + K] = ":" /\ t[i + K + 1] = SP
  BY <1>8, PlacedTwo
<1>10. Placed(t, i + Len(b), <<CR, LF>>)
  BY <1>4 DEF CRLF
<1>11. /\ t[i + Len(b)] = CR /\ t[i + Len(b) + 1] = LF /\ i + Len(b) + 2 <= Len(t) + 1
  BY <1>4, <1>10, PlacedTwo
<1>12. i + Len(a) = i + K + 2 /\ i + Len(b) = i + K + 2 + V
  <2>1. \A m, n \in Nat : i + (m + 2) = i + m + 2 /\ i + (m + n + 2) = i + m + 2 + n
    OBVIOUS
  <2> HIDE DEF K, V
  <2> QED BY <1>1, <2>1
<1> QED BY <1>6, <1>8, <1>9, <1>11, <1>12

\* The lines of a list of headers.
Lines(hs) == FoldLeft(LAMBDA lines, h : lines \o HeaderLine(h), <<>>, hs)
LinesStep(X, H) == [x \in Seq(X) \X H |-> x[1] \o HeaderLine(x[2])]

\* It is a fold of LinesStep.
LEMMA LinesFolded ==
  ASSUME NEW X, Marks \subseteq X, NEW H, \A h \in H : Over(X, h), NEW seq \in Seq(H)
  PROVE  /\ Foldable(Seq(X), H, LinesStep(X, H), <<>>, seq)
         /\ Lines(seq) = Folded(LinesStep(X, H), <<>>, seq)
<1> DEFINE V == Seq(X)  h == LinesStep(X, H)
           op(x, s) == x \o HeaderLine(s)
           Iter(g) == g = [s \in SUBSET (DOMAIN seq) |->
                             IF s = {} THEN <<>> ELSE op(g[s \ {Max(s)}], seq[Max(s)])]
           c == CHOOSE g : Iter(g)
<1>1. Lines(seq) = c[DOMAIN seq]
  BY DEF Lines, FoldLeft, MapThenFoldSet
<1>2. \A x \in V, a \in H : op(x, a) \in V
  <2> SUFFICES ASSUME NEW x \in V, NEW a \in H PROVE op(x, a) \in V
    OBVIOUS
  <2>1. HeaderLine(a) \in Seq(X)
    BY LineTyped
  <2> QED BY <2>1
<1>3. \A x \in V, a \in H : h[<<x, a>>] = op(x, a)
  BY DEF LinesStep
<1>4. h \in [V \X H -> V]
  <2>1. h = [x \in V \X H |-> op(x[1], x[2])]
    BY DEF LinesStep
  <2>2. \A x \in V \X H : x[1] \in V /\ x[2] \in H
    OBVIOUS
  <2> HIDE DEF h, V, op
  <2> QED BY <1>2, <2>1, <2>2
<1>5. <<>> \in V
  OBVIOUS
<1> HIDE DEF V, h, op
<1>6. Foldable(V, H, h, <<>>, seq)
  BY <1>4, <1>5 DEF Foldable
<1>7. PICK g \in [SUBSET (DOMAIN seq) -> V] : IsIter(g, h, <<>>, seq)
  BY <1>6, IterExists DEF Foldable
<1>8. \A s \in SUBSET (DOMAIN seq) : s # {} => seq[Max(s)] \in H /\ s \ {Max(s)} \in SUBSET (DOMAIN seq)
  BY IterStep
<1>9. Iter(g)
  <2>1. \A s \in SUBSET (DOMAIN seq) : s # {} =>
          h[<<g[s \ {Max(s)}], seq[Max(s)]>>] = op(g[s \ {Max(s)}], seq[Max(s)])
    BY <1>3, <1>7, <1>8
  <2> QED BY <1>7, <2>1 DEF IsIter
<1>10. Iter(c)
  <2> HIDE DEF Iter
  <2> QED BY <1>9
<1> HIDE DEF c
<1>11. Iterates(c, V, h, <<>>, seq)
  <2>1. \A s \in SUBSET (DOMAIN seq) : s # {} /\ c[s \ {Max(s)}] \in V =>
          h[<<c[s \ {Max(s)}], seq[Max(s)]>>] = op(c[s \ {Max(s)}], seq[Max(s)])
    BY <1>3, <1>8
  <2> QED BY <1>10, <2>1 DEF Iterates
<1> QED BY <1>1, <1>6, <1>11, IteratedIs DEF V, h

\* One header more is one line more.
LinesGrow(X, H) ==
  /\ Lines(<<>>) = <<>>
  /\ \A hs \in Seq(H), h \in H : /\ Lines(hs) \in Seq(X)
                                 /\ Lines(Append(hs, h)) = Lines(hs) \o HeaderLine(h)

\* So it is for the headers over X.
LEMMA LinesSteps ==
  ASSUME NEW X, Marks \subseteq X, NEW H, \A h \in H : Over(X, h)
  PROVE  LinesGrow(X, H)
<1>1. Lines(<<>>) = <<>>
  <2>1. <<>> \in Seq(H)
    OBVIOUS
  <2>2. /\ Foldable(Seq(X), H, LinesStep(X, H), <<>>, <<>>)
        /\ Lines(<<>>) = Folded(LinesStep(X, H), <<>>, <<>>)
    BY <2>1, LinesFolded
  <2> QED BY <2>2, FoldedEmpty
<1>2. ASSUME NEW hs \in Seq(H), NEW h \in H
      PROVE  Lines(hs) \in Seq(X) /\ Lines(Append(hs, h)) = Lines(hs) \o HeaderLine(h)
  <2>1. Append(hs, h) \in Seq(H)
    OBVIOUS
  <2>2. /\ Foldable(Seq(X), H, LinesStep(X, H), <<>>, hs)
        /\ Lines(hs) = Folded(LinesStep(X, H), <<>>, hs)
    BY LinesFolded
  <2>3. Lines(Append(hs, h)) = Folded(LinesStep(X, H), <<>>, Append(hs, h))
    BY <2>1, LinesFolded
  <2>4. /\ Lines(hs) \in Seq(X)
        /\ Lines(Append(hs, h)) = LinesStep(X, H)[<<Lines(hs), h>>]
    BY <2>2, <2>3, FoldedAppend
  <2> QED BY <2>4 DEF LinesStep
<1> QED BY <1>1, <1>2 DEF LinesGrow

\* The lines of hs stand in t, one behind the other, from the places pos on.
Lined(t, pos, hs) ==
  /\ pos \in [0..Len(hs) -> Nat]
  /\ \A k \in 1..Len(hs) : /\ Placed(t, pos[k - 1], HeaderLine(hs[k]))
                           /\ pos[k] = pos[k - 1] + Len(HeaderLine(hs[k]))

\* Lines that stand in a text stand one behind the other.
LEMMA LinesPlaced ==
  ASSUME NEW X, Marks \subseteq X, NEW H, \A h \in H : Over(X, h), NEW hs \in Seq(H),
         NEW t, Len(t) \in Nat, NEW i \in Nat, Placed(t, i, Lines(hs))
  PROVE  \E pos : Lined(t, pos, hs) /\ pos[0] = i /\ pos[Len(hs)] = i + Len(Lines(hs))
<1>0. /\ Lines(<<>>) = <<>>
      /\ \A s \in Seq(H), h \in H : /\ Lines(s) \in Seq(X)
                                    /\ Lines(Append(s, h)) = Lines(s) \o HeaderLine(h)
  <2>1. LinesGrow(X, H)
    BY LinesSteps
  <2> QED BY <2>1 DEF LinesGrow
<1> DEFINE Goal(s) == \E pos : Lined(t, pos, s) /\ pos[0] = i /\ pos[Len(s)] = i + Len(Lines(s))
           Q == {s \in Seq(H) : Placed(t, i, Lines(s)) => Goal(s)}
<1>1. <<>> \in Q
  <2> DEFINE pos == [k \in 0..0 |-> i]
  <2>1. Len(Lines(<<>>)) = 0 /\ Len(<<>>) = 0 /\ <<>> \in Seq(H)
    <3> HIDE DEF Goal
    <3> QED BY <1>0
  <2>2. pos \in [0..0 -> Nat] /\ pos[0] = i /\ i = i + 0
    OBVIOUS
  <2> HIDE DEF pos
  <2>3. Lined(t, pos, <<>>) /\ pos[0] = i /\ pos[Len(<<>>)] = i + Len(Lines(<<>>))
    BY <2>1, <2>2 DEF Lined
  <2>4. Goal(<<>>)
    BY <2>3
  <2> HIDE DEF Goal
  <2> QED BY <2>1, <2>4
<1>2. ASSUME NEW s \in Seq(H), NEW h \in H, s \in Q PROVE Append(s, h) \in Q
  <2> DEFINE z == Append(s, h)  n == Len(s)  L == Len(HeaderLine(h))
  <2>1. /\ Lines(s) \in Seq(X) /\ Lines(z) = Lines(s) \o HeaderLine(h)
        /\ HeaderLine(h) \in Seq(X) /\ L \in Nat
    <3>1. Lines(s) \in Seq(X) /\ Lines(z) = Lines(s) \o HeaderLine(h)
      <4> HIDE DEF Goal, Q
      <4> QED BY <1>0
    <3>2. HeaderLine(h) \in Seq(X)
      BY LineTyped
    <3> QED BY <3>1, <3>2
  <2>2. /\ z \in Seq(H) /\ Len(z) = n + 1 /\ n \in Nat /\ z[n + 1] = h
        /\ \A k \in 1..n : z[k] = s[k]
    OBVIOUS
  <2> HIDE DEF z
  <2>3. ASSUME Placed(t, i, Lines(z)) PROVE Goal(z)
    <3>1. /\ Placed(t, i, Lines(s)) /\ Placed(t, i + Len(Lines(s)), HeaderLine(h))
          /\ i + Len(Lines(s)) \in Nat /\ Len(Lines(s)) \in Nat
      BY <2>1, <2>3, PlacedSplit
    <3>2. Goal(s)
      <4> HIDE DEF Goal
      <4> QED BY <1>2, <3>1
    <3>3. PICK p : Lined(t, p, s) /\ p[0] = i /\ p[n] = i + Len(Lines(s))
      BY <3>2
    <3>4. /\ p \in [0..n -> Nat]
          /\ \A k \in 1..n : /\ Placed(t, p[k - 1], HeaderLine(s[k]))
                             /\ p[k] = p[k - 1] + Len(HeaderLine(s[k]))
      BY <3>3 DEF Lined
    <3> DEFINE pos == [k \in 0..n + 1 |-> IF k <= n THEN p[k] ELSE p[n] + L]
    <3> HIDE DEF n, L
    <3>5. /\ pos \in [0..n + 1 -> Nat] /\ pos[n + 1] = p[n] + L
          /\ \A k \in 0..n : pos[k] = p[k]
      BY <2>1, <2>2, <3>4
    <3> HIDE DEF pos
    <3>6. ASSUME NEW k \in 1..n + 1
          PROVE  /\ Placed(t, pos[k - 1], HeaderLine(z[k]))
                 /\ pos[k] = pos[k - 1] + Len(HeaderLine(z[k]))
      <4>1. CASE k = n + 1
        <5>1. k - 1 = n /\ pos[k - 1] = p[n] /\ pos[k] = p[n] + L /\ z[k] = h
          BY <2>2, <3>5, <4>1
        <5> QED BY <3>1, <3>3, <5>1 DEF L, n
      <4>2. CASE k # n + 1
        <5>1. k \in 1..n /\ k - 1 \in 0..n /\ k \in 0..n
          BY <2>2, <4>2
        <5>2. pos[k - 1] = p[k - 1] /\ pos[k] = p[k] /\ z[k] = s[k]
          BY <2>2, <3>5, <5>1
        <5> QED BY <3>4, <5>1, <5>2
      <4> QED BY <4>1, <4>2
    <3>7. Lined(t, pos, z)
      BY <2>2, <3>5, <3>6 DEF Lined
    <3>8. pos[0] = i
      <4>1. 0 \in 0..n
        BY <2>2
      <4> QED BY <3>3, <3>5, <4>1
    <3>9. pos[Len(z)] = i + Len(Lines(z))
      <4>1. Len(Lines(z)) = Len(Lines(s)) + L
        BY <2>1 DEF L
      <4>2. pos[Len(z)] = i + Len(Lines(s)) + L
        BY <2>2, <3>3, <3>5 DEF n
      <4> QED BY <2>1, <3>1, <4>1, <4>2
    <3> QED BY <3>7, <3>8, <3>9
  <2> HIDE DEF Goal
  <2> QED BY <2>2, <2>3 DEF z
<1>3. hs \in Q
  <2> HIDE DEF Q
  <2> QED BY <1>1, <1>2, SeqInduction
<1> HIDE DEF Goal
<1>4. Goal(hs)
  BY <1>3
<1> QED BY <1>4 DEF Goal

\* A header line is read as it was written.
LEMMA LineRead ==
  ASSUME NEW X, Marks \subseteq X, NEW t \in Seq(X), NEW h, Over(X, h), Writable(h),
         NEW i \in 1..End(t), Placed(t, i, HeaderLine(h))
  PROVE  /\ i < End(t) /\ ~At(t, i, CRLF) /\ parse_header(t, i)
         /\ ValueAt(t, i) = i + Len(h.key) + 2
         /\ LineEnd(t, i) + 2 = i + Len(HeaderLine(h))
         /\ Header(t, Row(t, i)) = h
<1> DEFINE K == Len(h.key)  V == Len(h.val)
           c == i + K
           v == i + K + 2
           e == i + K + 2 + V
<1>0. Len(t) \in Nat /\ End(t) = Len(t) + 1 /\ i \in Nat /\ i >= 1 /\ End(t) \in i..End(t)
  BY DEF End
<1>1. /\ Placed(t, i, h.key) /\ t[c] = ":" /\ t[c + 1] = SP
      /\ Placed(t, v, h.val) /\ t[e] = CR /\ t[e + 1] = LF /\ e + 2 <= Len(t) + 1
  BY <1>0, LinePlaced
<1>2. K \in Nat /\ V \in Nat /\ h.key \in Seq(X) /\ h.val \in Seq(X)
  BY DEF Over
<1>3. /\ \A k \in 1..K : h.key[k] # ":" /\ h.key[k] # CR
      /\ \A k \in 1..V : h.val[k] # CR
      /\ V >= 1 => h.val[1] # SP
      /\ h = [key |-> h.key, val |-> h.val]
  <2>1. DOMAIN h.key = 1..K /\ DOMAIN h.val = 1..V /\ (V >= 1 => h.val # <<>>)
    BY <1>2
  <2> QED BY <2>1 DEF Writable
<1>4. /\ \A k \in i..c - 1 : t[k] # ":" /\ t[k] # CR
      /\ \A k \in v..e - 1 : t[k] # CR
      /\ V >= 1 => t[v] # SP
  <2>1. \A k \in 1..K : t[i - 1 + k] = h.key[k]
    BY <1>1 DEF Placed
  <2>2. \A k \in 1..V : t[v - 1 + k] = h.val[k]
    BY <1>1 DEF Placed
  <2> HIDE DEF K, V
  <2>3. ASSUME NEW k \in i..c - 1 PROVE t[k] # ":" /\ t[k] # CR
    <3>1. k - i + 1 \in 1..K /\ i - 1 + (k - i + 1) = k
      BY <1>0, <1>2
    <3>2. t[i - 1 + (k - i + 1)] = h.key[k - i + 1]
      BY <2>1, <3>1
    <3> QED BY <1>3, <3>1, <3>2
  <2>4. ASSUME NEW k \in v..e - 1 PROVE t[k] # CR
    <3>1. k - v + 1 \in 1..V /\ v - 1 + (k - v + 1) = k
      BY <1>0, <1>2
    <3>2. t[v - 1 + (k - v + 1)] = h.val[k - v + 1]
      BY <2>2, <3>1
    <3> QED BY <1>3, <3>1, <3>2
  <2>5. V >= 1 => t[v] # SP
    <3>1. V >= 1 => 1 \in 1..V /\ v - 1 + 1 = v
      BY <1>0, <1>2
    <3> QED BY <1>3, <2>2, <3>1
  <2> QED BY <2>3, <2>4, <2>5
<1> HIDE DEF K, V
<1>5. /\ c \in i..Len(t) /\ v \in 1..End(t) /\ e \in v..Len(t) - 1 /\ c + 1 \in 1..End(t)
      /\ c \in Nat /\ v \in Nat /\ e \in Nat /\ c + 1 + 1 = v /\ DOMAIN t = 1..Len(t)
      /\ (V = 0 => e = v) /\ e \in 1..End(t)
  BY <1>0, <1>1, <1>2
<1>6. ":" # CR /\ CR # SP /\ LF # CR
  BY DEF CR, SP, LF
<1> HIDE DEF c, v, e
<1>7. Colon(t, i) = c
  <2>1. c \in Where(t, ":") /\ \A k \in i..c - 1 : k \notin Where(t, ":")
    BY <1>0, <1>1, <1>4, <1>5 DEF Where
  <2>2. IsFirst(c, i, End(t), Where(t, ":"))
    BY <1>0, <1>5, <2>1 DEF IsFirst
  <2>3. find_char(t, i, End(t), ":") = c
    BY <1>0, <2>2, OneFound
  <2> QED BY <2>3 DEF Colon
<1>8. ValueAt(t, i) = v
  <2>1. t[v] # SP
    BY <1>1, <1>2, <1>4, <1>5, <1>6
  <2>2. v \in NotSpaces(t) /\ c + 1 \notin NotSpaces(t)
    BY <1>0, <1>1, <1>5, <2>1 DEF NotSpaces
  <2>3. IsFirst(v, c + 1, End(t), NotSpaces(t))
    BY <1>0, <1>5, <2>2 DEF IsFirst
  <2>4. IsFirst(skip_ws(t, c + 1, End(t)), c + 1, End(t), NotSpaces(t))
    BY <1>5, SkipsSpaces
  <2>5. skip_ws(t, c + 1, End(t)) = v
    <3>1. c + 1 \in Nat /\ End(t) \in Nat
      BY <1>0, <1>5
    <3> QED BY <2>3, <2>4, <3>1, OneFirst
  <2> QED BY <1>7, <2>5 DEF ValueAt
<1>9. LineEnd(t, i) = e
  <2>1. e \in Breaks(t)
    <3>1. At(t, e, CRLF)
      BY <1>0, <1>1, <1>5, AtLineEnd
    <3> QED BY <1>0, <1>5, <3>1 DEF Breaks
  <2>2. ASSUME NEW k \in v..e - 1 PROVE k \notin Breaks(t)
    <3>1. k \in 1..End(t) /\ t[k] # CR
      BY <1>0, <1>4, <1>5
    <3>2. ~At(t, k, CRLF)
      BY <3>1, AtLineEnd
    <3> QED BY <3>2 DEF Breaks
  <2>3. IsFirst(e, v, End(t), Breaks(t))
    BY <1>0, <1>5, <2>1, <2>2 DEF IsFirst
  <2>4. IsFirst(skip_to_crlf(t, v), v, End(t), Breaks(t))
    BY <1>5, SkipsToBreak
  <2>5. skip_to_crlf(t, v) = e
    <3>1. End(t) \in Nat
      BY <1>0
    <3> QED BY <1>5, <2>3, <2>4, <3>1, OneFirst
  <2> QED BY <1>8, <2>5 DEF LineEnd
<1>10. parse_header(t, i) /\ i < End(t)
  BY <1>0, <1>5, <1>7, <1>9 DEF parse_header
<1>11. ~At(t, i, CRLF)
  <2>1. t[i] # CR
    <3>1. CASE K = 0
      <4>1. c = i
        BY <1>0, <3>1 DEF c
      <4> QED BY <1>1, <1>6, <4>1
    <3>2. CASE K # 0
      <4>1. i \in i..c - 1
        BY <1>0, <1>2, <3>2 DEF c
      <4> QED BY <1>4, <4>1
    <3> QED BY <3>1, <3>2
  <2> QED BY <2>1, AtLineEnd
<1>12. e + 2 = i + Len(HeaderLine(h))
  <2>1. Len(HeaderLine(h)) = K + V + 4
    BY LineTyped DEF K, V
  <2> QED BY <1>0, <1>2, <2>1 DEF e
<1>13. Header(t, Row(t, i)) = h
  <2>1. Row(t, i).key = i /\ Row(t, i).val = v
    BY <1>8 DEF Row
  <2>2. find_char(t, i, End(t), ":") = c /\ skip_to_crlf(t, v) = e
    BY <1>7, <1>8, <1>9 DEF Colon, LineEnd
  <2>3. Cut(t, i, i + K) = h.key
    <3>1. Placed(t, i, h.key) /\ h.key \in Seq(X)
      BY <1>1, <1>2
    <3>2. Cut(t, i, i + Len(h.key)) = h.key
      BY <3>1, PlacedCut
    <3> QED BY <3>2 DEF K
  <2>4. Cut(t, v, v + V) = h.val
    <3>1. Placed(t, v, h.val) /\ h.val \in Seq(X) /\ v \in 1..End(t)
      BY <1>1, <1>2, <1>5
    <3> HIDE DEF v
    <3>2. Cut(t, v, v + Len(h.val)) = h.val
      BY <3>1, PlacedCut
    <3> QED BY <3>2 DEF V
  <2>5. Header(t, Row(t, i)) = [key |-> Cut(t, i, c), val |-> Cut(t, v, e)]
    BY <2>1, <2>2 DEF Header
  <2> QED BY <1>3, <2>3, <2>4, <2>5 DEF c, v, e
<1> QED BY <1>8, <1>9, <1>10, <1>11, <1>12, <1>13 DEF v, K

\* A table of the headers hs, whose lines stand at the places pos.
IsTable(tab, t, pos, hs, k) ==
  /\ Len(tab.headers) = Len(hs) - k
  /\ \A j \in 1..Len(hs) - k : tab.headers[j] = Row(t, pos[k + j - 1])
  /\ tab.body = pos[Len(hs)] + 2

\* Lines of headers with an empty line behind them are parsed as those headers.
LEMMA HeadersRead ==
  ASSUME NEW X, Marks \subseteq X, NEW t \in Seq(X), NEW H, NEW hs \in Seq(H),
         \A h \in H : Over(X, h) /\ Writable(h), Len(hs) < MaxHeaders,
         NEW pos, Lined(t, pos, hs), pos[0] \in 1..End(t),
         pos[Len(hs)] \in 1..End(t), At(t, pos[Len(hs)], CRLF)
  PROVE  /\ parse_headers(t, pos[0]).headers \in Seq(Rows(t))
         /\ IsTable(parse_headers(t, pos[0]), t, pos, hs, 0)
<1> DEFINE start == pos[0]  N == Len(hs)
<1>0. /\ Len(t) \in Nat /\ End(t) = Len(t) + 1 /\ MaxHeaders \in Nat /\ N \in Nat /\ start \in Nat
      /\ start \in 1..End(t) /\ pos[N] \in 1..End(t) /\ N < MaxHeaders
  BY HeadersAssumption DEF End
<1>1. PICK f \in [0..MaxHeaders -> [start..End(t) -> Tables(t)]] :
        Parses(f, t, start) /\ parse_headers(t, start) = f[MaxHeaders][start]
  BY <1>0, HeadersParsed
<1>2. /\ pos \in [0..N -> Nat]
      /\ \A k \in 1..N : /\ Placed(t, pos[k - 1], HeaderLine(hs[k]))
                         /\ pos[k] = pos[k - 1] + Len(HeaderLine(hs[k]))
  BY DEF Lined
<1>3. \A k \in 1..N : hs[k] \in H /\ Over(X, hs[k]) /\ Writable(hs[k])
  BY <1>0
<1>4. \A k \in 1..N : Len(HeaderLine(hs[k])) \in Nat
  <2> SUFFICES ASSUME NEW k \in 1..N PROVE Len(HeaderLine(hs[k])) \in Nat
    OBVIOUS
  <2>1. HeaderLine(hs[k]) \in Seq(X)
    BY <1>3, LineTyped
  <2> QED BY <2>1
<1> HIDE DEF N, start
<1>5. \A k \in 0..N : pos[k] >= start /\ pos[k] \in Nat
  <2> DEFINE P == {k \in Nat : k <= N => pos[k] >= start}
  <2>1. 0 \in P
    BY <1>0 DEF start
  <2>2. ASSUME NEW k \in Nat, k \in P PROVE k + 1 \in P
    <3> SUFFICES ASSUME k + 1 <= N PROVE pos[k + 1] >= start
      OBVIOUS
    <3>1. k \in 0..N /\ k + 1 \in 1..N /\ k + 1 - 1 = k
      BY <1>0
    <3>2. pos[k + 1] = pos[k] + Len(HeaderLine(hs[k + 1])) /\ Len(HeaderLine(hs[k + 1])) \in Nat
      BY <1>2, <1>4, <3>1
    <3>3. pos[k] >= start /\ pos[k] \in Nat
      <4>1. k <= N
        BY <1>0, <3>1
      <4>2. pos[k] >= start
        BY <2>2, <4>1
      <4>3. pos \in [0..N -> Nat]
        BY <1>2
      <4> QED BY <3>1, <4>2, <4>3
    <3> QED BY <1>0, <3>2, <3>3
  <2>3. \A k \in Nat : k \in P
    <3> HIDE DEF P
    <3> QED BY <2>1, <2>2, Induction
  <2>4. ASSUME NEW k \in 0..N PROVE pos[k] >= start /\ pos[k] \in Nat
    <3>1. k \in Nat /\ k <= N
      BY <1>0
    <3>2. pos[k] >= start
      BY <2>3, <3>1
    <3>3. pos[k] \in Nat
      <4>1. pos \in [0..N -> Nat]
        BY <1>2
      <4> QED BY <4>1
    <3> QED BY <3>2, <3>3
  <2> QED BY <2>4
<1>6. ASSUME NEW k \in 1..N
      PROVE  /\ pos[k - 1] \in 1..End(t) /\ pos[k - 1] \in start..End(t) /\ pos[k - 1] < End(t)
             /\ ~At(t, pos[k - 1], CRLF) /\ parse_header(t, pos[k - 1])
             /\ LineEnd(t, pos[k - 1]) + 2 = pos[k]
  <2>1. k - 1 \in 0..N
    BY <1>0
  <2>2. pos[k - 1] \in Nat /\ pos[k - 1] >= start
    BY <1>5, <2>1
  <2>3. Placed(t, pos[k - 1], HeaderLine(hs[k])) /\ Len(HeaderLine(hs[k])) \in Nat
    BY <1>2, <1>4
  <2>4. pos[k - 1] \in 1..End(t) /\ pos[k - 1] \in start..End(t)
    BY <1>0, <2>2, <2>3 DEF Placed
  <2>5. /\ pos[k - 1] < End(t) /\ ~At(t, pos[k - 1], CRLF) /\ parse_header(t, pos[k - 1])
        /\ LineEnd(t, pos[k - 1]) + 2 = pos[k - 1] + Len(HeaderLine(hs[k]))
    BY <1>3, <2>3, <2>4, LineRead
  <2> QED BY <1>2, <2>4, <2>5
<1>7. pos[N] \in start..End(t) /\ At(t, pos[N], CRLF) /\ pos[N] < End(t)
  <2>1. At(t, pos[N], CRLF)
    BY DEF N
  <2>2. pos[N] + 2 <= End(t)
    BY <1>0, <2>1, AtLineEnd
  <2>3. N \in 0..N
    BY <1>0
  <2> QED BY <1>0, <1>5, <2>1, <2>2, <2>3
<1>12. \A k \in 0..N - 1 : pos[k] \in start..End(t)
  <2> SUFFICES ASSUME NEW k \in 0..N - 1 PROVE pos[k] \in start..End(t)
    OBVIOUS
  <2> DEFINE m == k + 1
  <2>1. m \in 1..N /\ m - 1 = k
    BY <1>0
  <2> HIDE DEF m
  <2>2. pos[m - 1] \in start..End(t)
    BY <1>6, <2>1
  <2> QED BY <2>1, <2>2
<1> DEFINE Q == {d \in Nat : d <= N => \A n \in 0..MaxHeaders :
                               n > d => IsTable(f[n][pos[N - d]], t, pos, hs, N - d)}
<1>8. 0 \in Q
  <2> SUFFICES ASSUME NEW n \in 0..MaxHeaders, n > 0
               PROVE  IsTable(f[n][pos[N]], t, pos, hs, N)
    <3>1. N - 0 = N
      BY <1>0
    <3> QED BY <3>1
  <2>1. f[n][pos[N]] = [headers |-> <<>>, body |-> pos[N] + 2]
    BY <1>1, <1>7 DEF Parses
  <2>2. f[n][pos[N]].headers = <<>> /\ f[n][pos[N]].body = pos[N] + 2
    BY <2>1
  <2>3. Len(f[n][pos[N]].headers) = N - N /\ 1..N - N = {}
    BY <1>0, <2>2
  <2> QED BY <2>2, <2>3 DEF IsTable, N
<1>9. ASSUME NEW d \in Nat, d \in Q PROVE d + 1 \in Q
  <2> SUFFICES ASSUME d + 1 <= N, NEW n \in 0..MaxHeaders, n > d + 1
               PROVE  IsTable(f[n][pos[N - (d + 1)]], t, pos, hs, N - (d + 1))
    OBVIOUS
  <2> DEFINE k == N - d
  <2>1. k \in 1..N /\ N - (d + 1) = k - 1 /\ N - k = d /\ N - (k - 1) = d + 1 /\ k \in Nat
    BY <1>0
  <2>2. n - 1 \in 0..MaxHeaders /\ n - 1 > d /\ n > 0 /\ d <= N
    BY <1>0
  <2>3. IsTable(f[n - 1][pos[k]], t, pos, hs, k)
    BY <1>9, <2>2
  <2> HIDE DEF k, Q
  <2> DEFINE i == pos[k - 1]
             rest == f[n - 1][pos[k]]
             tab == f[n][i]
  <2>4. /\ i \in start..End(t) /\ i < End(t) /\ i \in 1..End(t)
        /\ ~At(t, i, CRLF) /\ parse_header(t, i)
        /\ LineEnd(t, i) + 2 = pos[k]
    BY <1>6, <2>1
  <2>5. pos[k] \in start..End(t)
    <3>1. CASE k = N
      BY <1>7, <3>1
    <3>2. CASE k # N
      <4>1. k \in 0..N - 1
        BY <1>0, <2>1, <3>2
      <4> QED BY <1>12, <4>1
    <3> QED BY <3>1, <3>2
  <2>6. tab = Listed(rest, t, i)
    <3> HIDE DEF i
    <3>1. f[n][i] = Listed(f[n - 1][LineEnd(t, i) + 2], t, i)
      BY <1>1, <2>2, <2>4 DEF Parses
    <3> QED BY <2>4, <3>1
  <2>7. rest \in Tables(t)
    BY <2>2, <2>5
  <2>8. i \in 1..Len(t)
    <3> HIDE DEF i
    <3> QED BY <1>0, <2>4
  <2>9. Row(t, i) \in Rows(t)
    <3> HIDE DEF i
    <3> QED BY <2>4, <2>8, RowIs
  <2> HIDE DEF rest, tab
  <2>10. rest.headers \in Seq(Rows(t))
    BY <2>7 DEF Tables
  <2>11. tab.headers = <<Row(t, i)>> \o rest.headers /\ tab.body = rest.body
    BY <2>6 DEF Listed
  <2>12. /\ Len(tab.headers) = Len(rest.headers) + 1 /\ tab.headers[1] = Row(t, i)
         /\ \A j \in 1..Len(rest.headers) : tab.headers[j + 1] = rest.headers[j]
    <3> HIDE DEF i
    <3> QED BY <2>9, <2>10, <2>11, Prepended
  <2>13. /\ Len(rest.headers) = d /\ rest.body = pos[N] + 2
         /\ \A j \in 1..d : rest.headers[j] = Row(t, pos[k + j - 1])
    <3>1. IsTable(rest, t, pos, hs, k)
      BY <2>3 DEF rest
    <3> QED BY <2>1, <3>1 DEF IsTable, N
  <2>14. ASSUME NEW j \in 1..d + 1 PROVE tab.headers[j] = Row(t, pos[k - 1 + j - 1])
    <3>1. CASE j = 1
      <4>1. k - 1 + j - 1 = k - 1
        BY <2>1, <3>1
      <4> QED BY <2>12, <3>1, <4>1 DEF i
    <3>2. CASE j # 1
      <4> DEFINE m == j - 1
      <4>1. m \in 1..d /\ m + 1 = j /\ k - 1 + j - 1 = k + m - 1
        BY <2>1, <3>2
      <4> HIDE DEF m
      <4>2. tab.headers[m + 1] = Row(t, pos[k + m - 1])
        BY <2>12, <2>13, <4>1
      <4> QED BY <4>1, <4>2
    <3> QED BY <3>1, <3>2
  <2>15. IsTable(tab, t, pos, hs, k - 1)
    BY <2>1, <2>11, <2>12, <2>13, <2>14 DEF IsTable, N
  <2> QED BY <2>1, <2>15 DEF tab, i
<1>10. IsTable(f[MaxHeaders][start], t, pos, hs, 0)
  <2>1. N \in Q
    <3> HIDE DEF Q
    <3> QED BY <1>0, <1>8, <1>9, Induction
  <2>2. MaxHeaders \in 0..MaxHeaders /\ N - N = 0 /\ N <= N /\ MaxHeaders > N
    BY <1>0
  <2>3. IsTable(f[MaxHeaders][pos[N - N]], t, pos, hs, N - N)
    BY <2>1, <2>2
  <2> QED BY <2>2, <2>3 DEF start
<1>11. f[MaxHeaders][start].headers \in Seq(Rows(t))
  <2>1. MaxHeaders \in 0..MaxHeaders /\ start \in start..End(t)
    BY <1>0
  <2>2. f[MaxHeaders][start] \in Tables(t)
    BY <2>1
  <2> QED BY <2>2 DEF Tables
<1> QED BY <1>1, <1>10, <1>11 DEF start

\* The headers hs are read from where their lines stand.
IsRead(hd, t, hs) ==
  /\ hd \in Seq(Rows(t)) /\ Len(hd) = Len(hs)
  /\ \A j \in 1..Len(hs) : /\ Header(t, hd[j]) = hs[j] /\ hd[j].key \in 1..End(t)
                           /\ Placed(t, hd[j].key, HeaderLine(hs[j]))
                           /\ hd[j].val = hd[j].key + Len(hs[j].key) + 2

\* The headers that have been written are the headers that are read, and the
\* body begins behind their empty line.
LEMMA BlockRead ==
  ASSUME NEW X, Marks \subseteq X, NEW t \in Seq(X), NEW H, NEW hs \in Seq(H),
         \A h \in H : Over(X, h) /\ Writable(h), Len(hs) < MaxHeaders,
         NEW i \in 1..End(t), Placed(t, i, Lines(hs) \o CRLF)
  PROVE  /\ IsRead(parse_headers(t, i).headers, t, hs)
         /\ parse_headers(t, i).body = i + Len(Lines(hs) \o CRLF)
<1>0. /\ Len(t) \in Nat /\ End(t) = Len(t) + 1 /\ i \in Nat /\ i >= 1
      /\ \A h \in H : Over(X, h)
  BY DEF End
<1>1. Lines(hs) \in Seq(X)
  <2>1. LinesGrow(X, H)
    BY <1>0, LinesSteps
  <2>2. CASE hs = <<>>
    <3>1. Lines(<<>>) = <<>>
      BY <2>1 DEF LinesGrow
    <3>2. Lines(hs) = <<>>
      BY <2>2, <3>1
    <3> QED BY <3>2
  <2>3. CASE hs # <<>>
    <3>1. \E h : h \in H
      BY <2>3
    <3> QED BY <2>1, <3>1 DEF LinesGrow
  <2> QED BY <2>2, <2>3
<1>2. CRLF \in Seq(X) /\ Len(CRLF) = 2
  BY DEF Marks, CRLF
<1> DEFINE L == Lines(hs)
<1>3. Len(L \o CRLF) = Len(L) + 2 /\ Len(L) \in Nat
  BY <1>1, <1>2, JoinLen
<1>4. Placed(t, i, L) /\ Placed(t, i + Len(L), CRLF) /\ i + Len(L) \in Nat
  BY <1>0, <1>1, <1>2, PlacedSplit
<1>5. PICK pos : Lined(t, pos, hs) /\ pos[0] = i /\ pos[Len(hs)] = i + Len(L)
  BY <1>0, <1>4, LinesPlaced
<1>6. pos[Len(hs)] \in 1..End(t) /\ At(t, pos[Len(hs)], CRLF)
  <2>1. i + Len(L) + 2 <= Len(t) + 1
    BY <1>2, <1>4 DEF Placed
  <2> HIDE DEF L
  <2>2. pos[Len(hs)] \in 1..End(t)
    BY <1>0, <1>3, <1>5, <2>1
  <2>3. At(t, pos[Len(hs)], CRLF)
    BY <1>2, <1>4, <1>5, <2>2, AtPlaced
  <2> QED BY <2>2, <2>3
<1> HIDE DEF L
<1> DEFINE hd == parse_headers(t, i).headers
<1>7. hd \in Seq(Rows(t)) /\ IsTable(parse_headers(t, i), t, pos, hs, 0)
  <2>1. pos[0] \in 1..End(t)
    BY <1>5
  <2>2. /\ parse_headers(t, pos[0]).headers \in Seq(Rows(t))
        /\ IsTable(parse_headers(t, pos[0]), t, pos, hs, 0)
    BY <1>5, <1>6, <2>1, HeadersRead
  <2> QED BY <1>5, <2>2
<1>8. /\ Len(hd) = Len(hs) - 0 /\ parse_headers(t, i).body = i + Len(L) + 2
      /\ \A j \in 1..Len(hs) - 0 : hd[j] = Row(t, pos[0 + j - 1])
  BY <1>5, <1>7 DEF IsTable
<1> HIDE DEF hd
<1>9. Len(hs) \in Nat /\ Len(hs) - 0 = Len(hs) /\ \A j \in 1..Len(hs) : hs[j] \in H
  OBVIOUS
<1>10. ASSUME NEW j \in 1..Len(hs)
       PROVE  /\ Header(t, hd[j]) = hs[j] /\ hd[j].key \in 1..End(t)
              /\ Placed(t, hd[j].key, HeaderLine(hs[j]))
              /\ hd[j].val = hd[j].key + Len(hs[j].key) + 2
  <2> DEFINE p == pos[j - 1]  h == hs[j]
  <2>1. hd[j] = Row(t, p)
    <3>1. 0 + j - 1 = j - 1
      BY <1>9
    <3> QED BY <1>8, <1>9, <3>1
  <2>2. hd[j].key = p /\ hd[j].val = ValueAt(t, p)
    BY <2>1 DEF Row
  <2>3. Placed(t, p, HeaderLine(h)) /\ p \in Nat
    <3>1. j - 1 \in 0..Len(hs)
      BY <1>9
    <3> QED BY <1>5, <3>1 DEF Lined
  <2>4. p \in 1..End(t)
    <3>1. hd[j] \in Rows(t)
      BY <1>7, <1>8, <1>9
    <3>2. hd[j].key \in 1..Len(t)
      BY <3>1 DEF Rows
    <3> QED BY <1>0, <2>2, <3>2
  <2>5. Over(X, h) /\ Writable(h)
    BY <1>9
  <2> HIDE DEF p, h
  <2>6. ValueAt(t, p) = p + Len(h.key) + 2 /\ Header(t, Row(t, p)) = h
    BY <2>3, <2>4, <2>5, LineRead
  <2> QED BY <2>1, <2>2, <2>3, <2>4, <2>6 DEF h
<1>11. IsRead(hd, t, hs)
  BY <1>7, <1>8, <1>9, <1>10 DEF IsRead, hd
<1>12. i + Len(L) + 2 = i + Len(L \o CRLF)
  BY <1>0, <1>3
<1> QED BY <1>8, <1>11, <1>12 DEF hd, L

\* What the formatter writes between the first line and the body.
Length == [key |-> <<"Content-Length">>, val |-> <<"n">>]
Sending(r) == r.headers \o Added(r)

\* The header that the formatter adds can be told from the text around it.
LEMMA LengthWritable ==
  ASSUME NEW X, Marks \subseteq X
  PROVE  Over(X, Length) /\ Writable(Length)
<1>1. /\ Length.key = <<"Content-Length">> /\ Length.val = <<"n">>
      /\ Length = [key |-> Length.key, val |-> Length.val]
  BY DEF Length
<1>2. Over(X, Length)
  <2>1. <<"Content-Length">> \in Seq(X) /\ <<"n">> \in Seq(X)
    BY DEF Marks
  <2> QED BY <1>1, <2>1 DEF Over
<1>3. \A c : /\ DOMAIN <<c>> = 1..1 /\ <<c>>[1] = c /\ IsList(<<c>>) /\ <<c>> # <<>>
             /\ \A i \in DOMAIN <<c>> : <<c>>[i] = c
  BY DEF IsList
<1>4. "Content-Length" \notin {":", CR} /\ "n" # CR /\ "n" # SP
  BY DEF CR, SP
<1> HIDE DEF Length
<1> QED BY <1>1, <1>2, <1>3, <1>4 DEF Writable

\* The header lines with their empty line, as they are when nothing is cut off.
HeaderLines(headers, body) ==
  Lines(headers) \o (IF body = <<>> THEN <<>> ELSE HeaderLine(Length)) \o CRLF

\* What the formatter writes between the first line and the body.
LEMMA HeadersWritten ==
  ASSUME NEW X, Marks \subseteq X, NEW H, \A h \in H : Over(X, h),
         NEW r, r.headers \in Seq(H)
  PROVE  /\ HeaderLines(r.headers, r.body) = Lines(Sending(r)) \o CRLF
         /\ Lines(Sending(r)) \in Seq(X)
         /\ Sending(r) \in Seq(H \cup {Length})
         /\ r.body = <<>> => Sending(r) = r.headers
         /\ r.body # <<>> => Sending(r) = Append(r.headers, Length)
<1> DEFINE hs == r.headers
           HL == H \cup {Length}
<1>1. \A h \in HL : Over(X, h)
  BY LengthWritable
<1>2. LinesGrow(X, HL)
  <2> HIDE DEF HL
  <2> QED BY <1>1, LinesSteps
<1>3. hs \in Seq(HL) /\ Length \in HL
  OBVIOUS
<1>4. Lines(hs) \in Seq(X) /\ Lines(Append(hs, Length)) = Lines(hs) \o HeaderLine(Length)
  <2> HIDE DEF HL, hs
  <2> QED BY <1>2, <1>3 DEF LinesGrow
<1>5. CASE r.body = <<>>
  <2>1. Added(r) = <<>> /\ hs \o <<>> = hs /\ Lines(hs) \o <<>> = Lines(hs)
    BY <1>3, <1>4, <1>5, ConcatEmptySeq DEF Added
  <2>2. Sending(r) = hs
    BY <2>1 DEF Sending
  <2>3. HeaderLines(hs, r.body) = Lines(hs) \o <<>> \o CRLF
    BY <1>5 DEF HeaderLines
  <2> QED BY <1>3, <1>4, <1>5, <2>1, <2>2, <2>3
<1>6. CASE r.body # <<>>
  <2>1. Added(r) = <<Length>>
    BY <1>6 DEF Added, Length
  <2>2. Sending(r) = Append(hs, Length)
    <3>1. hs \o <<Length>> = Append(hs, Length)
      BY <1>3, AppendIsConcat
    <3> QED BY <2>1, <3>1 DEF Sending
  <2>3. HeaderLines(hs, r.body) = Lines(hs) \o HeaderLine(Length) \o CRLF
    BY <1>6 DEF HeaderLines
  <2>4. Append(hs, Length) \in Seq(HL) /\ HeaderLine(Length) \in Seq(X)
    <3>1. HeaderLine(Length) \in Seq(X)
      BY LengthWritable, LineTyped
    <3> QED BY <1>3, <3>1
  <2>5. Lines(hs) \o HeaderLine(Length) \in Seq(X)
    BY <1>4, <2>4, JoinLen
  <2> QED BY <1>4, <1>6, <2>2, <2>3, <2>4, <2>5
<1> QED BY <1>5, <1>6

-----------------------------------------------------------------------------
(***************************************************************************)
(* What the formatters write when it fits                                  *)
(***************************************************************************)

\* What may stand in the buffer of a head over X.
Cells(X) == X \cup {NUL, Stale}

\* out is what has been written of plain: as long, and the same if it fits.
Writes(X, out, plain) ==
  /\ out \in Seq(Cells(X)) /\ plain \in Seq(X) /\ Len(out) = Len(plain)
  /\ Len(plain) < HeadRoom => out = plain

\* A piece more.
LEMMA PutWrites ==
  ASSUME NEW X, NEW out, NEW plain, Writes(X, out, plain), NEW piece \in Seq(X)
  PROVE  Writes(X, Put(out, piece), plain \o piece)
<1> DEFINE C == Cells(X)  n == Len(out)  m == Len(piece)  z == snprintf(HeadRoom, n, piece)
<1>1. /\ out \in Seq(C) /\ plain \in Seq(X) /\ Len(plain) = n
      /\ n < HeadRoom => out = plain
  BY DEF Writes
<1>2. n \in Nat /\ m \in Nat /\ DOMAIN piece = 1..m /\ \A i \in 1..m : piece[i] \in X
  BY <1>1
<1>3. HeadRoom \in Nat
  BY HeadersAssumption
<1>4. z = [i \in 1..m |-> IF n > HeadRoom \/ n + i < HeadRoom THEN piece[i]
                          ELSE IF n + i = HeadRoom THEN NUL ELSE Stale]
  BY <1>2 DEF snprintf
<1>5. z \in Seq(C) /\ Len(z) = m
  <2>1. \A i \in 1..m : (IF n > HeadRoom \/ n + i < HeadRoom THEN piece[i]
                          ELSE IF n + i = HeadRoom THEN NUL ELSE Stale) \in C
    BY <1>2 DEF Cells
  <2>2. z \in [1..m -> C]
    <3> HIDE DEF C, n, m, z
    <3> QED BY <1>4, <2>1
  <2> HIDE DEF C, z
  <2> QED BY <1>2, <2>2
<1>6. n + m < HeadRoom => z = piece
  <2> SUFFICES ASSUME n + m < HeadRoom PROVE z = piece
    OBVIOUS
  <2>1. \A i \in 1..m : n + i < HeadRoom
    BY <1>2, <1>3
  <2>2. z = [i \in 1..m |-> piece[i]]
    <3> HIDE DEF z, n, m
    <3> QED BY <1>4, <2>1
  <2>3. piece = [i \in 1..m |-> piece[i]]
    OBVIOUS
  <2> HIDE DEF z, m
  <2> QED BY <2>2, <2>3
<1> HIDE DEF z, C
<1>7. out \o z \in Seq(C) /\ Len(out \o z) = n + m
  BY <1>1, <1>5, JoinLen
<1>8. plain \o piece \in Seq(X) /\ Len(plain \o piece) = n + m
  BY <1>1, JoinLen
<1>9. n + m < HeadRoom => out \o z = plain \o piece
  BY <1>1, <1>2, <1>3, <1>6
<1> QED BY <1>7, <1>8, <1>9 DEF Writes, Put, C, z

\* The header lines, one after the other.
PutStep(X, H) == [x \in Seq(Cells(X)) \X H |-> Put(x[1], HeaderLine(x[2]))]

\* A piece is written into what may stand in a buffer.
LEMMA PutTyped ==
  ASSUME NEW X, NEW out \in Seq(Cells(X)), NEW piece \in Seq(X)
  PROVE  Put(out, piece) \in Seq(Cells(X))
<1> DEFINE C == Cells(X)  n == Len(out)  m == Len(piece)  z == snprintf(HeadRoom, n, piece)
<1>1. n \in Nat /\ m \in Nat /\ DOMAIN piece = 1..m /\ \A i \in 1..m : piece[i] \in X
  OBVIOUS
<1>2. z = [i \in 1..m |-> IF n > HeadRoom \/ n + i < HeadRoom THEN piece[i]
                          ELSE IF n + i = HeadRoom THEN NUL ELSE Stale]
  BY <1>1 DEF snprintf
<1>3. \A i \in 1..m : (IF n > HeadRoom \/ n + i < HeadRoom THEN piece[i]
                        ELSE IF n + i = HeadRoom THEN NUL ELSE Stale) \in C
  BY <1>1 DEF Cells
<1>4. z \in [1..m -> C]
  <2> HIDE DEF C, n, m, z
  <2> QED BY <1>2, <1>3
<1> HIDE DEF C, z
<1>5. z \in Seq(C)
  BY <1>1, <1>4
<1>6. out \o z \in Seq(C)
  BY <1>5, JoinLen DEF C
<1> QED BY <1>6 DEF Put, C, z

\* PutHeaders is a fold of PutStep.
LEMMA PutsFolded ==
  ASSUME NEW X, Marks \subseteq X, NEW H, \A h \in H : Over(X, h), NEW seq \in Seq(H),
         NEW out \in Seq(Cells(X))
  PROVE  /\ Foldable(Seq(Cells(X)), H, PutStep(X, H), out, seq)
         /\ PutHeaders(out, seq) = Folded(PutStep(X, H), out, seq)
<1> DEFINE V == Seq(Cells(X))  h == PutStep(X, H)
           op(x, s) == Put(x, HeaderLine(s))
           Iter(g) == g = [s \in SUBSET (DOMAIN seq) |->
                             IF s = {} THEN out ELSE op(g[s \ {Max(s)}], seq[Max(s)])]
           c == CHOOSE g : Iter(g)
<1>1. PutHeaders(out, seq) = c[DOMAIN seq]
  BY DEF PutHeaders, FoldLeft, MapThenFoldSet
<1>2. \A x \in V, a \in H : op(x, a) \in V
  <2> SUFFICES ASSUME NEW x \in V, NEW a \in H PROVE op(x, a) \in V
    OBVIOUS
  <2>1. HeaderLine(a) \in Seq(X)
    BY LineTyped
  <2> QED BY <2>1, PutTyped
<1>3. \A x \in V, a \in H : h[<<x, a>>] = op(x, a)
  BY DEF PutStep
<1>4. h \in [V \X H -> V]
  <2>1. h = [x \in V \X H |-> op(x[1], x[2])]
    BY DEF PutStep
  <2>2. \A x \in V \X H : x[1] \in V /\ x[2] \in H
    OBVIOUS
  <2> HIDE DEF h, V, op
  <2> QED BY <1>2, <2>1, <2>2
<1>5. out \in V
  OBVIOUS
<1> HIDE DEF V, h, op
<1>6. Foldable(V, H, h, out, seq)
  BY <1>4, <1>5 DEF Foldable
<1>7. PICK g \in [SUBSET (DOMAIN seq) -> V] : IsIter(g, h, out, seq)
  BY <1>6, IterExists DEF Foldable
<1>8. \A s \in SUBSET (DOMAIN seq) : s # {} => seq[Max(s)] \in H /\ s \ {Max(s)} \in SUBSET (DOMAIN seq)
  BY IterStep
<1>9. Iter(g)
  <2>1. \A s \in SUBSET (DOMAIN seq) : s # {} =>
          h[<<g[s \ {Max(s)}], seq[Max(s)]>>] = op(g[s \ {Max(s)}], seq[Max(s)])
    BY <1>3, <1>7, <1>8
  <2> QED BY <1>7, <2>1 DEF IsIter
<1>10. Iter(c)
  <2> HIDE DEF Iter
  <2> QED BY <1>9
<1> HIDE DEF c
<1>11. Iterates(c, V, h, out, seq)
  <2>1. \A s \in SUBSET (DOMAIN seq) : s # {} /\ c[s \ {Max(s)}] \in V =>
          h[<<c[s \ {Max(s)}], seq[Max(s)]>>] = op(c[s \ {Max(s)}], seq[Max(s)])
    BY <1>3, <1>8
  <2> QED BY <1>10, <2>1 DEF Iterates
<1> QED BY <1>1, <1>6, <1>11, IteratedIs DEF V, h

\* The header lines are written if they fit.
LEMMA HeadersPut ==
  ASSUME NEW X, Marks \subseteq X, NEW H, \A h \in H : Over(X, h), NEW hs \in Seq(H),
         NEW out, NEW plain, Writes(X, out, plain)
  PROVE  Writes(X, PutHeaders(out, hs), plain \o Lines(hs))
<1>0. out \in Seq(Cells(X)) /\ plain \in Seq(X)
  BY DEF Writes
<1>1. LinesGrow(X, H)
  BY LinesSteps
<1>2. Lines(<<>>) = <<>> /\ \A s \in Seq(H), h \in H : /\ Lines(s) \in Seq(X)
                                    /\ Lines(Append(s, h)) = Lines(s) \o HeaderLine(h)
  BY <1>1 DEF LinesGrow
<1>3. PutHeaders(out, <<>>) = out
  <2>1. <<>> \in Seq(H)
    OBVIOUS
  <2>2. /\ Foldable(Seq(Cells(X)), H, PutStep(X, H), out, <<>>)
        /\ PutHeaders(out, <<>>) = Folded(PutStep(X, H), out, <<>>)
    BY <1>0, <2>1, PutsFolded
  <2> QED BY <2>2, FoldedEmpty
<1>4. ASSUME NEW s \in Seq(H), NEW h \in H
      PROVE  PutHeaders(out, Append(s, h)) = Put(PutHeaders(out, s), HeaderLine(h))
  <2>1. Append(s, h) \in Seq(H)
    OBVIOUS
  <2>2. /\ Foldable(Seq(Cells(X)), H, PutStep(X, H), out, s)
        /\ PutHeaders(out, s) = Folded(PutStep(X, H), out, s)
    BY <1>0, PutsFolded
  <2>3. PutHeaders(out, Append(s, h)) = Folded(PutStep(X, H), out, Append(s, h))
    BY <1>0, <2>1, PutsFolded
  <2>4. /\ PutHeaders(out, s) \in Seq(Cells(X))
        /\ PutHeaders(out, Append(s, h)) = PutStep(X, H)[<<PutHeaders(out, s), h>>]
    BY <2>2, <2>3, FoldedAppend
  <2> QED BY <2>4 DEF PutStep
<1> DEFINE Q == {s \in Seq(H) : Writes(X, PutHeaders(out, s), plain \o Lines(s))}
<1>5. <<>> \in Q
  <2>1. plain \o Lines(<<>>) = plain
    BY <1>0, <1>2, ConcatEmptySeq
  <2>2. <<>> \in Seq(H)
    OBVIOUS
  <2> QED BY <1>3, <2>1, <2>2
<1>6. ASSUME NEW s \in Seq(H), NEW h \in H, s \in Q PROVE Append(s, h) \in Q
  <2>1. HeaderLine(h) \in Seq(X) /\ Lines(s) \in Seq(X)
    <3>1. HeaderLine(h) \in Seq(X)
      BY LineTyped
    <3> HIDE DEF Q
    <3> QED BY <1>2, <3>1
  <2>2. Writes(X, PutHeaders(out, s), plain \o Lines(s))
    BY <1>6
  <2>3. Writes(X, Put(PutHeaders(out, s), HeaderLine(h)), (plain \o Lines(s)) \o HeaderLine(h))
    BY <2>1, <2>2, PutWrites
  <2>4. (plain \o Lines(s)) \o HeaderLine(h) = plain \o Lines(Append(s, h))
    <3>1. (plain \o Lines(s)) \o HeaderLine(h) = plain \o (Lines(s) \o HeaderLine(h))
      <4> DEFINE u == Lines(s)  v == HeaderLine(h)
      <4>1. plain \in Seq(X) /\ u \in Seq(X) /\ v \in Seq(X)
        BY <1>0, <2>1
      <4> HIDE DEF u, v, Q
      <4>2. (plain \o u) \o v = plain \o (u \o v)
        BY <4>1, ConcatAssociative
      <4> QED BY <4>2 DEF u, v
    <3>2. Lines(Append(s, h)) = Lines(s) \o HeaderLine(h)
      <4> HIDE DEF Q
      <4> QED BY <1>2
    <3> QED BY <3>1, <3>2
  <2>5. Append(s, h) \in Seq(H)
    OBVIOUS
  <2> QED BY <1>4, <2>3, <2>4, <2>5
<1>7. hs \in Q
  <2> HIDE DEF Q
  <2> QED BY <1>5, <1>6, SeqInduction
<1> QED BY <1>7

\* So are the header the formatter adds and the empty line.
LEMMA HeadEnds ==
  ASSUME NEW X, Marks \subseteq X, NEW H, \A h \in H : Over(X, h),
         NEW r, r.headers \in Seq(H), NEW out, NEW plain, Writes(X, out, plain)
  PROVE  Writes(X, HeadEnded(out, r), plain \o HeaderLines(r.headers, r.body))
<1> DEFINE hs == r.headers  L == Lines(hs)  A == HeaderLine(Length)
           P == PutHeaders(out, hs)
<1>1. plain \in Seq(X) /\ CRLF \in Seq(X)
  BY DEF Writes, Marks, CRLF
<1>2. L \in Seq(X)
  <2>1. LinesGrow(X, H)
    BY LinesSteps
  <2>2. \A s \in Seq(H), h \in H : Lines(s) \in Seq(X)
    BY <2>1 DEF LinesGrow
  <2>3. CASE H = {}
    <3>1. hs = <<>>
      BY <2>3
    <3>2. L = <<>>
      BY <2>1, <3>1 DEF LinesGrow
    <3> QED BY <3>2
  <2>4. CASE H # {}
    BY <2>2, <2>4
  <2> QED BY <2>3, <2>4
<1>3. A \in Seq(X)
  BY LengthWritable, LineTyped
<1>4. Writes(X, P, plain \o L)
  BY HeadersPut
<1> HIDE DEF P, L, A, hs
<1>5. CASE r.body = <<>>
  <2>1. PutLength(P, r.body) = P
    BY <1>5 DEF PutLength
  <2>2. Writes(X, Put(P, CRLF), (plain \o L) \o CRLF)
    BY <1>1, <1>4, PutWrites
  <2>3. (plain \o L) \o CRLF = plain \o (L \o CRLF)
    BY <1>1, <1>2, ConcatAssociative
  <2>4. HeaderLines(hs, r.body) = L \o CRLF
    <3>1. L \o <<>> = L
      BY <1>2, ConcatEmptySeq
    <3> QED BY <1>5, <3>1 DEF HeaderLines, L
  <2> QED BY <2>1, <2>2, <2>3, <2>4 DEF HeadEnded, P, hs
<1>6. CASE r.body # <<>>
  <2>1. PutLength(P, r.body) = Put(P, A)
    BY <1>6 DEF PutLength, A, Length
  <2>2. Writes(X, Put(P, A), (plain \o L) \o A)
    BY <1>3, <1>4, PutWrites
  <2>3. Writes(X, Put(Put(P, A), CRLF), ((plain \o L) \o A) \o CRLF)
    BY <1>1, <2>2, PutWrites
  <2>4. L \o A \in Seq(X)
    BY <1>2, <1>3
  <2>5. (plain \o L) \o A = plain \o (L \o A)
    BY <1>1, <1>2, <1>3, ConcatAssociative
  <2>6. (plain \o (L \o A)) \o CRLF = plain \o ((L \o A) \o CRLF)
    <3> DEFINE u == L \o A
    <3>1. plain \in Seq(X) /\ u \in Seq(X) /\ CRLF \in Seq(X)
      BY <1>1, <2>4
    <3> HIDE DEF u
    <3>2. (plain \o u) \o CRLF = plain \o (u \o CRLF)
      BY <3>1, ConcatAssociative
    <3> QED BY <3>2 DEF u
  <2>7. HeaderLines(hs, r.body) = (L \o A) \o CRLF
    BY <1>6 DEF HeaderLines, L, A
  <2> QED BY <2>1, <2>3, <2>5, <2>6, <2>7 DEF HeadEnded, P, hs
<1> QED BY <1>5, <1>6

-----------------------------------------------------------------------------
(***************************************************************************)
(* Requests                                                                *)
(***************************************************************************)

\* The places in a request line and what the parser makes of it.
PathFrom(t) == skip_ws(t, 2, End(t))
PathTo(t) == find_char(t, PathFrom(t), End(t), SP)
VersionAt(t) == skip_ws(t, PathTo(t), End(t))
NulAt(t) == NulFrom(t, PathFrom(t))
QueryAt(t) == find_char(t, PathFrom(t), PathTo(t), "?")
Begun(t) == /\ find_char(t, 1, End(t), SP) = 2 /\ 2 < End(t) /\ t[1] \in Methods
            /\ PathTo(t) < End(t) /\ At(t, VersionAt(t), <<Version>>)
            /\ At(t, VersionAt(t) + 1, CRLF)

\* The places of a request line that is whole are in their order.
LEMMA RequestPlaces ==
  ASSUME NEW X, NEW t \in Seq(X), Begun(t)
  PROVE  /\ PathFrom(t) \in 2..PathTo(t) /\ PathFrom(t) < End(t)
         /\ PathTo(t) \in 2..Len(t) /\ t[PathTo(t)] = SP
         /\ VersionAt(t) \in PathTo(t)..Len(t) /\ t[VersionAt(t)] = Version
         /\ VersionAt(t) + 3 \in 1..End(t)
         /\ NulAt(t) \in PathFrom(t)..PathTo(t)
         /\ QueryAt(t) \in PathFrom(t)..PathTo(t)
<1>0. Len(t) \in Nat /\ End(t) = Len(t) + 1 /\ 2 \in 1..End(t)
  BY DEF End, Begun
<1>1. IsFirst(PathFrom(t), 2, End(t), NotSpaces(t))
  BY <1>0, SkipsSpaces DEF PathFrom
<1>2. PathFrom(t) \in 2..End(t)
  BY <1>1 DEF IsFirst
<1>3. PathFrom(t) \in 1..End(t) /\ End(t) \in PathFrom(t)..End(t)
  BY <1>0, <1>2
<1>4. /\ PathTo(t) \in PathFrom(t)..End(t) /\ PathTo(t) < End(t)
      /\ t[PathTo(t)] = SP
  <2>1. /\ PathTo(t) \in PathFrom(t)..End(t)
        /\ PathTo(t) < End(t) => t[PathTo(t)] = SP
    BY <1>3, FindCharFacts DEF PathTo
  <2> QED BY <2>1 DEF Begun
<1>5. PathTo(t) \in 1..End(t) /\ PathTo(t) \in 2..Len(t)
  BY <1>0, <1>2, <1>4
<1>6. IsFirst(VersionAt(t), PathTo(t), End(t), NotSpaces(t))
  BY <1>5, SkipsSpaces DEF VersionAt
<1>7. VersionAt(t) \in PathTo(t)..End(t)
  BY <1>6 DEF IsFirst
<1>8. VersionAt(t) \in 1..End(t)
  BY <1>0, <1>5, <1>7
<1>9. VersionAt(t) < End(t) /\ t[VersionAt(t)] = Version
  BY <1>8, AtOne DEF Begun
<1>10. VersionAt(t) + 1 \in 1..End(t)
  BY <1>0, <1>8, <1>9
<1>11. VersionAt(t) + 1 + 2 <= End(t)
  BY <1>10, AtLineEnd DEF Begun
<1>12. IsFirst(NulAt(t), PathFrom(t), End(t), PathEnds(t))
  BY <1>3, PathEndsAt DEF NulAt
<1>13. NulAt(t) \in PathFrom(t)..PathTo(t)
  <2>1. PathTo(t) \in PathEnds(t)
    <3>1. PathTo(t) \in DOMAIN t
      BY <1>0, <1>5
    <3> QED BY <1>4, <3>1 DEF PathEnds, EndsPath
  <2>2. NulAt(t) \in PathFrom(t)..End(t) /\ \A k \in PathFrom(t)..NulAt(t) - 1 : k \notin PathEnds(t)
    BY <1>12 DEF IsFirst
  <2> QED BY <1>0, <1>2, <1>4, <2>1, <2>2
<1>14. QueryAt(t) \in PathFrom(t)..PathTo(t)
  <2>1. PathTo(t) \in PathFrom(t)..End(t)
    BY <1>4
  <2> QED BY <1>3, <2>1, FindCharFacts DEF QueryAt
<1>15. PathFrom(t) \in 2..PathTo(t) /\ PathFrom(t) < End(t)
  BY <1>0, <1>2, <1>4
<1>16. VersionAt(t) \in PathTo(t)..Len(t) /\ VersionAt(t) + 3 \in 1..End(t)
  BY <1>0, <1>5, <1>7, <1>9, <1>11
<1> QED BY <1>4, <1>5, <1>9, <1>13, <1>14, <1>15, <1>16

\* cwh_parse_req rejects a text whose request line is not whole, and otherwise
\* cuts it at these places.
LEMMA RequestRead ==
  ASSUME NEW X, NEW t \in Seq(X), t # <<>>
  PROVE  cwh_parse_req(t) =
           IF ~Begun(t) THEN ParseError
           ELSE [ok |-> TRUE, method |-> t[1], path |-> Cut(t, PathFrom(t), NulAt(t)),
                 query |-> IF QueryAt(t) < PathTo(t) THEN QueryAt(t) + 1 ELSE 0,
                 headers |-> parse_headers(t, VersionAt(t) + 1 + 2).headers,
                 body |-> Cut(t, parse_headers(t, VersionAt(t) + 1 + 2).body, End(t))]
<1> DEFINE m == find_char(t, 1, End(t), SP)
<1>0. Len(t) \in Nat /\ End(t) = Len(t) + 1 /\ Len(t) >= 1
  BY EmptySeq DEF End
<1>1. CASE ~(m = 2 /\ m < End(t) /\ t[1] \in Methods)
  <2>1. parse_method(t) = 0
    BY <1>1 DEF parse_method
  <2>2. ~Begun(t)
    BY <1>1 DEF Begun
  <2> QED BY <2>1, <2>2 DEF cwh_parse_req
<1>2. CASE m = 2 /\ m < End(t) /\ t[1] \in Methods
  <2>1. parse_method(t) = 2
    BY <1>2 DEF parse_method
  <2>2. 2 \in 1..End(t) /\ 2 < End(t)
    BY <1>0, <1>2
  <2>3. PathFrom(t) \in 2..End(t)
    <3>1. IsFirst(PathFrom(t), 2, End(t), NotSpaces(t))
      BY <2>2, SkipsSpaces DEF PathFrom
    <3> QED BY <3>1 DEF IsFirst
  <2>4. PathFrom(t) \in 1..End(t) /\ End(t) \in PathFrom(t)..End(t)
    BY <1>0, <2>3
  <2>5. PathTo(t) \in PathFrom(t)..End(t)
    BY <2>4, FindCharFacts DEF PathTo
  <2>6. PathTo(t) # 0
    BY <2>3, <2>5
  <2>7. CASE PathTo(t) = End(t)
    <3>1. parse_path(t, PathFrom(t)) = 0
      BY <1>0, <2>7 DEF parse_path, PathTo
    <3>2. ~Begun(t)
      BY <1>0, <2>7 DEF Begun
    <3> QED BY <2>1, <3>1, <3>2 DEF cwh_parse_req, PathFrom
  <2>8. CASE PathTo(t) # End(t)
    <3>1. PathTo(t) < End(t)
      BY <1>0, <2>3, <2>5, <2>8
    <3>2. parse_path(t, PathFrom(t)) = PathTo(t)
      BY <3>1 DEF parse_path, PathTo
    <3>3. parse_version(t, PathTo(t)) <=> At(t, VersionAt(t), <<Version>>)
      BY DEF parse_version, VersionAt
    <3>4. Begun(t) <=> parse_version(t, PathTo(t)) /\ At(t, VersionAt(t) + 1, CRLF)
      BY <1>2, <3>1, <3>3 DEF Begun
    <3> HIDE DEF m
    <3>5. skip_ws(t, 2, End(t)) = PathFrom(t) /\ skip_ws(t, PathTo(t), End(t)) = VersionAt(t)
          /\ find_char(t, PathFrom(t), PathTo(t), "?") = QueryAt(t)
      BY DEF PathFrom, VersionAt, QueryAt
    <3>6. cwh_parse_req(t) =
            IF 2 = 0 \/ PathTo(t) = 0 \/ ~parse_version(t, PathTo(t)) \/ ~At(t, VersionAt(t) + 1, CRLF)
            THEN ParseError
            ELSE [ok |-> TRUE, method |-> t[1], path |-> Cut(t, PathFrom(t), NulAt(t)),
                  query |-> IF QueryAt(t) < PathTo(t) THEN QueryAt(t) + 1 ELSE 0,
                  headers |-> parse_headers(t, VersionAt(t) + 1 + 2).headers,
                  body |-> Cut(t, parse_headers(t, VersionAt(t) + 1 + 2).body, End(t))]
      BY <2>1, <3>2, <3>5 DEF cwh_parse_req, NulAt, NulFrom
    <3> QED BY <2>6, <3>4, <3>6
  <2> QED BY <2>7, <2>8
<1> QED BY <1>1, <1>2

\* A request line that is whole in the beginning of a text is the same in it.
LEMMA BegunStays ==
  ASSUME NEW X, NEW t \in Seq(X), NEW w \in Seq(X), Begins(t, w), Begun(t)
  PROVE  /\ Begun(w) /\ PathFrom(w) = PathFrom(t) /\ PathTo(w) = PathTo(t)
         /\ VersionAt(w) = VersionAt(t) /\ NulAt(w) = NulAt(t) /\ w[1] = t[1]
<1>0. /\ Len(t) \in Nat /\ Len(w) \in Nat /\ End(t) = Len(t) + 1 /\ End(w) = Len(w) + 1
      /\ Len(t) <= Len(w) /\ \A k \in 1..Len(t) : t[k] = w[k]
  BY DEF End, Begins
<1>1. /\ PathFrom(t) \in 2..PathTo(t) /\ PathFrom(t) < End(t)
      /\ PathTo(t) \in 2..Len(t) /\ t[PathTo(t)] = SP
      /\ VersionAt(t) \in PathTo(t)..Len(t) /\ t[VersionAt(t)] = Version
      /\ VersionAt(t) + 3 \in 1..End(t)
      /\ NulAt(t) \in PathFrom(t)..PathTo(t)
  BY RequestPlaces
<1>2. /\ find_char(t, 1, End(t), SP) = 2 /\ 2 < End(t) /\ t[1] \in Methods
      /\ At(t, VersionAt(t) + 1, CRLF)
  BY DEF Begun
<1>3. /\ 1 \in 1..End(t) /\ 2 \in 1..End(t) /\ PathFrom(t) \in 1..End(t)
      /\ PathTo(t) \in 1..End(t) /\ PathTo(t) < End(t) /\ VersionAt(t) < End(t)
      /\ NulAt(t) < End(t) /\ VersionAt(t) \in 1..Len(t) /\ VersionAt(t) + 1 \in 1..End(t)
  <2> DEFINE p == PathFrom(t)  q == PathTo(t)  v == VersionAt(t)  u == NulAt(t)  L == Len(t)
  <2>1. /\ L \in Nat /\ End(t) = L + 1 /\ 2 < End(t) /\ p \in 2..q /\ p < End(t) /\ q \in 2..L
        /\ v \in q..L /\ v + 3 \in 1..End(t) /\ u \in p..q
    BY <1>0, <1>1, <1>2
  <2> HIDE DEF p, q, v, u, L
  <2>2. /\ 1 \in 1..End(t) /\ 2 \in 1..End(t) /\ p \in 1..End(t) /\ q \in 1..End(t) /\ q < End(t)
    BY <2>1
  <2>3. v < End(t) /\ u < End(t) /\ v \in 1..L /\ v + 1 \in 1..End(t)
    BY <2>1
  <2> QED BY <2>2, <2>3 DEF p, q, v, u, L
<1>4. find_char(w, 1, End(w), SP) = 2
  BY <1>2, <1>3, FoundStays
<1>5. PathFrom(w) = PathFrom(t)
  BY <1>1, <1>3, SpacesStay DEF PathFrom
<1>6. PathTo(w) = PathTo(t)
  BY <1>3, <1>5, FoundStays DEF PathTo
<1>7. VersionAt(w) = VersionAt(t)
  BY <1>3, <1>6, SpacesStay DEF VersionAt
<1>8. NulAt(w) = NulAt(t)
  BY <1>3, <1>5, PathEndStays DEF NulAt
<1>9. w[1] = t[1] /\ w[VersionAt(t)] = Version
  BY <1>0, <1>1, <1>3
<1>10. At(w, VersionAt(t) + 1, CRLF)
  BY <1>2, <1>3, LineEndStays
<1>11. At(w, VersionAt(t), <<Version>>)
  <2>1. VersionAt(t) \in 1..End(w) /\ VersionAt(t) < End(w)
    BY <1>0, <1>3
  <2> QED BY <1>9, <2>1, AtOne
<1>12. 2 < End(w) /\ PathTo(t) < End(w)
  BY <1>0, <1>2, <1>3
<1> QED BY <1>2, <1>4, <1>5, <1>6, <1>7, <1>8, <1>9, <1>10, <1>11, <1>12 DEF Begun

\* What the parser makes of the beginning of a text is in what it makes of
\* the text.
LEMMA Uninvented ==
  ASSUME NEW X, NEW t \in Seq(X), NEW w \in Seq(X), Begins(t, w), t # <<>>, cwh_parse_req(t).ok
  PROVE  LET cut == cwh_parse_req(t)
             whole == cwh_parse_req(w)
         IN  /\ whole.ok /\ cut.method = whole.method /\ cut.path = whole.path
             /\ IsPrefix(Headers(t, cut), Headers(w, whole))
<1> DEFINE cut == cwh_parse_req(t)
           whole == cwh_parse_req(w)
           start == VersionAt(t) + 1 + 2
           a == parse_headers(t, start).headers
           b == parse_headers(w, start).headers
<1>0. /\ Len(t) \in Nat /\ Len(w) \in Nat /\ End(t) = Len(t) + 1 /\ End(w) = Len(w) + 1
      /\ Len(t) <= Len(w) /\ w # <<>>
  BY EmptySeq DEF End, Begins
<1>1. Begun(t)
  <2>1. ~Begun(t) => cut = ParseError
    BY RequestRead
  <2> QED BY <2>1 DEF ParseError
<1>2. cut.method = t[1] /\ cut.path = Cut(t, PathFrom(t), NulAt(t)) /\ cut.headers = a
  BY <1>1, RequestRead
<1>3. /\ Begun(w) /\ PathFrom(w) = PathFrom(t) /\ PathTo(w) = PathTo(t)
      /\ VersionAt(w) = VersionAt(t) /\ NulAt(w) = NulAt(t) /\ w[1] = t[1]
  BY <1>1, BegunStays
<1>4. /\ whole.ok /\ whole.method = t[1] /\ whole.path = Cut(w, PathFrom(t), NulAt(t))
      /\ whole.headers = b
  BY <1>0, <1>3, RequestRead
<1> HIDE DEF cut, whole
<1>5. /\ PathFrom(t) \in 1..End(t) /\ NulAt(t) \in PathFrom(t)..End(t)
      /\ start \in 1..End(t) /\ start \in 1..End(w) /\ start \in Nat
  <2>1. /\ PathFrom(t) \in 2..PathTo(t) /\ PathFrom(t) < End(t)
        /\ PathTo(t) \in 2..Len(t) /\ VersionAt(t) \in PathTo(t)..Len(t)
        /\ VersionAt(t) + 3 \in 1..End(t) /\ NulAt(t) \in PathFrom(t)..PathTo(t)
    BY <1>1, RequestPlaces
  <2> QED BY <1>0, <2>1
<1>6. cut.path = whole.path
  BY <1>2, <1>4, <1>5, CutStays
<1> HIDE DEF start
<1>7. PICK f \in [0..MaxHeaders -> [start..End(t) -> Tables(t)]] :
        Parses(f, t, start) /\ parse_headers(t, start) = f[MaxHeaders][start]
  BY <1>5, HeadersParsed
<1>8. PICK g \in [0..MaxHeaders -> [start..End(w) -> Tables(w)]] :
        Parses(g, w, start) /\ parse_headers(w, start) = g[MaxHeaders][start]
  BY <1>5, HeadersParsed
<1>9. MaxHeaders \in 0..MaxHeaders /\ start \in start..End(t) /\ start \in start..End(w)
  BY <1>5, HeadersAssumption
<1>10. Begins(a, b)
  <2>1. Begins(f[MaxHeaders][start].headers, g[MaxHeaders][start].headers)
    BY <1>5, <1>7, <1>8, <1>9, HeadersStay
  <2> QED BY <1>7, <1>8, <2>1
<1>11. a \in Seq(Rows(t)) /\ b \in Seq(Rows(w))
  <2>1. f[MaxHeaders][start] \in Tables(t) /\ g[MaxHeaders][start] \in Tables(w)
    BY <1>9
  <2> QED BY <1>7, <1>8, <2>1 DEF Tables
<1> DEFINE p == [i \in DOMAIN a |-> Header(t, a[i])]
           q == [i \in DOMAIN b |-> Header(w, b[i])]
           H == {Header(t, r) : r \in Rows(t)} \cup {Header(w, r) : r \in Rows(w)}
<1>12. Headers(t, cut) = p /\ Headers(w, whole) = q
  BY <1>2, <1>4 DEF Headers
<1> HIDE DEF a, b
<1>13. /\ DOMAIN a = 1..Len(a) /\ DOMAIN b = 1..Len(b) /\ Len(a) \in Nat /\ Len(b) \in Nat
       /\ Len(a) <= Len(b) /\ \A i \in 1..Len(a) : a[i] = b[i]
  BY <1>10, <1>11 DEF Begins
<1>14. p \in Seq(H) /\ Len(p) = Len(a)
  BY <1>11, <1>13
<1>15. q \in Seq(H) /\ Len(q) = Len(b)
  BY <1>11, <1>13
<1>16. \A i \in 1..Len(a) : p[i] = q[i]
  <2> SUFFICES ASSUME NEW i \in 1..Len(a) PROVE Header(t, a[i]) = Header(w, b[i])
    BY <1>13
  <2>1. a[i] \in Rows(t) /\ a[i] = b[i]
    BY <1>11, <1>13
  <2> QED BY <2>1, HeaderSame
<1> HIDE DEF p, q, H
<1>17. IsPrefix(p, q)
  BY <1>13, <1>14, <1>15, <1>16, PrefixIs
<1> QED BY <1>2, <1>4, <1>6, <1>12, <1>17 DEF cut, whole

\* A request over X with headers in H that the parser can tell.
Sendable(X, H, r) ==
  /\ r.method \in Methods \cap X
  /\ r.path \in Seq(X) /\ r.path # <<>> /\ \A i \in 1..Len(r.path) : r.path[i] \notin {SP, "?", CR}
  /\ r.query \in Seq(X) /\ \A i \in 1..Len(r.query) : r.query[i] # SP
  /\ r.headers \in Seq(H) /\ r.body \in Seq(X)

\* What stands between the path and the space behind it; the headers with their
\* empty line; where the path and the query end.
QueryPart(r) == IF r.query = <<>> THEN <<>> ELSE <<"?">> \o r.query
Fields(r) == HeaderLines(r.headers, r.body)
TargetEnd(r) == 3 + Len(r.path) + Len(QueryPart(r))

\* The request line, when nothing of it is cut off.
RequestLine(r) == (((<<r.method, SP>> \o r.path) \o QueryPart(r)) \o <<SP, Version>>) \o CRLF

\* What cwh_format_req writes is the request, if its head fits.
LEMMA RequestWritten ==
  ASSUME NEW X, Marks \subseteq X, NEW H, \A h \in H : Over(X, h), NEW r, Sendable(X, H, r),
         HeadFits(RequestHead(r))
  PROVE  cwh_format_req(r) = (RequestLine(r) \o Fields(r)) \o r.body
<1> DEFINE first == <<r.method, SP>> \o r.path  q == QueryPart(r)  v == <<SP, Version>>
           line == Put(<<>>, first)
           asked == IF r.query = <<>> THEN line ELSE Put(line, <<"?">> \o r.query)
           end == v \o CRLF  begun == Put(asked, end)
           plain == (first \o q) \o end
           c == CRLF
<1>1. /\ r.path \in Seq(X) /\ r.query \in Seq(X) /\ r.method \in X /\ r.headers \in Seq(H)
      /\ SP \in X /\ Version \in X /\ "?" \in X
  BY DEF Sendable, Marks
<1>2. c \in Seq(X)
  BY DEF Marks, CRLF
<1>3. first \in Seq(X) /\ v \in Seq(X) /\ q \in Seq(X)
  BY <1>1 DEF QueryPart
<1>4. end \in Seq(X)
  BY <1>2, <1>3
<1>5. RequestHead(r) = HeadEnded(begun, r)
  BY DEF RequestHead
<1>6. RequestLine(r) = ((first \o q) \o v) \o c
  BY DEF RequestLine
<1>7. Writes(X, <<>>, <<>>)
  BY DEF Writes
<1> HIDE DEF first, v, end, c
<1>8. Writes(X, line, first)
  <2>1. Writes(X, line, <<>> \o first)
    BY <1>3, <1>7, PutWrites
  <2>2. <<>> \o first = first
    BY <1>3, ConcatEmptySeq
  <2> QED BY <2>1, <2>2
<1> HIDE DEF line
<1>9. Writes(X, asked, first \o q)
  <2>1. CASE r.query = <<>>
    <3>1. first \o q = first
      BY <1>3, <2>1, ConcatEmptySeq DEF QueryPart
    <3> QED BY <1>8, <2>1, <3>1
  <2>2. CASE r.query # <<>>
    <3>1. asked = Put(line, q)
      BY <2>2 DEF QueryPart
    <3> HIDE DEF q, asked
    <3>2. Writes(X, Put(line, q), first \o q)
      BY <1>3, <1>8, PutWrites
    <3> QED BY <3>1, <3>2
  <2> QED BY <2>1, <2>2
<1> HIDE DEF asked, q
<1>10. Writes(X, begun, plain)
  BY <1>4, <1>9, PutWrites
<1>11. plain = ((first \o q) \o v) \o c
  <2> DEFINE a == first \o q
  <2>1. a \in Seq(X)
    BY <1>3
  <2> HIDE DEF a
  <2>2. a \in Seq(X) /\ v \in Seq(X) /\ c \in Seq(X)
    BY <1>2, <1>3, <2>1
  <2>3. (a \o v) \o c = a \o (v \o c)
    BY <2>2, ConcatAssociative
  <2>4. plain = a \o (v \o c)
    BY DEF a, end, c
  <2> HIDE DEF plain, a
  <2>5. plain = (a \o v) \o c
    BY <2>3, <2>4
  <2> QED BY <2>5 DEF a
<1> HIDE DEF begun, plain
<1>12. Writes(X, HeadEnded(begun, r), plain \o HeaderLines(r.headers, r.body))
  BY <1>1, <1>10, HeadEnds
<1>13. RequestHead(r) = plain \o Fields(r)
  <2>1. Len(RequestHead(r)) < HeadRoom
    BY DEF HeadFits
  <2> QED BY <1>5, <1>12, <2>1 DEF Writes, Fields
<1>14. plain = RequestLine(r)
  BY <1>6, <1>11
<1> QED BY <1>13, <1>14 DEF cwh_format_req

\* Where the parts of a request are in what is written.
IsRequest(X, w, r) ==
  /\ w \in Seq(X) /\ w[1] = r.method /\ w[2] = SP /\ Placed(w, 3, r.path)
  /\ Placed(w, 3 + Len(r.path), QueryPart(r))
  /\ w[TargetEnd(r)] = SP /\ w[TargetEnd(r) + 1] = Version
  /\ Placed(w, TargetEnd(r) + 2, CRLF)
  /\ Placed(w, TargetEnd(r) + 4, Fields(r))
  /\ Placed(w, TargetEnd(r) + 4 + Len(Fields(r)), r.body)
  /\ Len(w) + 1 = TargetEnd(r) + 4 + Len(Fields(r)) + Len(r.body)
  /\ TargetEnd(r) \in Nat /\ Len(Fields(r)) \in Nat /\ QueryPart(r) \in Seq(X)

\* cwh_format_req puts the parts there.
LEMMA RequestPlaced ==
  ASSUME NEW X, Marks \subseteq X, NEW H, \A h \in H : Over(X, h), NEW r, Sendable(X, H, r),
         HeadFits(RequestHead(r))
  PROVE  IsRequest(X, cwh_format_req(r), r)
<1> DEFINE P == Len(r.path)  Q == Len(QueryPart(r))  L == Len(Fields(r))
           a1 == <<r.method, SP>>
           a2 == a1 \o r.path
           a3 == a2 \o QueryPart(r)
           a4 == a3 \o <<SP, Version>>
           a5 == a4 \o CRLF
           a6 == a5 \o Fields(r)
           w == a6 \o r.body
<1>1. cwh_format_req(r) = w
  BY RequestWritten DEF RequestLine
<1>2. /\ r.path \in Seq(X) /\ r.query \in Seq(X) /\ r.body \in Seq(X) /\ r.method \in X
      /\ r.headers \in Seq(H) /\ SP \in X /\ Version \in X /\ "?" \in X
  BY DEF Sendable, Marks
<1>3. a1 \in Seq(X) /\ Len(a1) = 2 /\ <<SP, Version>> \in Seq(X) /\ CRLF \in Seq(X)
      /\ Len(<<SP, Version>>) = 2 /\ Len(CRLF) = 2
  <2>1. CRLF \in Seq(X) /\ Len(CRLF) = 2
    BY DEF Marks, CRLF
  <2> QED BY <1>2, <2>1
<1>4. QueryPart(r) \in Seq(X)
  BY <1>2 DEF QueryPart
<1>5. Fields(r) \in Seq(X)
  <2>1. /\ HeaderLines(r.headers, r.body) = Lines(Sending(r)) \o CRLF
        /\ Lines(Sending(r)) \in Seq(X)
    BY <1>2, HeadersWritten
  <2> QED BY <1>3, <2>1 DEF Fields
<1> HIDE DEF a1
<1>6. a2 \in Seq(X) /\ Len(a2) = 2 + P /\ P \in Nat
  BY <1>2, <1>3, JoinLen
<1> HIDE DEF a2
<1>7. a3 \in Seq(X) /\ Len(a3) = Len(a2) + Q /\ Q \in Nat
  BY <1>4, <1>6, JoinLen
<1> HIDE DEF a3
<1>8. a4 \in Seq(X) /\ Len(a4) = Len(a3) + 2
  <2>1. a3 \in Seq(X) /\ <<SP, Version>> \in Seq(X) /\ Len(<<SP, Version>>) = 2
    BY <1>3, <1>7
  <2> QED BY <2>1, JoinLen
<1> HIDE DEF a4
<1>9. a5 \in Seq(X) /\ Len(a5) = Len(a4) + 2
  <2>1. a4 \in Seq(X) /\ CRLF \in Seq(X) /\ Len(CRLF) = 2
    BY <1>3, <1>8
  <2> QED BY <2>1, JoinLen
<1> HIDE DEF a5
<1>10. a6 \in Seq(X) /\ Len(a6) = Len(a5) + L /\ L \in Nat
  BY <1>5, <1>9, JoinLen
<1> HIDE DEF a6
<1>11. /\ w \in Seq(X) /\ Len(w) = Len(a6) + Len(r.body) /\ Len(r.body) \in Nat
       /\ r.body \in Seq(X) /\ a6 \in Seq(X) /\ Len(w) \in Nat
  <2>1. r.body \in Seq(X) /\ a6 \in Seq(X)
    BY <1>2, <1>10
  <2>2. w \in Seq(X) /\ Len(w) = Len(a6) + Len(r.body) /\ Len(r.body) \in Nat
    BY <2>1, JoinLen
  <2> HIDE DEF w
  <2> QED BY <2>1, <2>2
<1>12. Placed(w, 1, a6 \o r.body)
  <2>1. \A k \in 1..Len(w) : 1 - 1 + k = k
    BY <1>11
  <2> QED BY <1>11, <2>1 DEF Placed
<1> HIDE DEF w
<1>13. Placed(w, 1, a6) /\ Placed(w, 1 + Len(a6), r.body)
  <2>1. r.body \in Seq(X) /\ a6 \in Seq(X) /\ Len(w) \in Nat /\ 1 \in Nat
    BY <1>11
  <2> QED BY <1>12, <2>1, PlacedSplit
<1>14. Placed(w, 1, a5) /\ Placed(w, 1 + Len(a5), Fields(r))
  <2>1. Placed(w, 1, a5 \o Fields(r))
    BY <1>13 DEF a6
  <2>2. a5 \in Seq(X) /\ Fields(r) \in Seq(X) /\ Len(w) \in Nat /\ 1 \in Nat
    BY <1>5, <1>9, <1>11
  <2> QED BY <2>1, <2>2, PlacedSplit
<1>15. Placed(w, 1, a4) /\ Placed(w, 1 + Len(a4), CRLF)
  <2>1. Placed(w, 1, a4 \o CRLF)
    BY <1>14 DEF a5
  <2>2. a4 \in Seq(X) /\ CRLF \in Seq(X) /\ Len(w) \in Nat /\ 1 \in Nat
    BY <1>3, <1>8, <1>11
  <2> QED BY <2>1, <2>2, PlacedSplit
<1>16. Placed(w, 1, a3) /\ Placed(w, 1 + Len(a3), <<SP, Version>>)
  <2>1. Placed(w, 1, a3 \o <<SP, Version>>)
    BY <1>15 DEF a4
  <2>2. a3 \in Seq(X) /\ <<SP, Version>> \in Seq(X) /\ Len(w) \in Nat /\ 1 \in Nat
    BY <1>3, <1>7, <1>11
  <2> QED BY <2>1, <2>2, PlacedSplit
<1>17. Placed(w, 1, a2) /\ Placed(w, 1 + Len(a2), QueryPart(r))
  <2>1. Placed(w, 1, a2 \o QueryPart(r))
    BY <1>16 DEF a3
  <2>2. a2 \in Seq(X) /\ QueryPart(r) \in Seq(X) /\ Len(w) \in Nat /\ 1 \in Nat
    BY <1>4, <1>6, <1>11
  <2> QED BY <2>1, <2>2, PlacedSplit
<1>18. Placed(w, 1, a1) /\ Placed(w, 1 + Len(a1), r.path)
  <2>1. Placed(w, 1, a1 \o r.path)
    BY <1>17 DEF a2
  <2>2. a1 \in Seq(X) /\ r.path \in Seq(X) /\ Len(w) \in Nat /\ 1 \in Nat
    BY <1>2, <1>3, <1>11
  <2> QED BY <2>1, <2>2, PlacedSplit
<1>19. w[1] = r.method /\ w[2] = SP
  <2>1. Placed(w, 1, <<r.method, SP>>)
    BY <1>18 DEF a1
  <2>2. w[1] = r.method /\ w[1 + 1] = SP
    BY <1>11, <2>1, PlacedTwo
  <2> QED BY <2>2
<1>20. /\ 1 + Len(a1) = 3 /\ 1 + Len(a2) = 3 + P /\ 1 + Len(a3) = TargetEnd(r)
       /\ 1 + Len(a4) = TargetEnd(r) + 2 /\ 1 + Len(a5) = TargetEnd(r) + 4
       /\ 1 + Len(a6) = TargetEnd(r) + 4 + L /\ TargetEnd(r) \in Nat
       /\ Len(w) + 1 = TargetEnd(r) + 4 + L + Len(r.body)
  <2>1. TargetEnd(r) = 3 + P + Q
    BY DEF TargetEnd
  <2>2. P \in Nat /\ Q \in Nat /\ L \in Nat /\ Len(r.body) \in Nat
    BY <1>6, <1>7, <1>10, <1>11
  <2> HIDE DEF P, Q, L
  <2>3. Len(a1) = 2 /\ Len(a2) = 2 + P
    BY <1>3, <1>6
  <2>4. Len(a3) = 2 + P + Q
    BY <1>7, <2>3
  <2>5. Len(a4) = 2 + P + Q + 2
    BY <1>8, <2>4
  <2>6. Len(a5) = 2 + P + Q + 4
    BY <1>9, <2>2, <2>5
  <2>7. Len(a6) = 2 + P + Q + 4 + L
    BY <1>10, <2>6
  <2>8. Len(w) = 2 + P + Q + 4 + L + Len(r.body)
    BY <1>11, <2>7
  <2>9. TargetEnd(r) \in Nat
    BY <2>1, <2>2
  <2>10. 1 + Len(a1) = 3 /\ 1 + Len(a2) = 3 + P
    BY <2>2, <2>3
  <2>11. 1 + Len(a3) = TargetEnd(r)
    BY <2>1, <2>2, <2>4
  <2>12. 1 + Len(a4) = TargetEnd(r) + 2
    BY <2>1, <2>2, <2>5
  <2>13. 1 + Len(a5) = TargetEnd(r) + 4
    BY <2>1, <2>2, <2>6
  <2>14. 1 + Len(a6) = TargetEnd(r) + 4 + L
    BY <2>1, <2>2, <2>7
  <2>15. Len(w) + 1 = TargetEnd(r) + 4 + L + Len(r.body)
    <3> DEFINE T == TargetEnd(r)  B == Len(r.body)  W == Len(w)
    <3>1. T = 3 + P + Q /\ W = 2 + P + Q + 4 + L + B
      BY <2>1, <2>8
    <3>2. P \in Nat /\ Q \in Nat /\ L \in Nat /\ B \in Nat
      BY <2>2
    <3> HIDE DEF T, B, W
    <3>3. W + 1 = T + 4 + L + B
      BY <3>1, <3>2
    <3> QED BY <3>3 DEF T, B, W
  <2> QED BY <2>9, <2>10, <2>11, <2>12, <2>13, <2>14, <2>15
<1>21. w[TargetEnd(r)] = SP /\ w[TargetEnd(r) + 1] = Version
  <2>1. Placed(w, TargetEnd(r), <<SP, Version>>)
    BY <1>16, <1>20
  <2>2. Len(w) \in Nat /\ TargetEnd(r) \in Nat
    BY <1>11, <1>20
  <2> QED BY <2>1, <2>2, PlacedTwo
<1>22. IsRequest(X, w, r)
  BY <1>4, <1>10, <1>11, <1>13, <1>14, <1>15, <1>17, <1>18, <1>19, <1>20, <1>21 DEF IsRequest
<1> QED BY <1>1, <1>22

\* What is read of what was written.
LEMMA RequestBack ==
  ASSUME NEW X, Marks \subseteq X, NEW H, \A h \in H : Over(X, h) /\ Writable(h),
         NEW r, Sendable(X, H, r), NEW w, IsRequest(X, w, r)
  PROVE  /\ Begun(w) /\ PathFrom(w) = 3 /\ PathTo(w) = TargetEnd(r)
         /\ VersionAt(w) = TargetEnd(r) + 1 /\ NulAt(w) = 3 + Len(r.path)
         /\ r.query # <<>> => /\ QueryAt(w) = 3 + Len(r.path) /\ QueryAt(w) < PathTo(w)
                              /\ At(w, QueryAt(w) + 1, r.query)
<1> DEFINE P == Len(r.path)  Q == Len(QueryPart(r))  e == TargetEnd(r)
<1>1. /\ w \in Seq(X) /\ w[1] = r.method /\ w[2] = SP /\ Placed(w, 3, r.path)
      /\ Placed(w, 3 + P, QueryPart(r)) /\ w[e] = SP /\ w[e + 1] = Version
      /\ Placed(w, e + 2, CRLF)
      /\ Len(w) + 1 = e + 4 + Len(Fields(r)) + Len(r.body)
      /\ e \in Nat /\ Len(Fields(r)) \in Nat /\ QueryPart(r) \in Seq(X)
  BY DEF IsRequest
<1>2. /\ r.path \in Seq(X) /\ r.path # <<>> /\ \A i \in 1..P : r.path[i] \notin {SP, "?", CR}
      /\ r.query \in Seq(X) /\ \A i \in 1..Len(r.query) : r.query[i] # SP
      /\ r.method \in Methods /\ r.body \in Seq(X)
  BY DEF Sendable
<1>3. P \in Nat /\ P >= 1 /\ Q \in Nat /\ Len(r.query) \in Nat /\ Len(r.body) \in Nat
  <2>1. r.path \in Seq(X) /\ r.path # <<>>
    BY <1>2
  <2>2. P \in Nat /\ P >= 1
    BY <2>1, EmptySeq
  <2>3. QueryPart(r) \in Seq(X) /\ r.query \in Seq(X) /\ r.body \in Seq(X)
    BY <1>1, <1>2
  <2> QED BY <2>2, <2>3
<1>4. e = 3 + P + Q
  BY DEF TargetEnd
<1>5. /\ Len(w) \in Nat /\ End(w) = Len(w) + 1 /\ e + 4 <= End(w) /\ e >= 4
      /\ DOMAIN w = 1..Len(w) /\ 3 + P <= e
  <2> HIDE DEF P, Q, e
  <2>1. Len(w) \in Nat /\ DOMAIN w = 1..Len(w) /\ End(w) = Len(w) + 1
    BY <1>1 DEF End
  <2>2. e >= 4 /\ 3 + P <= e /\ e \in Nat
    BY <1>3, <1>4
  <2>3. e + 4 <= End(w)
    <3>1. \A a, b, c, d \in Nat : a = c + 4 + b + d => c + 4 <= a
      OBVIOUS
    <3>2. End(w) \in Nat /\ End(w) = e + 4 + Len(Fields(r)) + Len(r.body)
      <4>1. Len(w) + 1 = e + 4 + Len(Fields(r)) + Len(r.body)
        BY <1>1
      <4>2. End(w) = e + 4 + Len(Fields(r)) + Len(r.body)
        BY <2>1, <4>1
      <4>3. End(w) \in Nat
        BY <2>1
      <4> QED BY <4>2, <4>3
    <3>3. e \in Nat /\ Len(Fields(r)) \in Nat /\ Len(r.body) \in Nat
      BY <1>1, <1>3
    <3> QED BY <3>1, <3>2, <3>3
  <2> QED BY <2>1, <2>2, <2>3
<1>6. \A k \in 3..3 + P - 1 : w[k] \notin {SP, "?", CR}
  <2>1. \A k \in 1..P : w[3 - 1 + k] = r.path[k]
    BY <1>1 DEF Placed
  <2> HIDE DEF P
  <2> SUFFICES ASSUME NEW k \in 3..3 + P - 1 PROVE w[k] \notin {SP, "?", CR}
    OBVIOUS
  <2>2. k - 2 \in 1..P /\ 3 - 1 + (k - 2) = k
    BY <1>3
  <2>3. w[3 - 1 + (k - 2)] = r.path[k - 2]
    BY <2>1, <2>2
  <2> QED BY <1>2, <2>2, <2>3
<1>7. /\ \A k \in 3 + P..e - 1 : w[k] # SP
      /\ w[3 + P] \in {"?", SP} /\ (r.query # <<>> => w[3 + P] = "?")
      /\ r.query # <<>> => 3 + P < e /\ At(w, 3 + P + 1, r.query)
  <2>1. CASE r.query = <<>>
    <3>1. Q = 0
      BY <2>1 DEF QueryPart
    <3>2. 3 + P = e
      BY <1>3, <1>4, <3>1
    <3> HIDE DEF P, e
    <3>3. \A k \in 3 + P..e - 1 : w[k] # SP
      BY <1>1, <1>3, <3>2
    <3> QED BY <1>1, <2>1, <3>2, <3>3
  <2>2. CASE r.query # <<>>
    <3>1. QueryPart(r) = <<"?">> \o r.query
      BY <2>2 DEF QueryPart
    <3>2. <<"?">> \in Seq(X) /\ Len(<<"?">>) = 1
      BY DEF Marks
    <3>3. Q = 1 + Len(r.query)
      BY <1>2, <3>1, <3>2, JoinLen
    <3>4. /\ Placed(w, 3 + P, <<"?">>) /\ Placed(w, 3 + P + 1, r.query)
      <4>1. 3 + P \in Nat
        BY <1>3
      <4>2. Placed(w, 3 + P, <<"?">> \o r.query)
        BY <1>1, <3>1
      <4> HIDE DEF P
      <4> QED BY <1>2, <1>5, <3>2, <4>1, <4>2, PlacedSplit
    <3>5. w[3 + P] = "?"
      <4>1. 3 + P \in Nat
        BY <1>3
      <4> HIDE DEF P
      <4> QED BY <1>5, <3>4, <4>1, PlacedOne
    <3> DEFINE q == Len(r.query)  v == 3 + P + 1
    <3>11. \A m \in 1..q : w[v - 1 + m] = r.query[m]
      BY <3>4 DEF Placed
    <3> HIDE DEF P, Q, e
    <3>9. P \in Nat /\ q \in Nat /\ e = 3 + P + (1 + q)
      BY <1>3, <1>4, <3>3
    <3>10. e + 4 <= End(w) /\ End(w) \in Nat
      BY <1>5
    <3> HIDE DEF q
    <3>6. 3 + P + 1 \in 1..End(w) /\ 3 + P < e /\ v = P + 4
      BY <3>9, <3>10
    <3> HIDE DEF v
    <3>7. At(w, 3 + P + 1, r.query)
      BY <1>1, <1>2, <3>4, <3>6, AtPlaced
    <3>8. ASSUME NEW k \in 3 + P..e - 1 PROVE w[k] # SP
      <4>1. CASE k = 3 + P
        BY <3>5, <4>1 DEF SP
      <4>2. CASE k # 3 + P
        <5>1. k - (3 + P) \in 1..q /\ v - 1 + (k - (3 + P)) = k
          BY <3>6, <3>9, <4>2
        <5>2. w[v - 1 + (k - (3 + P))] = r.query[k - (3 + P)]
          BY <3>11, <5>1
        <5>3. w[k] = r.query[k - (3 + P)]
          BY <5>1, <5>2
        <5>4. k - (3 + P) \in 1..Len(r.query)
          BY <5>1 DEF q
        <5> QED BY <1>2, <5>3, <5>4
      <4> QED BY <4>1, <4>2
    <3> QED BY <3>5, <3>6, <3>7, <3>8
  <2> QED BY <2>1, <2>2
<1> HIDE DEF P, Q, e
<1>8. r.method # SP /\ SP # "?" /\ Version # SP
  BY <1>2 DEF Methods, SP, Version
<1>9. find_char(w, 1, End(w), SP) = 2
  <2>1. 2 \in Where(w, SP) /\ 1 \notin Where(w, SP)
    BY <1>1, <1>5, <1>8 DEF Where
  <2>2. IsFirst(2, 1, End(w), Where(w, SP))
    <3>1. 2 \in 1..End(w) /\ \A k \in 1..2 - 1 : k = 1
      BY <1>1, <1>5
    <3> QED BY <2>1, <3>1 DEF IsFirst
  <2>3. 1 \in 1..End(w) /\ End(w) \in 1..End(w)
    BY <1>5
  <2> QED BY <1>1, <2>2, <2>3, OneFound
<1>10. PathFrom(w) = 3
  <2>1. 3 \in 3..3 + P - 1
    BY <1>3
  <2>2. 3 \in NotSpaces(w) /\ 2 \notin NotSpaces(w)
    BY <1>1, <1>5, <1>6, <2>1 DEF NotSpaces
  <2>3. IsFirst(3, 2, End(w), NotSpaces(w))
    <3>1. 3 \in 2..End(w) /\ \A k \in 2..3 - 1 : k = 2
      BY <1>1, <1>5
    <3> QED BY <2>2, <3>1 DEF IsFirst
  <2>4. 2 \in 1..End(w) /\ End(w) \in Nat
    <3>1. Len(w) \in Nat /\ e \in Nat /\ End(w) = Len(w) + 1 /\ e + 4 <= End(w)
      BY <1>1, <1>5
    <3> QED BY <3>1
  <2>5. IsFirst(skip_ws(w, 2, End(w)), 2, End(w), NotSpaces(w))
    BY <1>1, <2>4, SkipsSpaces
  <2>6. skip_ws(w, 2, End(w)) = 3
    BY <2>3, <2>4, <2>5, OneFirst
  <2> QED BY <2>6 DEF PathFrom
<1>11. PathTo(w) = e
  <2>1. ASSUME NEW k \in 3..e - 1 PROVE w[k] # SP
    <3>1. k \in 3..3 + P - 1 \/ k \in 3 + P..e - 1
      BY <1>1, <1>3
    <3> QED BY <1>6, <1>7, <3>1
  <2>2. e \in Where(w, SP) /\ \A k \in 3..e - 1 : k \notin Where(w, SP)
    BY <1>1, <1>5, <2>1 DEF Where
  <2>3. IsFirst(e, 3, End(w), Where(w, SP))
    BY <1>1, <1>5, <2>2 DEF IsFirst
  <2>4. 3 \in 1..End(w) /\ End(w) \in 3..End(w)
    BY <1>1, <1>5
  <2>5. find_char(w, 3, End(w), SP) = e
    BY <1>1, <2>3, <2>4, OneFound
  <2> QED BY <1>10, <2>5 DEF PathTo
<1>12. VersionAt(w) = e + 1
  <2>1. e + 1 \in NotSpaces(w) /\ e \notin NotSpaces(w)
    BY <1>1, <1>5, <1>8 DEF NotSpaces
  <2>2. IsFirst(e + 1, e, End(w), NotSpaces(w))
    BY <1>1, <1>5, <2>1 DEF IsFirst
  <2>3. e \in 1..End(w) /\ End(w) \in Nat /\ e \in Nat
    BY <1>1, <1>5
  <2>4. IsFirst(skip_ws(w, e, End(w)), e, End(w), NotSpaces(w))
    BY <1>1, <2>3, SkipsSpaces
  <2>5. skip_ws(w, e, End(w)) = e + 1
    BY <2>2, <2>3, <2>4, OneFirst
  <2> QED BY <1>11, <2>5 DEF VersionAt
<1>13. NulAt(w) = 3 + P
  <2>1. 3 + P \in DOMAIN w
    BY <1>1, <1>3, <1>5
  <2>2. EndsPath(w[3 + P])
    BY <1>7 DEF EndsPath
  <2>3. 3 + P \in PathEnds(w)
    BY <2>1, <2>2 DEF PathEnds
  <2>4. \A k \in 3..3 + P - 1 : k \notin PathEnds(w)
    BY <1>6 DEF PathEnds, EndsPath
  <2>5. IsFirst(3 + P, 3, End(w), PathEnds(w))
    BY <1>1, <1>3, <1>5, <2>3, <2>4 DEF IsFirst
  <2>6. 3 \in 1..End(w) /\ End(w) \in Nat
    BY <1>1, <1>5
  <2>7. IsFirst(NulFrom(w, 3), 3, End(w), PathEnds(w))
    BY <1>1, <2>6, PathEndsAt
  <2>8. NulFrom(w, 3) = 3 + P
    BY <2>5, <2>6, <2>7, OneFirst
  <2> QED BY <1>10, <2>8 DEF NulAt
<1>14. Begun(w)
  <2>1. e + 1 \in 1..End(w) /\ e + 2 \in 1..End(w) /\ e + 1 < End(w) /\ e + 1 + 1 = e + 2
    BY <1>1, <1>5
  <2>2. At(w, e + 1, <<Version>>)
    BY <1>1, <2>1, AtOne
  <2>3. CRLF \in Seq(X)
    BY DEF Marks, CRLF
  <2>4. At(w, e + 2, CRLF)
    BY <1>1, <2>1, <2>3, AtPlaced
  <2>5. w[1] \in Methods /\ 2 < End(w) /\ e < End(w)
    BY <1>1, <1>2, <1>5
  <2> QED BY <1>9, <1>11, <1>12, <2>1, <2>2, <2>4, <2>5 DEF Begun
<1>15. r.query # <<>> => /\ QueryAt(w) = 3 + P /\ QueryAt(w) < PathTo(w)
                         /\ At(w, QueryAt(w) + 1, r.query)
  <2> SUFFICES ASSUME r.query # <<>>
               PROVE  /\ QueryAt(w) = 3 + P /\ QueryAt(w) < PathTo(w)
                      /\ At(w, QueryAt(w) + 1, r.query)
    OBVIOUS
  <2>1. 3 + P \in Where(w, "?") /\ \A k \in 3..3 + P - 1 : k \notin Where(w, "?")
    BY <1>1, <1>3, <1>5, <1>6, <1>7 DEF Where
  <2>2. IsFirst(3 + P, 3, e, Where(w, "?"))
    BY <1>1, <1>3, <1>5, <2>1 DEF IsFirst
  <2>3. 3 \in 1..End(w) /\ e \in 3..End(w)
    <3> DEFINE n == End(w)
    <3>1. n \in Nat /\ e \in Nat /\ e + 4 <= n /\ e >= 4
      BY <1>1, <1>5
    <3> HIDE DEF n, e
    <3> QED BY <3>1 DEF n
  <2>4. find_char(w, 3, e, "?") = 3 + P
    BY <1>1, <2>2, <2>3, OneFound
  <2>5. QueryAt(w) = 3 + P
    BY <1>10, <1>11, <2>4 DEF QueryAt
  <2> QED BY <1>7, <1>11, <2>5
<1> QED BY <1>10, <1>11, <1>12, <1>13, <1>14, <1>15 DEF e, P

\* cwh_parse_req reads back what cwh_format_req has written, if its head fits.
LEMMA RequestTurned ==
  ASSUME NEW X, Marks \subseteq X, NEW H, \A h \in H : Over(X, h) /\ Writable(h),
         NEW r, Sendable(X, H, r), HeadFits(RequestHead(r)), Len(Sending(r)) < MaxHeaders
  PROVE  LET w == cwh_format_req(r)
             p == cwh_parse_req(w)
         IN  /\ p.ok /\ p.path = r.path /\ p.body = r.body
             /\ Headers(w, p) = Sending(r)
             /\ r.query # <<>> => p.query # 0 /\ At(w, p.query, r.query)
<1> DEFINE w == cwh_format_req(r)  p == cwh_parse_req(w)  HL == H \cup {Length}
           e == TargetEnd(r)  L == Len(Fields(r))
<1>1. IsRequest(X, w, r)
  BY RequestPlaced
<1> HIDE DEF w
<1>2. /\ w \in Seq(X) /\ Placed(w, 3, r.path) /\ Placed(w, e + 4, Fields(r))
      /\ Placed(w, e + 4 + L, r.body) /\ Len(w) + 1 = e + 4 + L + Len(r.body)
      /\ e \in Nat /\ L \in Nat
  BY <1>1 DEF IsRequest
<1>3. r.path \in Seq(X) /\ r.body \in Seq(X) /\ r.headers \in Seq(H)
  BY DEF Sendable
<1>4. /\ Begun(w) /\ PathFrom(w) = 3 /\ PathTo(w) = e /\ VersionAt(w) = e + 1
      /\ NulAt(w) = 3 + Len(r.path)
      /\ r.query # <<>> => /\ QueryAt(w) = 3 + Len(r.path) /\ QueryAt(w) < PathTo(w)
                           /\ At(w, QueryAt(w) + 1, r.query)
  BY <1>1, RequestBack
<1>5. /\ Len(w) \in Nat /\ End(w) = Len(w) + 1 /\ Len(r.body) \in Nat /\ Len(r.path) \in Nat
      /\ 3 \in 1..End(w) /\ e + 4 \in 1..End(w) /\ e + 4 + L \in 1..End(w)
      /\ e + 4 + L + Len(r.body) = End(w)
  <2> DEFINE B == Len(r.body)  W == Len(w)
  <2>1. W \in Nat /\ End(w) = W + 1 /\ B \in Nat /\ Len(r.path) \in Nat
    <3>1. w \in Seq(X)
      BY <1>2
    <3>2. W \in Nat /\ End(w) = W + 1
      BY <3>1 DEF End
    <3>3. B \in Nat /\ Len(r.path) \in Nat
      BY <1>3
    <3> QED BY <3>2, <3>3
  <2>2. W + 1 = e + 4 + L + B /\ e \in Nat /\ L \in Nat
    BY <1>2
  <2> HIDE DEF B, W, e, L
  <2>3. 3 \in 1..W + 1 /\ e + 4 \in 1..W + 1 /\ e + 4 + L \in 1..W + 1
    BY <2>1, <2>2
  <2> QED BY <2>1, <2>2, <2>3 DEF B, W
<1>6. w # <<>>
  BY <1>2, <1>4, <1>5, EmptySeq, RequestPlaces
<1>7. Cut(w, 3, 3 + Len(r.path)) = r.path
  <2>1. w \in Seq(X) /\ r.path \in Seq(X) /\ Placed(w, 3, r.path)
    BY <1>2, <1>3
  <2>2. 3 \in 1..End(w)
    BY <1>5
  <2> QED BY <2>1, <2>2, PlacedCut
<1>8. Cut(w, e + 4 + L, End(w)) = r.body
  <2> DEFINE i == e + 4 + L
  <2>1. i \in 1..End(w) /\ Placed(w, i, r.body) /\ i + Len(r.body) = End(w)
    <3> HIDE DEF e, L
    <3>1. i \in 1..End(w) /\ i + Len(r.body) = End(w)
      BY <1>5
    <3>2. Placed(w, i, r.body)
      BY <1>2
    <3> QED BY <3>1, <3>2
  <2> HIDE DEF i
  <2>2. Cut(w, i, i + Len(r.body)) = r.body
    <3>1. w \in Seq(X) /\ r.body \in Seq(X)
      BY <1>2, <1>3
    <3> QED BY <2>1, <3>1, PlacedCut
  <2> QED BY <2>1, <2>2 DEF i
<1>9. /\ Fields(r) = Lines(Sending(r)) \o CRLF /\ Sending(r) \in Seq(HL)
  <2>1. \A h \in H : Over(X, h)
    OBVIOUS
  <2> QED BY <1>3, <2>1, HeadersWritten DEF Fields
<1>10. \A h \in HL : Over(X, h) /\ Writable(h)
  BY LengthWritable
<1> DEFINE rest == parse_headers(w, e + 4)
<1>11. /\ IsRead(rest.headers, w, Sending(r)) /\ rest.body = e + 4 + L
  <2> DEFINE i == e + 4  hs == Sending(r)
  <2>1. /\ i \in 1..End(w) /\ hs \in Seq(HL) /\ Placed(w, i, Lines(hs) \o CRLF)
        /\ Len(hs) < MaxHeaders /\ w \in Seq(X) /\ L = Len(Lines(hs) \o CRLF)
    BY <1>2, <1>5, <1>9
  <2> HIDE DEF i, hs, HL, L
  <2>2. /\ IsRead(parse_headers(w, i).headers, w, hs)
        /\ parse_headers(w, i).body = i + Len(Lines(hs) \o CRLF)
    BY <1>10, <2>1, BlockRead
  <2> QED BY <2>1, <2>2 DEF i, hs
<1>12. p = [ok |-> TRUE, method |-> w[1], path |-> r.path,
            query |-> IF QueryAt(w) < PathTo(w) THEN QueryAt(w) + 1 ELSE 0,
            headers |-> rest.headers, body |-> r.body]
  <2>1. p = [ok |-> TRUE, method |-> w[1], path |-> Cut(w, PathFrom(w), NulAt(w)),
             query |-> IF QueryAt(w) < PathTo(w) THEN QueryAt(w) + 1 ELSE 0,
             headers |-> parse_headers(w, VersionAt(w) + 1 + 2).headers,
             body |-> Cut(w, parse_headers(w, VersionAt(w) + 1 + 2).body, End(w))]
    BY <1>2, <1>4, <1>6, RequestRead
  <2>2. VersionAt(w) + 1 + 2 = e + 4
    BY <1>2, <1>4
  <2> QED BY <1>4, <1>7, <1>8, <1>11, <2>1, <2>2
<1> HIDE DEF rest, p
<1>13. p.ok /\ p.path = r.path /\ p.body = r.body /\ p.headers = rest.headers
       /\ p.query = IF QueryAt(w) < PathTo(w) THEN QueryAt(w) + 1 ELSE 0
  BY <1>12
<1>14. Headers(w, p) = Sending(r)
  <2> DEFINE hd == rest.headers  hs == Sending(r)
  <2>1. /\ hd \in Seq(Rows(w)) /\ Len(hd) = Len(hs)
        /\ \A j \in 1..Len(hs) : Header(w, hd[j]) = hs[j]
    BY <1>11 DEF IsRead
  <2>2. Headers(w, p) = [j \in DOMAIN hd |-> Header(w, hd[j])]
    BY <1>13 DEF Headers
  <2>3. hs \in Seq(HL)
    BY <1>9
  <2> HIDE DEF hd, hs, HL
  <2>4. DOMAIN hd = 1..Len(hs) /\ DOMAIN hs = 1..Len(hs) /\ hs = [j \in 1..Len(hs) |-> hs[j]]
    BY <2>1, <2>3
  <2>5. [j \in DOMAIN hd |-> Header(w, hd[j])] = hs
    BY <2>1, <2>4
  <2> QED BY <2>2, <2>5 DEF hs
<1>15. r.query # <<>> => p.query # 0 /\ At(w, p.query, r.query)
  <2> SUFFICES ASSUME r.query # <<>> PROVE p.query # 0 /\ At(w, p.query, r.query)
    OBVIOUS
  <2>1. QueryAt(w) = 3 + Len(r.path) /\ p.query = QueryAt(w) + 1 /\ At(w, QueryAt(w) + 1, r.query)
    BY <1>4, <1>13
  <2>2. QueryAt(w) + 1 # 0
    BY <1>5, <2>1
  <2> QED BY <2>1, <2>2
<1> QED BY <1>13, <1>14, <1>15 DEF p, w

\* The symbols of a sequence, and of what is built.
Symbols(s) == {s[i] : i \in DOMAIN s}

\* The requests that are built can be told from the text around them.
LEMMA RequestSendable ==
  ASSUME TInv, Is("request")
  PROVE  \E X, H : /\ Marks \subseteq X /\ \A h \in H : Over(X, h) /\ Writable(h)
                   /\ Sendable(X, H, Request) /\ Request.headers = text
<1> DEFINE m == subject.message
           H == Pieces["request"]
           X == Marks \cup Methods \cup Symbols(m.path) \cup Symbols(m.query)
                  \cup Symbols(m.body)
                  \cup UNION {Symbols(h.key) \cup Symbols(h.val) : h \in H}
<1>1. subject \in Subjects /\ subject.kind = "request" /\ text \in Seq(H)
  BY DEF TInv, Is
<1>2. /\ DOMAIN m = {"method", "path", "query", "headers", "body"}
      /\ m.method \in Methods /\ IsList(m.path) /\ m.path # <<>>
      /\ \A i \in DOMAIN m.path : m.path[i] \notin {SP, "?", CR}
      /\ IsList(m.query) /\ \A i \in DOMAIN m.query : m.query[i] # SP
      /\ IsList(m.body)
      /\ \A h \in H : Writable(h)
  BY <1>1, RequestAssumption
<1>3. \A s : IsList(s) => s \in Seq(Symbols(s))
  BY DEF IsList, Symbols
<1>4. \A s, Y : IsList(s) /\ Symbols(s) \subseteq Y => s \in Seq(Y)
  <2> SUFFICES ASSUME NEW s, NEW Y, IsList(s), Symbols(s) \subseteq Y PROVE s \in Seq(Y)
    OBVIOUS
  <2>1. s \in Seq(Symbols(s))
    BY <1>3
  <2> HIDE DEF Symbols
  <2> QED BY <2>1
<1>5. m.path \in Seq(X) /\ m.query \in Seq(X) /\ m.body \in Seq(X)
  <2>1. Symbols(m.path) \subseteq X /\ Symbols(m.query) \subseteq X /\ Symbols(m.body) \subseteq X
    OBVIOUS
  <2> HIDE DEF X
  <2> QED BY <1>2, <1>4, <2>1
<1>6. \A h \in H : Over(X, h) /\ Writable(h)
  <2> SUFFICES ASSUME NEW h \in H PROVE Over(X, h)
    BY <1>2
  <2>1. Symbols(h.key) \subseteq X /\ Symbols(h.val) \subseteq X
    OBVIOUS
  <2>2. IsList(h.key) /\ IsList(h.val)
    BY <1>2 DEF Writable
  <2> HIDE DEF X
  <2> QED BY <1>4, <2>1, <2>2 DEF Over
<1>7. /\ Request.method = m.method /\ Request.path = m.path /\ Request.query = m.query
      /\ Request.body = m.body /\ Request.headers = text
  BY <1>2 DEF Request
<1>8. Marks \subseteq X /\ m.method \in Methods \cap X
  BY <1>2
<1> HIDE DEF X
<1>9. Sendable(X, H, Request)
  <2>1. \A i \in 1..Len(m.path) : m.path[i] \notin {SP, "?", CR}
    BY <1>2, <1>5
  <2>2. \A i \in 1..Len(m.query) : m.query[i] # SP
    BY <1>2, <1>5
  <2> QED BY <1>1, <1>2, <1>5, <1>7, <1>8, <2>1, <2>2 DEF Sendable
<1> QED BY <1>6, <1>7, <1>8, <1>9

\* A request whose head fits what cwh_format_req allows it is read back as it was
\* sent, and from the beginning of one no other path, handler, header or value is
\* read, by a reader that ends names at the colon, values at CRLF and the query at
\* the length it was sent with.
THEOREM RequestsReread == Spec => []RequestReread
<1>1. ASSUME TInv, Is("request"), HeadFits(RequestHead(Request))
      PROVE  LET whole == cwh_parse_req(Wire)
             IN  /\ ReadAsSent(Request, whole)
                 /\ \A n \in 1..Len(Wire) : NothingInvented(SubSeq(Wire, 1, n), whole)
  <2>1. PICK X, H : /\ Marks \subseteq X /\ \A h \in H : Over(X, h) /\ Writable(h)
                    /\ Sendable(X, H, Request)
    BY <1>1, RequestSendable
  <2> DEFINE r == Request  w == Wire  whole == cwh_parse_req(w)
  <2>2. w = cwh_format_req(r)
    BY DEF Wire
  <2> HIDE DEF r, w
  <2>3. w \in Seq(X)
    <3>1. IsRequest(X, w, r)
      BY <1>1, <2>1, <2>2, RequestPlaced DEF r
    <3> QED BY <3>1 DEF IsRequest
  <2>4. ReadAsSent(r, whole)
    <3> SUFFICES ASSUME Len(Sending(r)) < MaxHeaders
                 PROVE  /\ whole.ok /\ whole.path = r.path /\ whole.body = r.body
                        /\ Headers(w, whole) = Sending(r)
                        /\ r.query # <<>> => whole.query # 0 /\ At(w, whole.query, r.query)
      BY DEF ReadAsSent, Sending, w
    <3> QED BY <1>1, <2>1, <2>2, RequestTurned DEF r
  <2>5. ASSUME NEW n \in 1..Len(w) PROVE NothingInvented(SubSeq(w, 1, n), whole)
    <3> DEFINE t == SubSeq(w, 1, n)  cut == cwh_parse_req(t)
    <3>1. Len(w) \in Nat /\ n \in Nat /\ 1 \in 1..Len(w) + 1 /\ n \in 1 - 1..Len(w) /\ n - 1 + 1 = n
      BY <2>3
    <3>2. t \in Seq(X) /\ Len(t) = n - 1 + 1 /\ \A i \in 1..n - 1 + 1 : t[i] = w[1 - 1 + i]
      BY <2>3, <3>1, CutAt
    <3> HIDE DEF t
    <3>3. Len(t) = n /\ \A i \in 1..n : t[i] = w[i]
      <4>1. Len(t) = n
        BY <3>1, <3>2
      <4>2. \A i \in 1..n : t[i] = w[i]
        BY <3>1, <3>2
      <4> QED BY <4>1, <4>2
    <3>4. Begins(t, w) /\ t # <<>>
      <4>1. Begins(t, w)
        BY <3>1, <3>3 DEF Begins
      <4>2. t # <<>>
        BY <3>2, <3>3, EmptySeq
      <4> QED BY <4>1, <4>2
    <3>5. ASSUME cut.ok
          PROVE  /\ whole.ok /\ cut.method = whole.method /\ cut.path = whole.path
                 /\ IsPrefix(Headers(t, cut), Headers(w, whole))
      BY <2>3, <3>2, <3>4, <3>5, Uninvented
    <3> HIDE DEF cut, whole
    <3>6. NothingInvented(t, whole)
      BY <3>5 DEF NothingInvented, cut, w
    <3> QED BY <3>6 DEF t
  <2> QED BY <2>4, <2>5 DEF r, w
<1>2. TInv => RequestReread
  BY <1>1 DEF RequestReread
<1> QED BY <1>2, TInvariance, PTL

-----------------------------------------------------------------------------
(***************************************************************************)
(* Chunks: sizes                                                           *)
(***************************************************************************)

\* A number divided by the base.
LEMMA Divided ==
  ASSUME NEW n \in Nat, NEW b \in Nat, b > 1, n >= b
  PROVE  /\ n \div b \in Nat /\ (n % b) \in 0..b - 1
         /\ n \div b < n
         /\ (n \div b) * b + (n % b) = n
<1>1. n \div b \in Nat
  OBVIOUS
<1>2. (n % b) \in 0..b - 1
  OBVIOUS
<1>3. (n \div b) * b + (n % b) = n
  OBVIOUS
<1>4. n \div b < n
  <2>1. \A q, r \in Nat : q * b + r = n /\ r < b => q < n
    <3> SUFFICES ASSUME NEW q \in Nat, NEW r \in Nat, q * b + r = n, r < b, q >= n PROVE FALSE
      OBVIOUS
    <3>1. q * b >= q * 2
      OBVIOUS
    <3> QED BY <3>1
  <2> QED BY <1>1, <1>2, <1>3, <2>1
<1> QED BY <1>1, <1>2, <1>3, <1>4

\* The digits, each of which has its place in Hex.
Digits16 == {Hex[k] : k \in 1..Base}
Weigh == [x \in Nat \X Digits16 |-> x[1] * Base + Digit(x[2])]

\* A digit stands for a number below the base, its own, and is no line end.
LEMMA DigitsWell ==
  /\ Base \in Nat /\ Base > 1 /\ CR \notin Digits16
  /\ \A c : IsDigit(c) <=> c \in Digits16
  /\ \A k \in 1..Base : Hex[k] \in Digits16 /\ Digit(Hex[k]) = k - 1
  /\ \A c \in Digits16 : Digit(c) \in Nat
<1>1. Hex \in Seq({Hex[i] : i \in DOMAIN Hex}) /\ Len(Hex) > 1
  BY ChunkedAssumption DEF IsList
<1>2. Base \in Nat /\ Base > 1 /\ DOMAIN Hex = 1..Base
  BY <1>1 DEF Base
<1>3. CR \notin Digits16
  BY <1>2, ChunkedAssumption DEF Digits16
<1>4. \A c : IsDigit(c) <=> c \in Digits16
  BY DEF IsDigit, Digits16
<1>5. ASSUME NEW k \in 1..Base PROVE Hex[k] \in Digits16 /\ Digit(Hex[k]) = k - 1
  <2>1. \A m \in 1..Base : Hex[m] = Hex[k] => m = k
    BY <1>2, ChunkedAssumption
  <2>2. (CHOOSE m \in 1..Base : Hex[m] = Hex[k]) = k
    BY <2>1
  <2> QED BY <2>2 DEF Digit, Digits16
<1>6. ASSUME NEW c \in Digits16 PROVE Digit(c) \in Nat
  <2>1. PICK k \in 1..Base : c = Hex[k]
    BY DEF Digits16
  <2>2. Digit(c) = k - 1
    BY <1>5, <2>1
  <2> QED BY <1>2, <2>2
<1> QED BY <1>2, <1>3, <1>4, <1>5, <1>6

\* Value is a fold of Weigh.
LEMMA ValueFolded ==
  ASSUME NEW seq \in Seq(Digits16)
  PROVE  Foldable(Nat, Digits16, Weigh, 0, seq) /\ Value(seq) = Folded(Weigh, 0, seq)
<1> DEFINE op(n, c) == n * Base + Digit(c)
           Iter(g) == g = [s \in SUBSET (DOMAIN seq) |->
                             IF s = {} THEN 0 ELSE op(g[s \ {Max(s)}], seq[Max(s)])]
           c == CHOOSE g : Iter(g)
<1>1. Value(seq) = c[DOMAIN seq]
  BY DEF Value, FoldLeft, MapThenFoldSet
<1>2. \A n \in Nat, a \in Digits16 : op(n, a) \in Nat
  <2>1. \A n, b, d \in Nat : n * b + d \in Nat
    OBVIOUS
  <2> QED BY <2>1, DigitsWell
<1>3. \A n \in Nat, a \in Digits16 : Weigh[<<n, a>>] = op(n, a)
  BY DEF Weigh
<1>4. Weigh \in [Nat \X Digits16 -> Nat]
  <2>1. Weigh = [x \in Nat \X Digits16 |-> op(x[1], x[2])]
    BY DEF Weigh
  <2>2. \A x \in Nat \X Digits16 : x[1] \in Nat /\ x[2] \in Digits16
    OBVIOUS
  <2> HIDE DEF op
  <2> QED BY <1>2, <2>1, <2>2
<1> HIDE DEF op
<1>6. Foldable(Nat, Digits16, Weigh, 0, seq)
  BY <1>4 DEF Foldable
<1>7. PICK g \in [SUBSET (DOMAIN seq) -> Nat] : IsIter(g, Weigh, 0, seq)
  BY <1>6, IterExists DEF Foldable
<1>8. \A s \in SUBSET (DOMAIN seq) :
        s # {} => seq[Max(s)] \in Digits16 /\ s \ {Max(s)} \in SUBSET (DOMAIN seq)
  BY IterStep
<1>9. Iter(g)
  <2>1. \A s \in SUBSET (DOMAIN seq) : s # {} =>
          Weigh[<<g[s \ {Max(s)}], seq[Max(s)]>>] = op(g[s \ {Max(s)}], seq[Max(s)])
    BY <1>3, <1>7, <1>8
  <2> QED BY <1>7, <2>1 DEF IsIter
<1>10. Iter(c)
  <2> HIDE DEF Iter
  <2> QED BY <1>9
<1> HIDE DEF c
<1>11. Iterates(c, Nat, Weigh, 0, seq)
  <2>1. \A s \in SUBSET (DOMAIN seq) : s # {} /\ c[s \ {Max(s)}] \in Nat =>
          Weigh[<<c[s \ {Max(s)}], seq[Max(s)]>>] = op(c[s \ {Max(s)}], seq[Max(s)])
    BY <1>3, <1>8
  <2> QED BY <1>10, <2>1 DEF Iterates
<1> QED BY <1>1, <1>6, <1>11, IteratedIs

\* One digit more at the end.
LEMMA ValueSteps ==
  /\ Value(<<>>) = 0
  /\ \A s \in Seq(Digits16), c \in Digits16 :
       Value(s) \in Nat /\ Value(Append(s, c)) = Value(s) * Base + Digit(c)
<1>1. Value(<<>>) = 0
  <2>1. <<>> \in Seq(Digits16)
    OBVIOUS
  <2>2. Foldable(Nat, Digits16, Weigh, 0, <<>>) /\ Value(<<>>) = Folded(Weigh, 0, <<>>)
    BY <2>1, ValueFolded
  <2> QED BY <2>2, FoldedEmpty
<1>2. ASSUME NEW s \in Seq(Digits16), NEW c \in Digits16
      PROVE  Value(s) \in Nat /\ Value(Append(s, c)) = Value(s) * Base + Digit(c)
  <2>1. Append(s, c) \in Seq(Digits16)
    OBVIOUS
  <2>2. Foldable(Nat, Digits16, Weigh, 0, s) /\ Value(s) = Folded(Weigh, 0, s)
    BY ValueFolded
  <2>3. Value(Append(s, c)) = Folded(Weigh, 0, Append(s, c))
    BY <2>1, ValueFolded
  <2>4. /\ Folded(Weigh, 0, s) \in Nat
        /\ Folded(Weigh, 0, Append(s, c)) = Weigh[<<Folded(Weigh, 0, s), c>>]
    BY <2>2, FoldedAppend
  <2>5. Weigh[<<Value(s), c>>] = Value(s) * Base + Digit(c)
    BY <2>2, <2>4 DEF Weigh
  <2> QED BY <2>2, <2>3, <2>4, <2>5
<1> QED BY <1>1, <1>2

\* What is written is a sequence of digits, as the recursion says.
LEMMA WrittenIs ==
  /\ Written \in [Nat -> Seq(Digits16)]
  /\ \A n \in Nat : n < Base => Written[n] = <<Hex[n + 1]>>
  /\ \A n \in Nat : n >= Base =>
       Written[n] = Append(Written[n \div Base], Hex[(n % Base) + 1])
<1> DEFINE V == Seq(Digits16)
           up(n) == n \div Base
           low(n) == Hex[(n % Base) + 1]
           Step(f, n) == IF n < Base THEN <<Hex[n + 1]>> ELSE Append(f[up(n)], low(n))
           B == [f \in [Nat -> V] |-> [n \in Nat |-> Step(f, n)]]
           rank == [n \in Nat |-> n]
           Iter(f) == f = [n \in Nat |-> Step(f, n)]
<1>0. Base \in Nat /\ Base > 1 /\ \A k \in 1..Base : Hex[k] \in Digits16
  BY DigitsWell
<1>1. ASSUME NEW n \in Nat, n >= Base
      PROVE  up(n) \in Nat /\ up(n) < n /\ low(n) \in Digits16
  <2>1. n \div Base \in Nat /\ (n % Base) \in 0..Base - 1 /\ n \div Base < n
    BY <1>0, <1>1, Divided
  <2> DEFINE d == (n % Base)
  <2>2. d + 1 \in 1..Base
    <3>1. d \in 0..Base - 1
      BY <2>1
    <3> HIDE DEF d
    <3> QED BY <1>0, <3>1
  <2> QED BY <1>0, <2>1, <2>2
<1>2. ASSUME NEW n \in Nat, n < Base
      PROVE  <<Hex[n + 1]>> \in V
  <2>1. n + 1 \in 1..Base
    BY <1>0, <1>2
  <2> QED BY <1>0, <2>1
<1>3. \A n \in Nat : n < Base \/ n >= Base
  BY <1>0
<1>4. \A n \in Nat : n >= Base => ~(n < Base)
  BY <1>0
<1>5. Written = CHOOSE f : Iter(f)
  BY DEF Written
<1> HIDE DEF up, low
<1>6. ASSUME NEW f \in [Nat -> V], NEW n \in Nat PROVE Step(f, n) \in V
  <2>1. CASE n < Base
    BY <1>2, <2>1
  <2>2. CASE n >= Base
    <3>1. f[up(n)] \in V /\ low(n) \in Digits16
      BY <1>1, <2>2
    <3>2. Append(f[up(n)], low(n)) \in V
      BY <3>1
    <3> QED BY <1>4, <2>2, <3>2
  <2> QED BY <1>3, <2>1, <2>2
<1>7. ASSUME NEW f, NEW g, NEW n \in Nat, n >= Base => f[up(n)] = g[up(n)]
      PROVE  Step(f, n) = Step(g, n)
  BY <1>3, <1>7
<1>8. \A n \in Nat : /\ n < Base => Step(Written, n) = <<Hex[n + 1]>>
                     /\ n >= Base => Step(Written, n) = Append(Written[up(n)], low(n))
  BY <1>4
<1> HIDE DEF Step, V
<1>9. Ranked(Nat, V, B, rank)
  <2>1. B \in [[Nat -> V] -> [Nat -> V]]
    BY <1>6
  <2>2. rank \in [Nat -> Nat]
    OBVIOUS
  <2>3. ASSUME NEW f \in [Nat -> V], NEW g \in [Nat -> V], NEW n \in Nat,
               \A m \in Nat : rank[m] < rank[n] => f[m] = g[m]
        PROVE  B[f][n] = B[g][n]
    <3>1. n >= Base => f[up(n)] = g[up(n)]
      BY <1>1, <2>3
    <3>2. Step(f, n) = Step(g, n)
      BY <1>7, <3>1
    <3> QED BY <3>2
  <2> HIDE DEF B, rank
  <2> QED BY <2>1, <2>2, <2>3 DEF Ranked
<1>10. \E f \in [Nat -> V] : Iter(f)
  <2>1. [n \in Nat |-> <<>>] \in [Nat -> V]
    BY DEF V
  <2>2. \E f \in [Nat -> V] : f = B[f]
    <3> DEFINE base == [n \in Nat |-> <<>>]
    <3>1. base \in [Nat -> V]
      BY <2>1
    <3> HIDE DEF B, rank, base
    <3> QED BY <1>9, <3>1, RecursionExists
  <2>3. PICK f \in [Nat -> V] : f = B[f]
    BY <2>2
  <2>4. Iter(f)
    BY <2>3
  <2> QED BY <2>4
<1>11. Iter(Written)
  <2> HIDE DEF Iter
  <2> QED BY <1>5, <1>10
<1>12. \A n \in Nat : Written[n] = Step(Written, n)
  BY <1>11
<1>13. \A n \in Nat : /\ n < Base => Written[n] = <<Hex[n + 1]>>
                      /\ n >= Base => Written[n] = Append(Written[up(n)], low(n))
  BY <1>8, <1>12
<1> DEFINE Q == {k \in Nat : \A n \in Nat : n < k => Written[n] \in V}
<1>14. 0 \in Q
  OBVIOUS
<1>15. ASSUME NEW k \in Nat, k \in Q PROVE k + 1 \in Q
  <2> SUFFICES ASSUME NEW n \in Nat, n < k + 1 PROVE Written[n] \in V
    OBVIOUS
  <2>1. CASE n < Base
    BY <1>2, <1>13, <2>1
  <2>2. CASE n >= Base
    <3>1. up(n) \in Nat /\ up(n) < n /\ low(n) \in Digits16
      BY <1>1, <2>2
    <3>2. Written[up(n)] \in V
      BY <1>15, <3>1
    <3>3. Append(Written[up(n)], low(n)) \in V
      BY <3>1, <3>2 DEF V
    <3> QED BY <1>13, <2>2, <3>3
  <2> QED BY <1>3, <2>1, <2>2
<1>16. \A k \in Nat : k \in Q
  <2> HIDE DEF Q
  <2> QED BY <1>14, <1>15, Induction
<1>17. ASSUME NEW n \in Nat PROVE Written[n] \in V
  <2>1. n + 1 \in Nat /\ n < n + 1
    OBVIOUS
  <2> QED BY <1>16, <2>1
<1>18. Written \in [Nat -> V]
  BY <1>11, <1>17
<1> QED BY <1>13, <1>18 DEF V, up, low

\* The digits that are written have the value that is written.
LEMMA SizeReread ==
  ASSUME NEW n \in Nat
  PROVE  /\ Written[n] \in Seq(Digits16) /\ Written[n] # <<>> /\ Value(Written[n]) = n
<1>0. Base \in Nat /\ Base > 1 /\ \A k \in 1..Base : Hex[k] \in Digits16 /\ Digit(Hex[k]) = k - 1
  BY DigitsWell
<1> DEFINE Q == {k \in Nat : \A m \in Nat : m < k => Value(Written[m]) = m}
<1>1. 0 \in Q
  OBVIOUS
<1>2. ASSUME NEW k \in Nat, k \in Q PROVE k + 1 \in Q
  <2> SUFFICES ASSUME NEW m \in Nat, m < k + 1 PROVE Value(Written[m]) = m
    OBVIOUS
  <2>1. CASE m < Base
    <3>1. Hex[m + 1] \in Digits16 /\ Digit(Hex[m + 1]) = m
      BY <1>0, <2>1
    <3> DEFINE c == Hex[m + 1]
    <3>2. Written[m] = <<c>>
      BY <2>1, WrittenIs
    <3> HIDE DEF c
    <3>3. <<>> \in Seq(Digits16) /\ <<c>> = Append(<<>>, c) /\ c \in Digits16 /\ Digit(c) = m
      BY <3>1 DEF c
    <3>4. Value(<<c>>) = Value(<<>>) * Base + Digit(c)
      BY <3>3, ValueSteps
    <3>5. 0 * Base + m = m
      BY <1>0
    <3> QED BY <3>2, <3>3, <3>4, <3>5, ValueSteps
  <2>2. CASE m >= Base
    <3> DEFINE q == m \div Base  d == (m % Base)  c == Hex[d + 1]
    <3>1. q \in Nat /\ d \in 0..Base - 1 /\ q < m /\ q * Base + d = m
      BY <1>0, <2>2, Divided
    <3>2. Written[m] = Append(Written[q], c) /\ Written[q] \in Seq(Digits16)
      BY <2>2, <3>1, WrittenIs
    <3> HIDE DEF q, d
    <3>3. c \in Digits16 /\ Digit(c) = d
      BY <1>0, <3>1
    <3>4. Value(Written[q]) = q
      BY <1>2, <3>1
    <3> HIDE DEF c
    <3>5. Value(Append(Written[q], c)) = Value(Written[q]) * Base + Digit(c)
      BY <3>2, <3>3, ValueSteps
    <3> QED BY <3>1, <3>2, <3>3, <3>4, <3>5
  <2> QED BY <1>0, <2>1, <2>2
<1>3. \A k \in Nat : k \in Q
  <2> HIDE DEF Q
  <2> QED BY <1>1, <1>2, Induction
<1>4. Value(Written[n]) = n
  <2>1. n + 1 \in Q /\ n < n + 1
    BY <1>3
  <2> QED BY <2>1
<1>5. Written[n] \in Seq(Digits16)
  BY WrittenIs
<1>6. Written[n] # <<>>
  <2>1. CASE n < Base
    <3>1. Written[n] = <<Hex[n + 1]>>
      BY <2>1, WrittenIs
    <3> QED BY <3>1
  <2>2. CASE n >= Base
    <3>1. n \div Base \in Nat
      BY <1>0, <2>2, Divided
    <3>2. Written[n \div Base] \in Seq(Digits16)
      BY <3>1, WrittenIs
    <3>3. \A s \in Seq(Digits16) : \A c : Append(s, c) # <<>>
      <4> SUFFICES ASSUME NEW s \in Seq(Digits16), NEW c PROVE Append(s, c) # <<>>
        OBVIOUS
      <4>1. Len(Append(s, c)) = Len(s) + 1 /\ Len(s) \in Nat /\ Len(<<>>) = 0
        OBVIOUS
      <4> QED BY <4>1
    <3> QED BY <2>2, <3>2, <3>3, WrittenIs
  <2> QED BY <1>0, <2>1, <2>2
<1> QED BY <1>4, <1>5, <1>6

-----------------------------------------------------------------------------
(***************************************************************************)
(* Chunks: what is written and how it is read                              *)
(***************************************************************************)

\* How much of b goes into the chunk that begins at i, and the chunks from there.
Piece(b, i) == IF End(b) - i < ChunkSize THEN End(b) - i ELSE ChunkSize
Encodes(e, b) ==
  /\ e[End(b)] = <<Hex[1]>> \o CRLF \o CRLF
  /\ \A i \in 1..Len(b) :
       e[i] = Written[Piece(b, i)] \o CRLF \o Cut(b, i, i + Piece(b, i)) \o CRLF
                \o e[i + Piece(b, i)]

\* A chunk is not empty, and lies within the body.
LEMMA PieceIs ==
  ASSUME NEW X, NEW b \in Seq(X), NEW i \in 1..Len(b)
  PROVE  Piece(b, i) \in Nat /\ Piece(b, i) >= 1 /\ i + Piece(b, i) \in i + 1..End(b)
<1>1. Len(b) \in Nat /\ End(b) = Len(b) + 1 /\ ChunkSize \in Nat /\ ChunkSize >= 1
  BY ChunkedAssumption DEF End
<1> QED BY <1>1 DEF Piece

\* cwh_encode_chunked is such a function, taken at the first position.
LEMMA Encoded ==
  ASSUME NEW X, NEW b \in Seq(X), Digits16 \subseteq X, {CR, LF} \subseteq X
  PROVE  \E e \in [1..End(b) -> Seq(X)] : Encodes(e, b) /\ cwh_encode_chunked(b) = e[1]
<1> DEFINE D == 1..End(b)
           V == Seq(X)
           last == <<Hex[1]>> \o CRLF \o CRLF
           head(i) == Written[Piece(b, i)] \o CRLF \o Cut(b, i, i + Piece(b, i)) \o CRLF
           next(i) == i + Piece(b, i)
           Step(f, i) == IF i = End(b) THEN last ELSE head(i) \o f[next(i)]
           B == [f \in [D -> V] |-> [i \in D |-> Step(f, i)]]
           rank == [i \in D |-> End(b) - i]
           Iter(f) == f = [i \in D |-> Step(f, i)]
           e == CHOOSE f : Iter(f)
<1>0. Len(b) \in Nat /\ End(b) = Len(b) + 1 /\ 1 \in D /\ End(b) \in D
      /\ \A i \in D : i # End(b) => i \in 1..Len(b)
  BY DEF End
<1>1. CRLF \in V
  BY DEF CRLF
<1>2. last \in V
  <2>1. Hex[1] \in X
    BY DigitsWell
  <2> QED BY <1>1, <2>1
<1>3. \A i \in 1..Len(b) : head(i) \in V
  <2> SUFFICES ASSUME NEW i \in 1..Len(b) PROVE head(i) \in V
    OBVIOUS
  <2> DEFINE n == Piece(b, i)  a == Written[n]  c == Cut(b, i, i + n)
  <2>1. n \in Nat /\ i + n \in i + 1..End(b)
    BY PieceIs
  <2>2. a \in V
    <3>1. a \in Seq(Digits16)
      BY <2>1, SizeReread
    <3> HIDE DEF a
    <3> QED BY <3>1
  <2>3. c \in V
    <3>1. i \in 1..End(b) /\ i + n \in i..End(b)
      BY <1>0, <2>1
    <3> HIDE DEF n
    <3> QED BY <3>1, CutHas
  <2> HIDE DEF a, c
  <2>4. a \o CRLF \o c \o CRLF \in V
    BY <1>1, <2>2, <2>3
  <2> QED BY <2>4 DEF a, c
<1>4. \A i \in 1..Len(b) : next(i) \in D /\ End(b) - next(i) < End(b) - i
  <2> SUFFICES ASSUME NEW i \in 1..Len(b) PROVE next(i) \in D /\ End(b) - next(i) < End(b) - i
    OBVIOUS
  <2>1. Piece(b, i) \in Nat /\ Piece(b, i) >= 1 /\ i + Piece(b, i) \in i + 1..End(b)
    BY PieceIs
  <2> QED BY <1>0, <2>1
<1>5. cwh_encode_chunked(b) = e[1]
  BY DEF cwh_encode_chunked, Piece
<1>6. Encodes(e, b) <=> /\ e[End(b)] = last
                        /\ \A i \in 1..Len(b) : e[i] = head(i) \o e[next(i)]
  BY DEF Encodes
<1> HIDE DEF last, head, next
<1>7. \A f \in [D -> V], i \in D : Step(f, i) \in V
  BY <1>0, <1>2, <1>3, <1>4
<1>8. \A f, g \in [D -> V], i \in D :
        (i # End(b) => f[next(i)] = g[next(i)]) => Step(f, i) = Step(g, i)
  OBVIOUS
<1>9. \A f : \A i \in D : Step(f, i) = IF i = End(b) THEN last ELSE head(i) \o f[next(i)]
  OBVIOUS
<1> HIDE DEF Step
<1>10. Ranked(D, V, B, rank)
  <2>1. B \in [[D -> V] -> [D -> V]]
    BY <1>7
  <2>2. rank \in [D -> Nat]
    BY <1>0
  <2>3. ASSUME NEW f \in [D -> V], NEW g \in [D -> V], NEW i \in D,
               \A m \in D : rank[m] < rank[i] => f[m] = g[m]
        PROVE  B[f][i] = B[g][i]
    <3>1. i # End(b) => f[next(i)] = g[next(i)]
      BY <1>0, <1>4, <2>3
    <3>2. Step(f, i) = Step(g, i)
      BY <1>8, <3>1
    <3> QED BY <3>2
  <2> HIDE DEF B, rank, D, V
  <2> QED BY <2>1, <2>2, <2>3 DEF Ranked
<1>11. \E f \in [D -> V] : Iter(f)
  <2>1. [i \in D |-> last] \in [D -> V]
    BY <1>2
  <2>2. \E f \in [D -> V] : f = B[f]
    <3> DEFINE base == [i \in D |-> last]
    <3>1. base \in [D -> V]
      BY <2>1
    <3> HIDE DEF B, rank, base, D, V
    <3> QED BY <1>10, <3>1, RecursionExists
  <2>3. PICK f \in [D -> V] : f = B[f]
    BY <2>2
  <2>4. Iter(f)
    BY <2>3
  <2> QED BY <2>4
<1>12. Iter(e)
  <2> HIDE DEF Iter
  <2> QED BY <1>11
<1> HIDE DEF e
<1>13. \A i \in D : e[i] = Step(e, i)
  BY <1>12
<1>14. Encodes(e, b)
  <2>1. e[End(b)] = last
    BY <1>0, <1>9, <1>13
  <2>2. ASSUME NEW i \in 1..Len(b) PROVE e[i] = head(i) \o e[next(i)]
    <3>1. i \in D /\ i # End(b)
      BY <1>0
    <3> QED BY <1>9, <1>13, <3>1
  <2> QED BY <1>6, <2>1, <2>2
<1> DEFINE Q == {k \in Nat : \A i \in D : End(b) - i < k => e[i] \in V}
<1>15. 0 \in Q
  BY <1>0
<1>16. ASSUME NEW k \in Nat, k \in Q PROVE k + 1 \in Q
  <2> SUFFICES ASSUME NEW i \in D, End(b) - i < k + 1 PROVE e[i] \in V
    OBVIOUS
  <2>1. CASE i = End(b)
    BY <1>2, <1>9, <1>13, <2>1
  <2>2. CASE i # End(b)
    <3>1. i \in 1..Len(b) /\ next(i) \in D /\ End(b) - next(i) < End(b) - i
      BY <1>0, <1>4, <2>2
    <3>2. End(b) - next(i) < k
      BY <1>0, <3>1
    <3>3. e[next(i)] \in V
      BY <1>16, <3>1, <3>2
    <3>4. head(i) \o e[next(i)] \in V
      BY <1>3, <3>1, <3>3
    <3> QED BY <1>9, <1>13, <2>2, <3>4
  <2> QED BY <2>1, <2>2
<1>17. \A k \in Nat : k \in Q
  <2> HIDE DEF Q
  <2> QED BY <1>15, <1>16, Induction
<1>18. ASSUME NEW i \in D PROVE e[i] \in V
  <2>1. End(b) - i + 1 \in Nat /\ End(b) - i < End(b) - i + 1
    BY <1>0
  <2> QED BY <1>17, <2>1
<1>19. e \in [D -> V]
  BY <1>12, <1>18
<1> QED BY <1>5, <1>14, <1>19

\* Where a size line ends, its size, and what is made of it, given what is made
\* of the text behind its chunk.
LineStop(t, i) == IF At(t, DigitsFrom(t, i), <<";">>)
                  THEN find_char(t, DigitsFrom(t, i), End(t), CR) ELSE DigitsFrom(t, i)
Size(t, i) == Value(Cut(t, i, DigitsFrom(t, i)))
Unchunked(f, t, e, size) ==
  IF ~At(t, e, CRLF) THEN BadChunks(<<>>)
  ELSE IF size = 0 THEN Chunks(<<>>)
  ELSE IF e + 2 + size > End(t) THEN BadChunks(<<>>)
  ELSE IF ~At(t, e + 2 + size, CRLF) THEN BadChunks(Cut(t, e + 2, e + 2 + size))
  ELSE [ok |-> f[e + 2 + size + 2].ok,
        data |-> Cut(t, e + 2, e + 2 + size) \o f[e + 2 + size + 2].data]
Decodes(f, t) ==
  /\ f[End(t)] = Chunks(<<>>)
  /\ \A i \in 1..Len(t) : f[i] = Unchunked(f, t, LineStop(t, i), Size(t, i))
Decodings(X) == [ok : BOOLEAN, data : Seq(X)]

\* The digits that a text has from a position on.
LEMMA DigitsCut ==
  ASSUME NEW X, NEW t \in Seq(X), NEW i \in 1..End(t)
  PROVE  /\ DigitsFrom(t, i) \in i..End(t)
         /\ Cut(t, i, DigitsFrom(t, i)) \in Seq(Digits16)
<1> DEFINE j == DigitsFrom(t, i)  s == Cut(t, i, j)
<1>1. IsFirst(j, i, End(t), NonDigits(t))
  BY DigitsEndAt
<1> HIDE DEF j
<1>2. Len(t) \in Nat /\ End(t) = Len(t) + 1 /\ DOMAIN t = 1..Len(t) /\ i \in Nat /\ i >= 1
  BY DEF End
<1>3. j \in i..End(t) /\ \A k \in i..j - 1 : k \notin NonDigits(t)
  BY <1>1 DEF IsFirst
<1>4. s \in Seq(X) /\ Len(s) = j - i /\ \A k \in 1..j - i : s[k] = t[i - 1 + k]
  BY <1>3, CutHas
<1> HIDE DEF s
<1>5. ASSUME NEW k \in 1..Len(s) PROVE s[k] \in Digits16
  <2>1. k \in 1..j - i /\ i - 1 + k \in i..j - 1 /\ i - 1 + k \in DOMAIN t
    BY <1>2, <1>3, <1>4
  <2>2. IsDigit(t[i - 1 + k])
    BY <1>3, <2>1 DEF NonDigits
  <2> QED BY <1>4, <2>1, <2>2, DigitsWell
<1>6. s \in Seq(Digits16)
  <2>1. s = [k \in 1..Len(s) |-> s[k]] /\ Len(s) \in Nat
    BY <1>4
  <2> QED BY <1>5, <2>1
<1> QED BY <1>3, <1>6 DEF j, s

\* A size is the value of those digits.
LEMMA SizeIs ==
  ASSUME NEW X, NEW t \in Seq(X), NEW i \in 1..End(t)
  PROVE  LineStop(t, i) \in i..End(t) /\ Size(t, i) \in Nat
<1> DEFINE j == DigitsFrom(t, i)
<1>0. End(t) \in Nat /\ i \in Nat /\ i >= 1
  BY DEF End
<1>1. j \in i..End(t) /\ Cut(t, i, j) \in Seq(Digits16)
  BY DigitsCut
<1> HIDE DEF j
<1>2. Size(t, i) \in Nat
  <2>1. Hex[1] \in Digits16
    BY DigitsWell
  <2> QED BY <1>1, <2>1, ValueSteps DEF Size, j
<1>3. find_char(t, j, End(t), CR) \in j..End(t)
  <2>1. j \in 1..End(t) /\ End(t) \in j..End(t)
    BY <1>0, <1>1
  <2> QED BY <2>1, FindCharFacts
<1>4. LineStop(t, i) \in i..End(t)
  <2>1. LineStop(t, i) = IF At(t, j, <<";">>) THEN find_char(t, j, End(t), CR) ELSE j
    BY DEF LineStop, j
  <2>2. j \in i..End(t) /\ find_char(t, j, End(t), CR) \in i..End(t)
    BY <1>0, <1>1, <1>3
  <2> QED BY <2>1, <2>2
<1> QED BY <1>2, <1>4

\* It makes decodings.
LEMMA UnchunkedTyped ==
  ASSUME NEW X, NEW t \in Seq(X), NEW e \in 1..End(t), NEW size \in Nat,
         NEW f, \A i \in e + 1..End(t) : f[i] \in Decodings(X)
  PROVE  Unchunked(f, t, e, size) \in Decodings(X)
<1>1. \A s \in Seq(X) : Chunks(s) \in Decodings(X) /\ BadChunks(s) \in Decodings(X)
  BY DEF Chunks, BadChunks, Decodings
<1>2. <<>> \in Seq(X) /\ Len(CRLF) = 2 /\ End(t) \in Nat /\ e \in Nat /\ e >= 1
  BY DEF CRLF, End
<1>3. ASSUME e + 2 + size <= End(t) PROVE Cut(t, e + 2, e + 2 + size) \in Seq(X)
  <2> DEFINE a == e + 2  c == e + 2 + size
  <2>1. a \in 1..End(t) /\ c \in a..End(t)
    BY <1>2, <1>3
  <2> HIDE DEF a, c
  <2>2. Cut(t, a, c) \in Seq(X)
    BY <2>1, CutHas
  <2> QED BY <2>2 DEF a, c
<1>4. ASSUME At(t, e + 2 + size, CRLF), e + 2 + size <= End(t)
      PROVE  [ok |-> f[e + 2 + size + 2].ok,
              data |-> Cut(t, e + 2, e + 2 + size) \o f[e + 2 + size + 2].data] \in Decodings(X)
  <2> DEFINE c == Cut(t, e + 2, e + 2 + size)  rest == f[e + 2 + size + 2]
  <2>1. e + 2 + size + 2 <= End(t)
    BY <1>2, <1>4 DEF At
  <2>2. e + 2 + size + 2 \in e + 1..End(t)
    BY <1>2, <2>1
  <2>3. c \in Seq(X) /\ rest \in Decodings(X)
    BY <1>3, <1>4, <2>2
  <2> HIDE DEF c, rest
  <2>4. rest.ok \in BOOLEAN /\ rest.data \in Seq(X)
    BY <2>3 DEF Decodings
  <2>5. c \o rest.data \in Seq(X)
    BY <2>3, <2>4
  <2>6. [ok |-> rest.ok, data |-> c \o rest.data] \in Decodings(X)
    BY <2>4, <2>5 DEF Decodings
  <2> QED BY <2>6 DEF c, rest
<1>5. CASE e + 2 + size > End(t)
  BY <1>1, <1>2, <1>5 DEF Unchunked
<1>6. CASE e + 2 + size <= End(t)
  BY <1>1, <1>2, <1>3, <1>4, <1>6 DEF Unchunked
<1> QED BY <1>2, <1>5, <1>6

\* cwh_decode_chunked is such a function, taken at the first position.
LEMMA Decoded ==
  ASSUME NEW X, NEW t \in Seq(X)
  PROVE  \E f \in [1..End(t) -> Decodings(X)] : Decodes(f, t) /\ cwh_decode_chunked(t) = f[1]
<1> DEFINE D == 1..End(t)
           V == Decodings(X)
           Step(f, i) == IF i = End(t) THEN Chunks(<<>>)
                         ELSE Unchunked(f, t, LineStop(t, i), Size(t, i))
           B == [f \in [D -> V] |-> [i \in D |-> Step(f, i)]]
           rank == [i \in D |-> End(t) - i]
           Iter(f) == f = [i \in D |-> Step(f, i)]
           g == CHOOSE f : Iter(f)
<1>0. Len(t) \in Nat /\ End(t) = Len(t) + 1 /\ 1 \in D /\ End(t) \in D
      /\ \A i \in D : i # End(t) => i \in 1..Len(t)
  BY DEF End
<1>1. cwh_decode_chunked(t) = g[1]
  BY DEF cwh_decode_chunked, Unchunked, LineStop, Size, DigitsFrom
<1>2. \A i \in D : LineStop(t, i) \in i..End(t) /\ Size(t, i) \in Nat
  BY SizeIs
<1>3. Chunks(<<>>) \in V
  BY DEF Chunks, Decodings
<1>4. ASSUME NEW f \in [D -> V], NEW i \in D PROVE Step(f, i) \in V
  <2> DEFINE e == LineStop(t, i)  size == Size(t, i)
  <2>1. e \in 1..End(t) /\ size \in Nat
    BY <1>0, <1>2
  <2> HIDE DEF e, size
  <2>2. \A k \in e + 1..End(t) : f[k] \in Decodings(X)
    BY <1>0, <2>1
  <2>3. Unchunked(f, t, e, size) \in Decodings(X)
    BY <2>1, <2>2, UnchunkedTyped
  <2> QED BY <1>3, <2>3 DEF e, size
<1>5. ASSUME NEW f \in [D -> V], NEW h \in [D -> V], NEW i \in D,
             \A k \in D : k > i => f[k] = h[k]
      PROVE  Step(f, i) = Step(h, i)
  <2> DEFINE e == LineStop(t, i)  size == Size(t, i)
  <2>1. e \in i..End(t) /\ size \in Nat
    BY <1>2
  <2> HIDE DEF e, size
  <2>2. At(t, e + 2 + size, CRLF) => f[e + 2 + size + 2] = h[e + 2 + size + 2]
    <3> SUFFICES ASSUME At(t, e + 2 + size, CRLF)
                 PROVE  f[e + 2 + size + 2] = h[e + 2 + size + 2]
      OBVIOUS
    <3>1. Len(CRLF) = 2
      BY DEF CRLF
    <3>2. e + 2 + size + 2 <= End(t)
      BY <3>1 DEF At
    <3>3. e + 2 + size + 2 \in D /\ e + 2 + size + 2 > i
      BY <1>0, <2>1, <3>2
    <3> QED BY <1>5, <3>3
  <2>3. Unchunked(f, t, e, size) = Unchunked(h, t, e, size)
    BY <2>2 DEF Unchunked
  <2> QED BY <2>3 DEF e, size
<1>6. /\ \A f : Step(f, End(t)) = Chunks(<<>>)
      /\ \A f : \A i \in 1..Len(t) :
           Step(f, i) = Unchunked(f, t, LineStop(t, i), Size(t, i))
  BY <1>0
<1> HIDE DEF Step, V
<1>7. Ranked(D, V, B, rank)
  <2>1. B \in [[D -> V] -> [D -> V]]
    BY <1>4
  <2>2. rank \in [D -> Nat]
    BY <1>0
  <2>3. ASSUME NEW f \in [D -> V], NEW h \in [D -> V], NEW i \in D,
               \A m \in D : rank[m] < rank[i] => f[m] = h[m]
        PROVE  B[f][i] = B[h][i]
    <3>1. \A k \in D : k > i => f[k] = h[k]
      BY <1>0, <2>3
    <3>2. Step(f, i) = Step(h, i)
      BY <1>5, <3>1
    <3> QED BY <3>2
  <2> HIDE DEF B, rank, D
  <2> QED BY <2>1, <2>2, <2>3 DEF Ranked
<1>8. \E f \in [D -> V] : Iter(f)
  <2> DEFINE base == [i \in D |-> Chunks(<<>>)]
  <2>1. base \in [D -> V]
    BY <1>3
  <2>2. \E f \in [D -> V] : f = B[f]
    <3> HIDE DEF B, rank, base, D
    <3> QED BY <1>7, <2>1, RecursionExists
  <2>3. PICK f \in [D -> V] : f = B[f]
    BY <2>2
  <2>4. Iter(f)
    BY <2>3
  <2> QED BY <2>4
<1>9. Iter(g)
  <2> HIDE DEF Iter
  <2> QED BY <1>8
<1> HIDE DEF g
<1>10. \A i \in D : g[i] = Step(g, i)
  BY <1>9
<1>11. Decodes(g, t)
  <2>1. g[End(t)] = Chunks(<<>>)
    BY <1>0, <1>6, <1>10
  <2>2. \A i \in 1..Len(t) : g[i] = Unchunked(g, t, LineStop(t, i), Size(t, i))
    BY <1>0, <1>6, <1>10
  <2> QED BY <2>1, <2>2 DEF Decodes
<1> DEFINE Q == {k \in Nat : \A i \in D : End(t) - i < k => g[i] \in V}
<1>12. 0 \in Q
  BY <1>0
<1>13. ASSUME NEW k \in Nat, k \in Q PROVE k + 1 \in Q
  <2> SUFFICES ASSUME NEW i \in D, End(t) - i < k + 1 PROVE g[i] \in V
    OBVIOUS
  <2>1. CASE i = End(t)
    BY <1>3, <1>6, <1>10, <2>1
  <2>2. CASE i # End(t)
    <3> DEFINE e == LineStop(t, i)  size == Size(t, i)
    <3>1. e \in i..End(t) /\ size \in Nat /\ i \in 1..Len(t)
      BY <1>0, <1>2, <2>2
    <3>2. g[i] = Unchunked(g, t, e, size)
      BY <1>6, <1>10, <3>1
    <3> HIDE DEF e, size
    <3>3. e \in 1..End(t)
      BY <1>0, <3>1
    <3>4. \A m \in e + 1..End(t) : g[m] \in V
      <4> SUFFICES ASSUME NEW m \in e + 1..End(t) PROVE g[m] \in V
        OBVIOUS
      <4>1. m \in D /\ End(t) - m < k
        BY <1>0, <3>1
      <4> QED BY <1>13, <4>1
    <3>5. Unchunked(g, t, e, size) \in Decodings(X)
      BY <3>1, <3>3, <3>4, UnchunkedTyped DEF V
    <3> QED BY <3>2, <3>5 DEF V
  <2> QED BY <2>1, <2>2
<1>14. \A k \in Nat : k \in Q
  <2> HIDE DEF Q
  <2> QED BY <1>12, <1>13, Induction
<1>15. ASSUME NEW i \in D PROVE g[i] \in V
  <2>1. End(t) - i + 1 \in Nat /\ End(t) - i < End(t) - i + 1
    BY <1>0
  <2> QED BY <1>14, <2>1
<1>16. g \in [D -> V]
  BY <1>9, <1>15
<1> QED BY <1>1, <1>11, <1>16 DEF V

-----------------------------------------------------------------------------
(***************************************************************************)
(* Chunks: what is read back                                               *)
(***************************************************************************)

\* What stands in t from p on is the beginning of s.
Leads(t, p, s) == /\ End(t) - p <= Len(s)
                  /\ \A k \in 1..End(t) - p : t[p - 1 + k] = s[k]

\* A chunk: digits, data, and what stands behind it.
IsChunk(x, s, c, y) ==
  /\ Len(x) = Len(s) + Len(c) + 4 + Len(y)
  /\ \A k \in 1..Len(s) : x[k] = s[k]
  /\ x[Len(s) + 1] = CR /\ x[Len(s) + 2] = LF
  /\ \A k \in 1..Len(c) : x[Len(s) + 2 + k] = c[k]
  /\ x[Len(s) + Len(c) + 3] = CR /\ x[Len(s) + Len(c) + 4] = LF
  /\ \A k \in 1..Len(y) : x[Len(s) + Len(c) + 4 + k] = y[k]

\* A chunk with what stands behind it is such a text.
LEMMA ChunkParts ==
  ASSUME NEW X, {CR, LF} \subseteq X, NEW s \in Seq(X), NEW c \in Seq(X), NEW y \in Seq(X)
  PROVE  IsChunk(s \o CRLF \o c \o CRLF \o y, s, c, y)
<1> DEFINE W == Len(s)  N == Len(c)
           a1 == s \o CRLF
           a2 == a1 \o c
           a3 == a2 \o CRLF
           x == a3 \o y
<1>1. CRLF \in Seq(X) /\ Len(CRLF) = 2 /\ CRLF[1] = CR /\ CRLF[2] = LF /\ 1 \in 1..2 /\ 2 \in 1..2
  BY DEF CRLF
<1>2. IsJoin(X, s, CRLF, a1)
  BY <1>1, JoinedAt DEF Joined
<1> HIDE DEF a1
<1>3. a1 \in Seq(X)
  BY <1>2 DEF IsJoin
<1>4. IsJoin(X, a1, c, a2)
  BY <1>3, JoinedAt DEF Joined
<1> HIDE DEF a2
<1>5. a2 \in Seq(X)
  BY <1>4 DEF IsJoin
<1>6. IsJoin(X, a2, CRLF, a3)
  BY <1>1, <1>5, JoinedAt DEF Joined
<1> HIDE DEF a3
<1>7. a3 \in Seq(X)
  BY <1>6 DEF IsJoin
<1>8. IsJoin(X, a3, y, x)
  BY <1>7, JoinedAt DEF Joined
<1> HIDE DEF x
<1>9. /\ Len(a1) = W + 2 /\ W \in Nat
      /\ \A k \in 1..W : a1[k] = s[k]
      /\ \A k \in 1..2 : a1[W + k] = CRLF[k]
  BY <1>1, <1>2 DEF IsJoin
<1>10. /\ Len(a2) = W + 2 + N /\ N \in Nat
       /\ \A k \in 1..W + 2 : a2[k] = a1[k]
       /\ \A k \in 1..N : a2[W + 2 + k] = c[k]
  BY <1>4, <1>9 DEF IsJoin
<1>11. /\ Len(a3) = W + N + 4
       /\ \A k \in 1..W + 2 + N : a3[k] = a2[k]
       /\ \A k \in 1..2 : a3[W + 2 + N + k] = CRLF[k]
  <2>1. /\ Len(a3) = W + 2 + N + 2
        /\ \A k \in 1..W + 2 + N : a3[k] = a2[k]
        /\ \A k \in 1..2 : a3[W + 2 + N + k] = CRLF[k]
    BY <1>1, <1>6, <1>10 DEF IsJoin
  <2>2. W + 2 + N + 2 = W + N + 4
    BY <1>9, <1>10
  <2> QED BY <2>1, <2>2
<1>12. /\ Len(x) = W + N + 4 + Len(y)
       /\ \A k \in 1..W + N + 4 : x[k] = a3[k]
       /\ \A k \in 1..Len(y) : x[W + N + 4 + k] = y[k]
  BY <1>8, <1>11 DEF IsJoin
<1> HIDE DEF W, N
<1>13. \A k \in 1..W : x[k] = s[k]
  BY <1>9, <1>10, <1>11, <1>12
<1>14. x[W + 1] = CR /\ x[W + 2] = LF
  <2>1. W + 1 \in 1..W + 2 /\ W + 1 \in 1..W + 2 + N /\ W + 1 \in 1..W + N + 4
    BY <1>9, <1>10
  <2>2. W + 2 \in 1..W + 2 /\ W + 2 \in 1..W + 2 + N /\ W + 2 \in 1..W + N + 4
    BY <1>9, <1>10
  <2>3. a1[W + 1] = CR /\ a1[W + 2] = LF
    BY <1>1, <1>9
  <2>4. x[W + 1] = a3[W + 1] /\ x[W + 2] = a3[W + 2]
    BY <1>12, <2>1, <2>2
  <2>5. a3[W + 1] = a2[W + 1] /\ a3[W + 2] = a2[W + 2]
    BY <1>11, <2>1, <2>2
  <2>6. a2[W + 1] = a1[W + 1] /\ a2[W + 2] = a1[W + 2]
    BY <1>10, <2>1, <2>2
  <2> QED BY <2>3, <2>4, <2>5, <2>6
<1>15. \A k \in 1..N : x[W + 2 + k] = c[k]
  <2> SUFFICES ASSUME NEW k \in 1..N PROVE x[W + 2 + k] = c[k]
    OBVIOUS
  <2>1. W + 2 + k \in 1..W + 2 + N /\ W + 2 + k \in 1..W + N + 4
    BY <1>9, <1>10
  <2>2. a2[W + 2 + k] = c[k]
    BY <1>10
  <2> QED BY <1>11, <1>12, <2>1, <2>2
<1>16. x[W + N + 3] = CR /\ x[W + N + 4] = LF
  <2>1. /\ W + 2 + N + 1 = W + N + 3 /\ W + 2 + N + 2 = W + N + 4
        /\ W + N + 3 \in 1..W + N + 4 /\ W + N + 4 \in 1..W + N + 4
    BY <1>9, <1>10
  <2>2. a3[W + 2 + N + 1] = CR /\ a3[W + 2 + N + 2] = LF
    BY <1>1, <1>11
  <2>3. a3[W + N + 3] = CR /\ a3[W + N + 4] = LF
    BY <2>1, <2>2
  <2> QED BY <1>12, <2>1, <2>3
<1>17. IsChunk(x, s, c, y)
  BY <1>12, <1>13, <1>14, <1>15, <1>16 DEF IsChunk, W, N
<1> QED BY <1>17 DEF x, a3, a2, a1

\* What the decoder makes of a size line, when there is nothing but the size in it.
LEMMA SizeLine ==
  ASSUME NEW X, NEW t \in Seq(X), NEW p \in 1..Len(t), NEW s \in Seq(Digits16),
         \A k \in 1..Len(s) : p - 1 + k <= Len(t) => t[p - 1 + k] = s[k],
         p + Len(s) <= Len(t) => t[p + Len(s)] = CR
  PROVE  /\ p + Len(s) <= End(t) => LineStop(t, p) = p + Len(s) /\ Size(t, p) = Value(s)
         /\ p + Len(s) > End(t) => LineStop(t, p) = End(t)
<1> DEFINE W == Len(s)
           j == IF p + W <= End(t) THEN p + W ELSE End(t)
           Y == X \cup Digits16
<1>1. /\ Len(t) \in Nat /\ End(t) = Len(t) + 1 /\ p \in Nat /\ p >= 1 /\ W \in Nat
      /\ DOMAIN t = 1..Len(t) /\ \A k \in 1..W : s[k] \in Digits16
  BY DEF End
<1>2. j \in p..End(t) /\ (j < End(t) => j = p + W /\ t[j] = CR)
  <2> HIDE DEF W
  <2> QED BY <1>1 DEF W
<1>3. \A k \in p..j - 1 : k \notin NonDigits(t)
  <2> SUFFICES ASSUME NEW k \in p..j - 1 PROVE k \notin NonDigits(t)
    OBVIOUS
  <2>1. k - p + 1 \in 1..W /\ p - 1 + (k - p + 1) = k /\ k <= Len(t)
    <3> DEFINE L == Len(t)
    <3>1. L \in Nat /\ p \in Nat /\ W \in Nat /\ j \in p..L + 1 /\ j <= p + W /\ k \in p..j - 1
      BY <1>1, <1>2
    <3> HIDE DEF L, W, j
    <3> QED BY <3>1 DEF L
  <2>2. t[k] = s[k - p + 1]
    BY <2>1
  <2>3. IsDigit(t[k])
    BY <1>1, <2>1, <2>2, DigitsWell
  <2> QED BY <2>3 DEF NonDigits
<1>4. (p + W <= End(t) => j = p + W) /\ (p + W > End(t) => j = End(t))
  BY <1>1
<1> HIDE DEF j
<1>5. (j < End(t) => t[j] = CR) /\ j \in 1..End(t)
  BY <1>1, <1>2
<1>6. j = End(t) \/ j \in NonDigits(t)
  <2> SUFFICES ASSUME j # End(t) PROVE j \in NonDigits(t)
    OBVIOUS
  <2>1. j < End(t)
    BY <1>1, <1>2
  <2>2. t[j] = CR /\ j \in DOMAIN t
    BY <1>1, <1>2, <2>1
  <2> QED BY <2>2, DigitsWell DEF NonDigits
<1>7. DigitsFrom(t, p) = j
  <2>1. IsFirst(j, p, End(t), NonDigits(t))
    BY <1>2, <1>3, <1>6 DEF IsFirst
  <2>2. IsFirst(DigitsFrom(t, p), p, End(t), NonDigits(t))
    <3>1. p \in 1..End(t)
      BY <1>1
    <3> QED BY <3>1, DigitsEndAt
  <2>3. p \in Nat /\ End(t) \in Nat
    BY <1>1
  <2> QED BY <2>1, <2>2, <2>3, OneFirst
<1> DEFINE semi == ";"
<1>8. ~At(t, j, <<semi>>)
  <2>1. CR # semi
    BY DEF CR
  <2> HIDE DEF semi
  <2>2. At(t, j, <<semi>>) <=> j < End(t) /\ t[j] = semi
    BY <1>5, AtOne
  <2> QED BY <1>5, <2>1, <2>2
<1>9. LineStop(t, p) = j
  BY <1>7, <1>8 DEF LineStop
<1>10. ASSUME p + W <= End(t) PROVE Size(t, p) = Value(s)
  <2>1. t \in Seq(Y) /\ s \in Seq(Y)
    OBVIOUS
  <2>2. Placed(t, p, s)
    <3>1. \A k \in 1..W : t[p - 1 + k] = s[k]
      BY <1>1, <1>10
    <3> QED BY <1>1, <1>10, <3>1 DEF Placed
  <2>3. p \in 1..End(t)
    BY <1>1
  <2> HIDE DEF Y
  <2>4. Cut(t, p, p + W) = s
    BY <2>1, <2>2, <2>3, PlacedCut
  <2> QED BY <1>4, <1>7, <1>10, <2>4 DEF Size
<1> QED BY <1>4, <1>9, <1>10

\* What the decoder makes of a text that begins a chunk and what stands behind it.
LEMMA ChunkRead ==
  ASSUME NEW X, NEW t \in Seq(X), NEW f, Decodes(f, t), NEW p \in 1..Len(t),
         NEW s \in Seq(Digits16), NEW c \in Seq(X), NEW y \in Seq(X), NEW x, IsChunk(x, s, c, y),
         Leads(t, p, x), Value(s) = Len(c), c # <<>>
  PROVE  LET q == p + Len(s) + Len(c) + 4
         IN  /\ q <= End(t) => /\ Leads(t, q, y)
                               /\ f[p] = [ok |-> f[q].ok, data |-> c \o f[q].data]
             /\ q > End(t) => f[p] \in {BadChunks(<<>>), BadChunks(c)}
<1> DEFINE W == Len(s)  N == Len(c)  L == Len(t)  q == p + W + N + 4
<1>1. /\ L \in Nat /\ End(t) = L + 1 /\ p \in Nat /\ p >= 1 /\ p <= L /\ W \in Nat
      /\ N \in Nat /\ N >= 1 /\ Len(y) \in Nat
  <2>1. N \in Nat /\ N >= 1
    BY EmptySeq
  <2> QED BY <2>1 DEF End
<1>2. /\ \A k \in 1..W : x[k] = s[k]
      /\ x[W + 1] = CR /\ x[W + 2] = LF
      /\ \A k \in 1..N : x[W + 2 + k] = c[k]
      /\ x[W + N + 3] = CR /\ x[W + N + 4] = LF
      /\ \A k \in 1..Len(y) : x[W + N + 4 + k] = y[k]
      /\ Len(x) = W + N + 4 + Len(y)
  BY DEF IsChunk
<1>3. \A k \in 1..L + 1 - p : t[p - 1 + k] = x[k]
  <2>1. \A k \in 1..End(t) - p : t[p - 1 + k] = x[k]
    BY DEF Leads
  <2>2. End(t) - p = L + 1 - p
    BY <1>1
  <2> QED BY <2>1, <2>2
<1>4. L + 1 - p <= W + N + 4 + Len(y)
  BY <1>1, <1>2 DEF Leads
<1>5. Len(CRLF) = 2
  BY DEF CRLF
<1>6. f[p] = Unchunked(f, t, LineStop(t, p), Size(t, p))
  BY DEF Decodes
<1>7. /\ p + W <= End(t) => LineStop(t, p) = p + W /\ Size(t, p) = N
      /\ p + W > End(t) => LineStop(t, p) = End(t)
  <2>1. \A k \in 1..W : p - 1 + k <= L => t[p - 1 + k] = s[k]
    <3> SUFFICES ASSUME NEW k \in 1..W, p - 1 + k <= L PROVE t[p - 1 + k] = s[k]
      OBVIOUS
    <3> HIDE DEF W, L
    <3>1. k \in 1..L + 1 - p
      BY <1>1
    <3> QED BY <1>2, <1>3, <3>1
  <2>2. p + W <= L => t[p + W] = CR
    <3> HIDE DEF W, L
    <3>1. p + W <= L => W + 1 \in 1..L + 1 - p /\ p - 1 + (W + 1) = p + W
      BY <1>1
    <3>2. p + W <= L => t[p - 1 + (W + 1)] = x[W + 1]
      BY <1>3, <3>1
    <3> QED BY <1>2, <3>1, <3>2
  <2> QED BY <2>1, <2>2, SizeLine
<1>8. t \in Seq(X) /\ \A i \in 1..End(t) : At(t, i, CRLF) <=> i + 2 <= End(t) /\ t[i] = CR /\ t[i + 1] = LF
  BY AtLineEnd
<1> HIDE DEF W, N, L
<1>9. ASSUME p + W + 2 + N <= End(t) PROVE Cut(t, p + W + 2, p + W + 2 + N) = c
  <2> DEFINE i == p + W + 2
  <2>1. i \in 1..End(t) /\ i + N <= L + 1
    BY <1>1, <1>9
  <2>2. ASSUME NEW k \in 1..N PROVE t[i - 1 + k] = c[k]
    <3>1. W + 2 + k \in 1..L + 1 - p /\ p - 1 + (W + 2 + k) = i - 1 + k
      BY <1>1, <1>9
    <3>2. t[p - 1 + (W + 2 + k)] = c[k]
      BY <1>2, <1>3, <3>1
    <3> QED BY <3>1, <3>2
  <2> HIDE DEF i
  <2>3. Placed(t, i, c)
    BY <2>1, <2>2 DEF Placed, L, N
  <2>4. Cut(t, i, i + N) = c
    BY <1>8, <2>1, <2>3, PlacedCut DEF N
  <2> QED BY <2>4 DEF i
<1>10. ASSUME q <= End(t)
      PROVE  /\ Leads(t, q, y)
             /\ f[p] = [ok |-> f[q].ok, data |-> c \o f[q].data]
  <2>1. q <= L + 1
    BY <1>1, <1>10
  <2>2. LineStop(t, p) = p + W /\ Size(t, p) = N
    BY <1>1, <1>7, <2>1
  <2>3. At(t, p + W, CRLF)
    <3>1. /\ W + 1 \in 1..L + 1 - p /\ W + 2 \in 1..L + 1 - p
          /\ p - 1 + (W + 1) = p + W /\ p - 1 + (W + 2) = p + W + 1
      BY <1>1, <2>1
    <3>2. t[p - 1 + (W + 1)] = CR /\ t[p - 1 + (W + 2)] = LF
      BY <1>2, <1>3, <3>1
    <3>3. p + W \in 1..End(t) /\ p + W + 2 <= End(t)
      BY <1>1, <2>1
    <3> QED BY <1>8, <3>1, <3>2, <3>3
  <2>4. At(t, p + W + 2 + N, CRLF)
    <3>1. /\ W + N + 3 \in 1..L + 1 - p /\ W + N + 4 \in 1..L + 1 - p
          /\ p - 1 + (W + N + 3) = p + W + 2 + N /\ p - 1 + (W + N + 4) = p + W + 2 + N + 1
      BY <1>1, <2>1
    <3>2. t[p - 1 + (W + N + 3)] = CR /\ t[p - 1 + (W + N + 4)] = LF
      BY <1>2, <1>3, <3>1
    <3>3. p + W + 2 + N \in 1..End(t) /\ p + W + 2 + N + 2 <= End(t)
      BY <1>1, <2>1
    <3> QED BY <1>8, <3>1, <3>2, <3>3
  <2>5. Cut(t, p + W + 2, p + W + 2 + N) = c /\ p + W + 2 + N <= End(t)
    <3>1. p + W + 2 + N <= End(t)
      BY <1>1, <2>1
    <3> QED BY <3>1, <1>9
  <2>6. N # 0 /\ p + W + 2 + N + 2 = q
    BY <1>1
  <2>7. f[p] = [ok |-> f[q].ok, data |-> c \o f[q].data]
    <3>1. Unchunked(f, t, p + W, N) = [ok |-> f[q].ok, data |-> c \o f[q].data]
      <4>1. ~(p + W + 2 + N > End(t))
        BY <1>1, <2>5
      <4> HIDE DEF q
      <4> QED BY <2>3, <2>4, <2>5, <2>6, <4>1 DEF Unchunked
    <3> QED BY <1>6, <2>2, <3>1
  <2>8. Leads(t, q, y)
    <3>1. L + 1 - q <= Len(y)
      BY <1>1, <1>4, <2>1
    <3>2. ASSUME NEW k \in 1..L + 1 - q PROVE t[q - 1 + k] = y[k]
      <4>1. /\ W + N + 4 + k \in 1..L + 1 - p /\ p - 1 + (W + N + 4 + k) = q - 1 + k
            /\ k \in 1..Len(y)
        BY <1>1, <1>4, <2>1
      <4>2. t[p - 1 + (W + N + 4 + k)] = y[k]
        BY <1>2, <1>3, <4>1
      <4> QED BY <4>1, <4>2
    <3>3. End(t) - q = L + 1 - q
      BY <1>1
    <3> HIDE DEF q
    <3>4. End(t) - q <= Len(y) /\ \A k \in 1..End(t) - q : t[q - 1 + k] = y[k]
      BY <3>1, <3>2, <3>3
    <3> QED BY <3>4 DEF Leads
  <2> QED BY <2>7, <2>8
<1>11. ASSUME q > End(t) PROVE f[p] \in {BadChunks(<<>>), BadChunks(c)}
  <2>1. CASE p + W <= End(t)
    <3>1. LineStop(t, p) = p + W /\ Size(t, p) = N /\ N # 0
      BY <1>1, <1>7, <2>1
    <3>2. ~(p + W + 2 + N + 2 <= End(t))
      BY <1>1, <1>11
    <3>3. ~At(t, p + W + 2 + N, CRLF)
      BY <1>5, <3>2 DEF At
    <3>4. f[p] = Unchunked(f, t, p + W, N)
      BY <1>6, <3>1
    <3>5. CASE p + W + 2 + N > End(t)
      BY <3>1, <3>4, <3>5 DEF Unchunked
    <3>6. CASE p + W + 2 + N <= End(t)
      <4>1. ~(p + W + 2 + N > End(t))
        BY <1>1, <3>6
      <4> QED BY <1>9, <3>1, <3>3, <3>4, <3>6, <4>1 DEF Unchunked
    <3> QED BY <1>1, <3>5, <3>6
  <2>2. CASE p + W > End(t)
    <3>1. LineStop(t, p) = End(t)
      BY <1>7, <2>2
    <3>2. ~(End(t) + 2 <= End(t))
      BY <1>1
    <3>3. ~At(t, End(t), CRLF)
      BY <1>5, <3>2 DEF At
    <3> QED BY <1>6, <3>1, <3>3 DEF Unchunked
  <2>3. p + W <= End(t) \/ p + W > End(t)
    BY <1>1
  <2> QED BY <2>1, <2>2, <2>3
<1> QED BY <1>10, <1>11 DEF W, N, q

\* And of one that begins the last chunk.
LastChunk == <<Hex[1]>> \o CRLF \o CRLF

\* What is read where it begins is no data, and it is read when it is whole.
LEMMA LastRead ==
  ASSUME NEW X, NEW t \in Seq(X), NEW f, Decodes(f, t), NEW p \in 1..End(t),
         {CR, LF} \cup Digits16 \subseteq X,
         Leads(t, p, LastChunk)
  PROVE  /\ Len(LastChunk) = 5
         /\ f[p] \in {Chunks(<<>>), BadChunks(<<>>)}
         /\ End(t) - p = Len(LastChunk) => f[p] = Chunks(<<>>)
<1> DEFINE s == Written[0]  L == Len(t)  x == LastChunk
<1>1. L \in Nat /\ End(t) = L + 1 /\ p \in Nat /\ p >= 1 /\ p <= L + 1
  BY DEF End
<1>2. s = <<Hex[1]>> /\ Len(s) = 1 /\ s \in Seq(Digits16) /\ Value(s) = 0
  <2>1. s \in Seq(Digits16) /\ Value(s) = 0
    BY SizeReread
  <2>2. s = <<Hex[0 + 1]>>
    BY WrittenIs, DigitsWell
  <2> HIDE DEF s
  <2> QED BY <2>1, <2>2
<1> HIDE DEF s
<1>3. Len(x) = 5 /\ x[1] = s[1] /\ x[2] = CR /\ x[3] = LF
  <2>1. s \in Seq(X) /\ CRLF \in Seq(X) /\ CRLF[1] = CR /\ CRLF[2] = LF /\ Len(CRLF) = 2
    BY <1>2 DEF CRLF
  <2> DEFINE a == s \o CRLF
  <2>2. IsJoin(X, s, CRLF, a)
    BY <2>1, JoinedAt DEF Joined
  <2> HIDE DEF a
  <2>3. a \in Seq(X)
    BY <2>2 DEF IsJoin
  <2>4. IsJoin(X, a, CRLF, a \o CRLF)
    BY <2>1, <2>3, JoinedAt DEF Joined
  <2>5. x = a \o CRLF
    BY <1>2 DEF a, LastChunk
  <2>6. Len(a) = 3 /\ a[1] = s[1] /\ a[2] = CR /\ a[3] = LF
    <3>1. /\ Len(a) = 1 + 2
          /\ \A k \in 1..1 : a[k] = s[k]
          /\ \A k \in 1..2 : a[1 + k] = CRLF[k]
      BY <1>2, <2>1, <2>2 DEF IsJoin
    <3>2. a[1] = s[1] /\ a[1 + 1] = CRLF[1] /\ a[1 + 2] = CRLF[2] /\ Len(a) = 1 + 2
      BY <3>1
    <3> QED BY <2>1, <3>2
  <2>7. /\ Len(x) = 3 + 2 /\ \A k \in 1..3 : x[k] = a[k]
    BY <2>1, <2>4, <2>5, <2>6 DEF IsJoin
  <2>8. x[1] = a[1] /\ x[2] = a[2] /\ x[3] = a[3] /\ Len(x) = 5
    BY <2>7
  <2> QED BY <2>6, <2>8
<1>4. \A k \in 1..L + 1 - p : t[p - 1 + k] = x[k]
  BY <1>1 DEF Leads
<1>5. CASE p = End(t)
  BY <1>3, <1>5 DEF Decodes
<1>6. CASE p # End(t)
  <2>1. p \in 1..L /\ p + 1 <= End(t)
    BY <1>1, <1>6
  <2>2. t[p] = s[1] /\ (p + 1 <= L => t[p + 1] = CR) /\ (p + 2 <= L => t[p + 2] = LF)
    <3> HIDE DEF L
    <3>1. 1 \in 1..L + 1 - p /\ p - 1 + 1 = p /\ p - 1 + 2 = p + 1 /\ p - 1 + 3 = p + 2
      BY <1>1, <2>1
    <3>2. (p + 1 <= L => 2 \in 1..L + 1 - p) /\ (p + 2 <= L => 3 \in 1..L + 1 - p)
      BY <1>1, <2>1
    <3>3. /\ t[p - 1 + 1] = x[1]
          /\ p + 1 <= L => t[p - 1 + 2] = x[2]
          /\ p + 2 <= L => t[p - 1 + 3] = x[3]
      BY <1>4, <3>1, <3>2
    <3> QED BY <1>3, <3>1, <3>3
  <2>3. LineStop(t, p) = p + 1 /\ Size(t, p) = 0
    <3>1. \A k \in 1..Len(s) : p - 1 + k <= Len(t) => t[p - 1 + k] = s[k]
      <4>1. \A k \in 1..1 : k = 1 /\ p - 1 + k = p
        BY <1>1
      <4> QED BY <1>2, <2>2, <4>1
    <3>2. p + Len(s) <= Len(t) => t[p + Len(s)] = CR
      BY <1>2, <2>2
    <3>3. p + Len(s) <= End(t) => LineStop(t, p) = p + Len(s) /\ Size(t, p) = Value(s)
      BY <1>2, <2>1, <3>1, <3>2, SizeLine
    <3> QED BY <1>2, <2>1, <3>3
  <2>4. f[p] = Unchunked(f, t, p + 1, 0)
    <3>1. f[p] = Unchunked(f, t, LineStop(t, p), Size(t, p))
      BY <2>1 DEF Decodes
    <3> QED BY <2>3, <3>1
  <2>5. f[p] = IF At(t, p + 1, CRLF) THEN Chunks(<<>>) ELSE BadChunks(<<>>)
    BY <2>4 DEF Unchunked
  <2>6. ASSUME End(t) - p = Len(x) PROVE At(t, p + 1, CRLF)
    <3> HIDE DEF L
    <3>1. L + 1 - p = 5
      BY <1>1, <1>3, <2>6
    <3>2. p + 1 \in 1..End(t) /\ p + 1 + 2 <= End(t) /\ p + 1 <= L /\ p + 2 <= L /\ p + 1 + 1 = p + 2
      BY <1>1, <3>1
    <3> QED BY <2>2, <3>2, AtLineEnd
  <2> QED BY <1>3, <2>5, <2>6
<1> QED BY <1>5, <1>6

\* What is cut in two is what was there.
LEMMA CutJoined ==
  ASSUME NEW X, NEW b \in Seq(X), NEW i \in 1..End(b), NEW m \in i..End(b)
  PROVE  Cut(b, i, m) \o Cut(b, m, End(b)) = Cut(b, i, End(b))
<1> DEFINE p == Cut(b, i, m)  q == Cut(b, m, End(b))  r == Cut(b, i, End(b))  j == p \o q
<1>0. Len(b) \in Nat /\ End(b) = Len(b) + 1 /\ i \in Nat /\ i >= 1 /\ m \in Nat
      /\ m \in 1..End(b) /\ End(b) \in i..End(b) /\ End(b) \in m..End(b)
  BY DEF End
<1>1. p \in Seq(X) /\ Len(p) = m - i /\ \A k \in 1..m - i : p[k] = b[i - 1 + k]
  BY CutHas
<1>2. q \in Seq(X) /\ Len(q) = End(b) - m /\ \A k \in 1..End(b) - m : q[k] = b[m - 1 + k]
  BY <1>0, CutHas
<1>3. r \in Seq(X) /\ Len(r) = End(b) - i /\ \A k \in 1..End(b) - i : r[k] = b[i - 1 + k]
  BY <1>0, CutHas
<1> HIDE DEF p, q, r
<1>4. IsJoin(X, p, q, j)
  BY <1>1, <1>2, JoinedAt DEF Joined
<1> HIDE DEF j
<1>5. /\ j \in Seq(X) /\ Len(j) = (m - i) + (End(b) - m)
      /\ \A k \in 1..m - i : j[k] = p[k]
      /\ \A k \in 1..End(b) - m : j[(m - i) + k] = q[k]
  BY <1>1, <1>2, <1>4 DEF IsJoin
<1>6. Len(j) = Len(r)
  BY <1>0, <1>3, <1>5
<1>7. ASSUME NEW k \in 1..Len(r) PROVE j[k] = r[k]
  <2>1. k \in 1..End(b) - i
    BY <1>3
  <2>2. CASE k <= m - i
    <3>1. k \in 1..m - i
      BY <1>0, <2>1, <2>2
    <3> QED BY <1>1, <1>3, <1>5, <2>1, <3>1
  <2>3. CASE k > m - i
    <3> DEFINE n == k - (m - i)
    <3>1. n \in 1..End(b) - m /\ (m - i) + n = k /\ m - 1 + n = i - 1 + k
      BY <1>0, <2>1, <2>3
    <3> HIDE DEF n
    <3>2. j[k] = b[m - 1 + n]
      BY <1>2, <1>5, <3>1
    <3> QED BY <1>3, <2>1, <3>1, <3>2
  <2> QED BY <1>0, <2>1, <2>2, <2>3
<1>8. j = r
  BY <1>3, <1>5, <1>6, <1>7, SeqEqual
<1> QED BY <1>8 DEF j, p, q, r

\* A beginning stays one behind what both have in front.
LEMMA JoinedBegins ==
  ASSUME NEW X, NEW c \in Seq(X), NEW d \in Seq(X), NEW z \in Seq(X), Begins(d, z)
  PROVE  Begins(c \o d, c \o z)
<1> DEFINE p == c \o d  q == c \o z  N == Len(c)
<1>1. IsJoin(X, c, d, p) /\ IsJoin(X, c, z, q)
  BY JoinedAt DEF Joined
<1> HIDE DEF p, q
<1>2. /\ N \in Nat /\ Len(d) \in Nat /\ Len(z) \in Nat /\ Len(p) = N + Len(d) /\ Len(q) = N + Len(z)
      /\ \A k \in 1..N : p[k] = c[k] /\ q[k] = c[k]
      /\ \A k \in 1..Len(d) : p[N + k] = d[k]
      /\ \A k \in 1..Len(z) : q[N + k] = z[k]
  BY <1>1 DEF IsJoin
<1>3. Len(d) <= Len(z) /\ \A k \in 1..Len(d) : d[k] = z[k]
  BY DEF Begins
<1> HIDE DEF N
<1>4. ASSUME NEW k \in 1..Len(p) PROVE p[k] = q[k]
  <2>1. CASE k <= N
    <3>1. k \in 1..N
      BY <1>2, <2>1
    <3> QED BY <1>2, <3>1
  <2>2. CASE k > N
    <3>1. k - N \in 1..Len(d) /\ k - N \in 1..Len(z) /\ N + (k - N) = k
      BY <1>2, <1>3, <2>2
    <3>2. p[N + (k - N)] = d[k - N] /\ q[N + (k - N)] = z[k - N] /\ d[k - N] = z[k - N]
      BY <1>2, <1>3, <3>1
    <3> QED BY <3>1, <3>2
  <2> QED BY <1>2, <2>1, <2>2
<1>5. Begins(p, q)
  BY <1>2, <1>3, <1>4 DEF Begins
<1> QED BY <1>5 DEF p, q

\* What is decoded of the beginning of the chunks from i on.
Rereads(f, t, e, b, i) ==
  \A p \in 1..End(t) : Leads(t, p, e[i]) =>
    /\ Begins(f[p].data, Cut(b, i, End(b)))
    /\ End(t) - p = Len(e[i]) => f[p] = Chunks(Cut(b, i, End(b)))

\* It is so of a chunk when it is so of what stands behind it,
LEMMA ChunkReread ==
  ASSUME NEW X, {CR, LF} \cup Digits16 \subseteq X, NEW b \in Seq(X), NEW i \in 1..Len(b),
         NEW e \in [1..End(b) -> Seq(X)], Encodes(e, b),
         NEW t \in Seq(X), NEW f \in [1..End(t) -> Decodings(X)], Decodes(f, t),
         Rereads(f, t, e, b, i + Piece(b, i))
  PROVE  Rereads(f, t, e, b, i) /\ Len(e[i]) >= 4
<1> DEFINE n == Piece(b, i)  m == i + n  s == Written[n]  c == Cut(b, i, m)  y == e[m]  x == e[i]
           rest == Cut(b, m, End(b))  all == Cut(b, i, End(b))
<1>0. Len(b) \in Nat /\ End(b) = Len(b) + 1 /\ i \in Nat /\ i >= 1
      /\ Len(t) \in Nat /\ End(t) = Len(t) + 1
  BY DEF End
<1>1. n \in Nat /\ n >= 1 /\ m \in i + 1..End(b)
  BY PieceIs
<1>2. s \in Seq(Digits16) /\ Value(s) = n /\ s \in Seq(X)
  <2>1. s \in Seq(Digits16) /\ Value(s) = n
    BY <1>1, SizeReread
  <2> HIDE DEF s
  <2> QED BY <2>1
<1>3. x = s \o CRLF \o c \o CRLF \o y
  BY DEF Encodes
<1>4. y \in Seq(X)
  BY <1>0, <1>1
<1>5. c \o rest = all
  <2>1. i \in 1..End(b) /\ m \in i..End(b)
    BY <1>0, <1>1
  <2> HIDE DEF m
  <2> QED BY <2>1, CutJoined
<1>6. c \in Seq(X) /\ Len(c) = n /\ rest \in Seq(X)
  <2>1. i \in 1..End(b) /\ m \in i..End(b) /\ m \in 1..End(b) /\ End(b) \in m..End(b) /\ m - i = n
    BY <1>0, <1>1
  <2> HIDE DEF m
  <2> QED BY <2>1, CutHas
<1>7. Rereads(f, t, e, b, m)
  OBVIOUS
<1> HIDE DEF m, n, s, c, rest, all, y, x
<1>8. \A p \in 1..End(t) : Leads(t, p, y) =>
        /\ Begins(f[p].data, rest)
        /\ End(t) - p = Len(y) => f[p] = Chunks(rest)
  BY <1>7 DEF Rereads, y, rest
<1>9. c # <<>> /\ Len(s) \in Nat /\ Len(y) \in Nat
  BY <1>1, <1>2, <1>4, <1>6, EmptySeq
<1>10. IsChunk(x, s, c, y)
  BY <1>2, <1>3, <1>4, <1>6, ChunkParts
<1>11. Len(x) = Len(s) + n + 4 + Len(y)
  BY <1>6, <1>10 DEF IsChunk
<1>12. \A d : Chunks(d).ok = TRUE /\ Chunks(d).data = d
  BY DEF Chunks
<1>13. all \in Seq(X) /\ Begins(<<>>, all) /\ Begins(c, all)
  <2>1. all \in Seq(X)
    BY <1>5, <1>6, JoinLen
  <2>2. Begins(<<>>, all) /\ Begins(<<>>, rest) /\ <<>> \in Seq(X)
    BY <1>6, <2>1 DEF Begins
  <2>3. Begins(c \o <<>>, c \o rest)
    BY <1>6, <2>2, JoinedBegins
  <2>4. c \o <<>> = c
    BY <1>6, ConcatEmptySeq
  <2> QED BY <1>5, <2>1, <2>2, <2>3, <2>4
<1>14. ASSUME NEW p \in 1..End(t), Leads(t, p, x)
       PROVE  /\ Begins(f[p].data, all)
              /\ End(t) - p = Len(x) => f[p] = Chunks(all)
  <2> DEFINE q == p + Len(s) + n + 4
  <2>1. CASE p = End(t)
    <3>1. f[p] = Chunks(<<>>)
      BY <2>1 DEF Decodes
    <3>2. End(t) - p # Len(x)
      BY <1>0, <1>1, <1>9, <1>11, <2>1
    <3> QED BY <1>12, <1>13, <3>1, <3>2
  <2>2. CASE p # End(t)
    <3>1. p \in 1..Len(t)
      BY <1>0, <2>2
    <3>2. /\ q <= End(t) => /\ Leads(t, q, y)
                            /\ f[p] = [ok |-> f[q].ok, data |-> c \o f[q].data]
          /\ q > End(t) => f[p] \in {BadChunks(<<>>), BadChunks(c)}
      <4>1. Value(s) = Len(c) /\ Len(c) = n
        BY <1>2, <1>6
      <4>2. LET r == p + Len(s) + Len(c) + 4
            IN  /\ r <= End(t) => /\ Leads(t, r, y)
                                  /\ f[p] = [ok |-> f[r].ok, data |-> c \o f[r].data]
                /\ r > End(t) => f[p] \in {BadChunks(<<>>), BadChunks(c)}
        BY <1>2, <1>4, <1>6, <1>9, <1>10, <1>14, <3>1, <4>1, ChunkRead
      <4> QED BY <4>1, <4>2
    <3>3. q \in Nat /\ q >= 1 /\ (End(t) - p = Len(x) => q <= End(t) /\ End(t) - q = Len(y))
      BY <1>0, <1>1, <1>9, <1>11, <3>1
    <3> HIDE DEF q
    <3>4. CASE q > End(t)
      <4>1. f[p] \in {BadChunks(<<>>), BadChunks(c)}
        BY <3>2, <3>4
      <4>2. End(t) - p # Len(x)
        BY <1>0, <3>3, <3>4
      <4>3. BadChunks(<<>>).data = <<>> /\ BadChunks(c).data = c
        BY DEF BadChunks
      <4> QED BY <1>13, <4>1, <4>2, <4>3
    <3>5. CASE q <= End(t)
      <4>1. q \in 1..End(t)
        BY <1>0, <3>3, <3>5
      <4>2. /\ Begins(f[q].data, rest)
            /\ End(t) - q = Len(y) => f[q] = Chunks(rest)
        BY <1>8, <3>2, <3>5, <4>1
      <4>3. f[p] = [ok |-> f[q].ok, data |-> c \o f[q].data]
        BY <3>2, <3>5
      <4>4. Begins(c \o f[q].data, c \o rest)
        <5>1. f[q] \in Decodings(X)
          BY <4>1
        <5> DEFINE d == f[q].data
        <5>2. d \in Seq(X) /\ Begins(d, rest)
          BY <4>2, <5>1 DEF Decodings
        <5> HIDE DEF d
        <5>3. Begins(c \o d, c \o rest)
          BY <1>6, <5>2, JoinedBegins
        <5> QED BY <5>3 DEF d
      <4>5. Begins(f[p].data, all)
        <5>1. f[p].data = c \o f[q].data
          BY <4>3
        <5> QED BY <1>5, <4>4, <5>1
      <4>6. End(t) - p = Len(x) => f[p] = Chunks(all)
        <5> SUFFICES ASSUME End(t) - p = Len(x) PROVE f[p] = Chunks(all)
          OBVIOUS
        <5>1. f[q] = Chunks(rest)
          BY <3>3, <4>2
        <5>2. f[q].ok = TRUE /\ f[q].data = rest
          BY <1>12, <5>1
        <5> QED BY <1>5, <4>3, <5>2 DEF Chunks
      <4> QED BY <4>5, <4>6
    <3> QED BY <1>0, <3>3, <3>4, <3>5
  <2> QED BY <2>1, <2>2
<1>15. Rereads(f, t, e, b, i)
  BY <1>14 DEF Rereads, x, all
<1>16. Len(x) >= 4
  BY <1>1, <1>9, <1>11
<1> QED BY <1>15, <1>16 DEF x

\* and so of everything that is left of the body.
LEMMA AllReread ==
  ASSUME NEW X, {CR, LF} \cup Digits16 \subseteq X, NEW b \in Seq(X),
         NEW e \in [1..End(b) -> Seq(X)], Encodes(e, b),
         NEW t \in Seq(X), NEW f \in [1..End(t) -> Decodings(X)], Decodes(f, t)
  PROVE  \A i \in 1..End(b) : Rereads(f, t, e, b, i) /\ Len(e[i]) >= 4
<1> DEFINE G(i) == Rereads(f, t, e, b, i) /\ Len(e[i]) >= 4
           Q == {k \in Nat : \A i \in 1..End(b) : End(b) - i < k => G(i)}
<1>0. Len(b) \in Nat /\ End(b) = Len(b) + 1
  BY DEF End
<1>1. G(End(b))
  <2> DEFINE x == e[End(b)]
  <2>1. x = <<Hex[1]>> \o CRLF \o CRLF
    BY DEF Encodes
  <2>2. Cut(b, End(b), End(b)) = <<>>
    <3>1. End(b) \in 1..End(b) /\ End(b) \in End(b)..End(b) /\ End(b) - End(b) = 0
      BY <1>0
    <3>2. Cut(b, End(b), End(b)) \in Seq(X) /\ Len(Cut(b, End(b), End(b))) = 0
      BY <3>1, CutHas
    <3> QED BY <3>2, EmptySeq
  <2> HIDE DEF x
  <2>3. ASSUME NEW p \in 1..End(t), Leads(t, p, x)
        PROVE  /\ Begins(f[p].data, <<>>)
               /\ End(t) - p = Len(x) => f[p] = Chunks(<<>>)
    <3>1. /\ f[p].data = <<>>
          /\ End(t) - p = Len(x) => f[p] = Chunks(<<>>)
      <4>1. Leads(t, p, LastChunk)
        BY <2>1, <2>3 DEF LastChunk
      <4>2. /\ f[p] \in {Chunks(<<>>), BadChunks(<<>>)}
            /\ End(t) - p = Len(LastChunk) => f[p] = Chunks(<<>>)
        <5>1. t \in Seq(X) /\ {CR, LF} \cup Digits16 \subseteq X /\ Decodes(f, t) /\ p \in 1..End(t)
          OBVIOUS
        <5> QED BY ONLY <4>1, <5>1, LastRead, ZenonT(60)
      <4>3. Chunks(<<>>).data = <<>> /\ BadChunks(<<>>).data = <<>>
        BY DEF Chunks, BadChunks
      <4> QED BY <2>1, <4>2, <4>3 DEF LastChunk
    <3>2. Begins(<<>>, <<>>)
      BY DEF Begins
    <3> QED BY <3>1, <3>2
  <2>4. Rereads(f, t, e, b, End(b))
    BY <2>2, <2>3 DEF Rereads, x
  <2>5. Len(x) = 5
    <3>1. <<Hex[1]>> \in Seq(X) /\ CRLF \in Seq(X) /\ Len(<<Hex[1]>>) = 1 /\ Len(CRLF) = 2
      <4>1. Hex[1] \in X
        BY DigitsWell
      <4> QED BY <4>1 DEF CRLF
    <3>2. <<Hex[1]>> \o CRLF \in Seq(X) /\ Len(<<Hex[1]>> \o CRLF) = 1 + 2
      BY <3>1, JoinLen
    <3> DEFINE a == <<Hex[1]>> \o CRLF
    <3> HIDE DEF a
    <3>3. Len(a \o CRLF) = 1 + 2 + 2
      BY <3>1, <3>2, JoinLen DEF a
    <3> QED BY <2>1, <3>3 DEF a
  <2> QED BY <2>4, <2>5 DEF x
<1>2. ASSUME NEW i \in 1..Len(b), G(i + Piece(b, i)) PROVE G(i)
  <2>1. Rereads(f, t, e, b, i + Piece(b, i))
    BY <1>2
  <2> QED BY <2>1, ChunkReread
<1> HIDE DEF G
<1>3. 0 \in Q
  BY <1>0
<1>4. ASSUME NEW k \in Nat, k \in Q PROVE k + 1 \in Q
  <2> SUFFICES ASSUME NEW i \in 1..End(b), End(b) - i < k + 1 PROVE G(i)
    OBVIOUS
  <2>1. CASE i = End(b)
    BY <1>1, <2>1
  <2>2. CASE i # End(b)
    <3>1. i \in 1..Len(b)
      BY <1>0, <2>2
    <3>2. Piece(b, i) \in Nat /\ Piece(b, i) >= 1 /\ i + Piece(b, i) \in i + 1..End(b)
      BY <3>1, PieceIs
    <3>3. i + Piece(b, i) \in 1..End(b) /\ End(b) - (i + Piece(b, i)) < k
      BY <1>0, <3>1, <3>2
    <3> QED BY <1>2, <1>4, <3>1, <3>3
  <2> QED BY <2>1, <2>2
<1>5. \A k \in Nat : k \in Q
  <2> HIDE DEF Q
  <2> QED BY <1>3, <1>4, Induction
<1>6. ASSUME NEW i \in 1..End(b) PROVE G(i)
  <2>1. End(b) - i + 1 \in Nat /\ End(b) - i < End(b) - i + 1
    BY <1>0
  <2> QED BY <1>5, <2>1
<1> QED BY <1>6 DEF G

\* cwh_decode_chunked decodes what cwh_encode_chunked has written, and what it
\* has copied of its beginning, failing or not, is a beginning.
LEMMA ChunksTurned ==
  ASSUME NEW X, {CR, LF} \cup Digits16 \subseteq X, NEW b \in Seq(X)
  PROVE  LET w == cwh_encode_chunked(b)
         IN  /\ w \in Seq(X) /\ w # <<>> /\ cwh_decode_chunked(w) = Chunks(b)
             /\ \A t \in Seq(X) : Begins(t, w) =>
                  LET d == cwh_decode_chunked(t).data
                  IN  IsPrefix(d, b) /\ Len(d) \in Nat /\ Len(d) <= Len(b)
<1> DEFINE w == cwh_encode_chunked(b)
<1>0. Len(b) \in Nat /\ End(b) = Len(b) + 1 /\ 1 \in 1..End(b)
  BY DEF End
<1>1. PICK e \in [1..End(b) -> Seq(X)] : Encodes(e, b) /\ w = e[1]
  BY Encoded
<1> HIDE DEF w
<1>2. w \in Seq(X)
  BY <1>0, <1>1
<1>3. Cut(b, 1, End(b)) = b
  <2> DEFINE c == Cut(b, 1, End(b))
  <2>1. c \in Seq(X) /\ Len(c) = Len(b) /\ \A k \in 1..Len(b) : c[k] = b[k]
    <3>1. End(b) \in 1..End(b) /\ End(b) - 1 = Len(b) /\ \A k \in 1..Len(b) : 1 - 1 + k = k
      BY <1>0
    <3>2. c \in Seq(X) /\ Len(c) = End(b) - 1 /\ \A k \in 1..End(b) - 1 : c[k] = b[1 - 1 + k]
      <4>1. b \in Seq(X) /\ 1 \in 1..End(b) /\ End(b) \in 1..End(b)
        BY <1>0, <3>1
      <4> QED BY <4>1, CutHas
    <3>3. \A k \in 1..Len(b) : c[k] = b[1 - 1 + k]
      BY <3>1, <3>2
    <3> QED BY <3>1, <3>2, <3>3
  <2> HIDE DEF c
  <2>2. c = b
    BY <2>1, SeqEqual
  <2> QED BY <2>2 DEF c
<1>4. ASSUME NEW t \in Seq(X), Begins(t, w)
      PROVE  /\ Begins(cwh_decode_chunked(t).data, b)
             /\ cwh_decode_chunked(t).data \in Seq(X)
             /\ Len(t) = Len(w) => cwh_decode_chunked(t) = Chunks(b)
             /\ Len(w) >= 4
  <2>1. PICK f \in [1..End(t) -> Decodings(X)] : Decodes(f, t) /\ cwh_decode_chunked(t) = f[1]
    BY Decoded
  <2>2. Rereads(f, t, e, b, 1) /\ Len(e[1]) >= 4
    BY <1>0, <1>1, <2>1, AllReread
  <2>3. Len(t) \in Nat /\ End(t) - 1 = Len(t) /\ 1 \in 1..End(t) /\ \A k \in 1..Len(t) : 1 - 1 + k = k
    BY DEF End
  <2>4. Leads(t, 1, w)
    <3>1. Len(t) <= Len(w) /\ \A k \in 1..Len(t) : t[k] = w[k]
      BY <1>4 DEF Begins
    <3>2. \A k \in 1..Len(t) : t[1 - 1 + k] = w[k]
      BY <2>3, <3>1
    <3> QED BY <2>3, <3>1, <3>2 DEF Leads
  <2>5. /\ Begins(f[1].data, b)
        /\ End(t) - 1 = Len(w) => f[1] = Chunks(b)
    BY <1>1, <1>3, <2>2, <2>3, <2>4 DEF Rereads
  <2>6. f[1].data \in Seq(X)
    <3>1. f[1] \in Decodings(X)
      BY <2>1, <2>3
    <3> QED BY <3>1 DEF Decodings
  <2> QED BY <1>1, <2>1, <2>2, <2>3, <2>5, <2>6
<1>5. Begins(w, w)
  BY <1>2 DEF Begins
<1>6. cwh_decode_chunked(w) = Chunks(b) /\ w # <<>>
  <2>1. cwh_decode_chunked(w) = Chunks(b) /\ Len(w) >= 4
    BY <1>2, <1>4, <1>5
  <2> QED BY <2>1
<1>7. ASSUME NEW t \in Seq(X), Begins(t, w)
      PROVE  LET d == cwh_decode_chunked(t).data
             IN  IsPrefix(d, b) /\ Len(d) \in Nat /\ Len(d) <= Len(b)
  <2> DEFINE d == cwh_decode_chunked(t).data
  <2>1. d \in Seq(X) /\ Begins(d, b)
    BY <1>4, <1>7
  <2> HIDE DEF d
  <2>2. Len(d) <= Len(b) /\ \A k \in 1..Len(d) : d[k] = b[k]
    BY <2>1 DEF Begins
  <2>3. IsPrefix(d, b) /\ Len(d) \in Nat /\ Len(d) <= Len(b)
    BY <2>1, <2>2, PrefixIs
  <2> QED BY <2>3 DEF d
<1> QED BY <1>2, <1>6, <1>7 DEF w

-----------------------------------------------------------------------------
(***************************************************************************)
(* Responses                                                               *)
(***************************************************************************)

\* The head of a response stands at the beginning of t.
HeadEnd(r) == 8 + Len(Fields(r))
IsHead(X, t, r) ==
  /\ t \in Seq(X) /\ Len(t) >= 7
  /\ t[1] = Version /\ t[2] = SP /\ t[3] = r.status /\ t[4] = SP /\ t[5] = "OK"
  /\ t[6] = CR /\ t[7] = LF
  /\ Placed(t, 8, Fields(r)) /\ HeadEnd(r) \in 8..Len(t) + 1 /\ Fields(r) \in Seq(X)

\* What cwh_format_res writes is the response, if its head fits.
LEMMA ResponseWritten ==
  ASSUME NEW X, Marks \subseteq X, NEW H, \A h \in H : Over(X, h),
         NEW r, r.headers \in Seq(H), r.status \in X, HeadFits(ResponseHead(r))
  PROVE  cwh_format_res(r)
           = ((<<Version, SP, r.status, SP, "OK">> \o CRLF) \o Fields(r)) \o r.body
<1> DEFINE first == <<Version, SP, r.status, SP, "OK">> \o CRLF
           line == Put(<<>>, first)
<1>1. SP \in X /\ Version \in X /\ "OK" \in X /\ CRLF \in Seq(X)
  BY DEF Marks, CRLF
<1>2. first \in Seq(X)
  BY <1>1
<1>3. ResponseHead(r) = HeadEnded(line, r)
  BY DEF ResponseHead
<1> HIDE DEF first
<1>4. Writes(X, <<>>, <<>>)
  BY DEF Writes
<1>5. Writes(X, line, first)
  <2>1. Writes(X, line, <<>> \o first)
    BY <1>2, <1>4, PutWrites
  <2>2. <<>> \o first = first
    BY <1>2, ConcatEmptySeq
  <2> QED BY <2>1, <2>2
<1> HIDE DEF line
<1>6. Writes(X, HeadEnded(line, r), first \o HeaderLines(r.headers, r.body))
  BY <1>5, HeadEnds
<1>7. ResponseHead(r) = first \o Fields(r)
  <2>1. Len(ResponseHead(r)) < HeadRoom
    BY DEF HeadFits
  <2> QED BY <1>3, <1>6, <2>1 DEF Writes, Fields
<1> QED BY <1>7 DEF cwh_format_res, first

\* It puts the head there, and the body behind it.
LEMMA HeadPlaced ==
  ASSUME NEW X, Marks \subseteq X, NEW H, \A h \in H : Over(X, h),
         NEW r, r.headers \in Seq(H), r.status \in X, r.body \in Seq(X),
         HeadFits(ResponseHead(r))
  PROVE  LET w == cwh_format_res(r)
         IN  /\ IsHead(X, w, r) /\ Placed(w, HeadEnd(r), r.body)
             /\ Len(w) + 1 = HeadEnd(r) + Len(r.body)
<1> DEFINE a1 == <<Version, SP, r.status, SP, "OK">>
           a2 == a1 \o CRLF
           a3 == a2 \o Fields(r)
           w == a3 \o r.body
           L == Len(Fields(r))
<1>1. cwh_format_res(r) = w
  BY ResponseWritten
<1>2. Version \in X /\ SP \in X /\ "OK" \in X /\ CR \in X /\ LF \in X
  BY DEF Marks
<1>3. /\ a1 \in Seq(X) /\ Len(a1) = 5 /\ a1[1] = Version /\ a1[2] = SP /\ a1[3] = r.status
      /\ a1[4] = SP /\ a1[5] = "OK"
  BY <1>2
<1> HIDE DEF a1
<1>4. CRLF \in Seq(X) /\ Len(CRLF) = 2 /\ CRLF[1] = CR /\ CRLF[2] = LF
  BY <1>2 DEF CRLF
<1>5. Fields(r) \in Seq(X) /\ L \in Nat
  <2>1. /\ HeaderLines(r.headers, r.body) = Lines(Sending(r)) \o CRLF
        /\ Lines(Sending(r)) \in Seq(X)
    BY HeadersWritten
  <2>2. Fields(r) \in Seq(X)
    BY <1>4, <2>1 DEF Fields
  <2> QED BY <2>2
<1>6. IsJoin(X, a1, CRLF, a2)
  BY <1>3, <1>4, JoinedAt DEF Joined
<1> HIDE DEF a2
<1>7. /\ a2 \in Seq(X) /\ Len(a2) = 7 /\ \A k \in 1..5 : a2[k] = a1[k]
      /\ a2[6] = CR /\ a2[7] = LF
  <2>1. /\ a2 \in Seq(X) /\ Len(a2) = 5 + 2 /\ \A k \in 1..5 : a2[k] = a1[k]
        /\ \A k \in 1..2 : a2[5 + k] = CRLF[k]
    BY <1>3, <1>4, <1>6 DEF IsJoin
  <2>2. a2[5 + 1] = CRLF[1] /\ a2[5 + 2] = CRLF[2]
    BY <2>1
  <2>3. a2[6] = CR /\ a2[7] = LF /\ Len(a2) = 7
    BY <1>4, <2>1, <2>2
  <2> QED BY <2>1, <2>3
<1>8. IsJoin(X, a2, Fields(r), a3)
  BY <1>5, <1>7, JoinedAt DEF Joined
<1> HIDE DEF a3
<1>9. /\ a3 \in Seq(X) /\ Len(a3) = 7 + L /\ \A k \in 1..7 : a3[k] = a2[k]
      /\ \A k \in 1..L : a3[7 + k] = Fields(r)[k]
  BY <1>7, <1>8 DEF IsJoin
<1>10. IsJoin(X, a3, r.body, w)
  BY <1>9, JoinedAt DEF Joined
<1> HIDE DEF w
<1>11. /\ w \in Seq(X) /\ Len(w) = 7 + L + Len(r.body) /\ Len(r.body) \in Nat
       /\ \A k \in 1..7 + L : w[k] = a3[k]
       /\ \A k \in 1..Len(r.body) : w[7 + L + k] = r.body[k]
  BY <1>9, <1>10 DEF IsJoin
<1>12. HeadEnd(r) = 8 + L
  BY DEF HeadEnd
<1> DEFINE F == Fields(r)  b == r.body  B == Len(b)
<1>13. \A k \in 1..L : a3[7 + k] = F[k]
  BY <1>9
<1>14. B \in Nat /\ Len(w) = 7 + L + B /\ \A k \in 1..B : w[7 + L + k] = b[k]
  BY <1>11
<1>0. L \in Nat /\ B \in Nat /\ Len(w) = 7 + L + B
  BY <1>5, <1>14
<1> HIDE DEF L, F, B, b
<1>15. \A k \in 1..7 : w[k] = a2[k]
  <2> SUFFICES ASSUME NEW k \in 1..7 PROVE w[k] = a2[k]
    OBVIOUS
  <2>1. k \in 1..7 + L
    BY <1>0
  <2>2. w[k] = a3[k]
    BY <1>11, <2>1 DEF L
  <2>3. a3[k] = a2[k]
    BY <1>9
  <2> QED BY <2>2, <2>3
<1>16. /\ w[1] = Version /\ w[2] = SP /\ w[3] = r.status /\ w[4] = SP /\ w[5] = "OK"
       /\ w[6] = CR /\ w[7] = LF
  <2>1. /\ w[1] = a2[1] /\ w[2] = a2[2] /\ w[3] = a2[3] /\ w[4] = a2[4] /\ w[5] = a2[5]
        /\ w[6] = a2[6] /\ w[7] = a2[7]
    BY <1>15
  <2>2. /\ a2[1] = a1[1] /\ a2[2] = a1[2] /\ a2[3] = a1[3] /\ a2[4] = a1[4] /\ a2[5] = a1[5]
    BY <1>7
  <2> QED BY <1>3, <1>7, <2>1, <2>2
<1>17. Placed(w, 8, F)
  <2>1. ASSUME NEW k \in 1..L PROVE w[8 - 1 + k] = F[k]
    <3>1. 7 + k \in 1..7 + L /\ 8 - 1 + k = 7 + k
      BY <1>0
    <3> QED BY <1>11, <1>13, <3>1
  <2>2. 8 + L <= Len(w) + 1
    BY <1>0
  <2> QED BY <2>1, <2>2 DEF Placed, L, F
<1>18. Placed(w, HeadEnd(r), b)
  <2> DEFINE q == 8 + L
  <2>1. ASSUME NEW k \in 1..B PROVE w[q - 1 + k] = b[k]
    <3>1. q - 1 + k = 7 + L + k
      BY <1>0
    <3> QED BY <1>14, <3>1
  <2>2. q + B <= Len(w) + 1
    BY <1>0
  <2> HIDE DEF q
  <2>3. Placed(w, q, b)
    BY <2>1, <2>2 DEF Placed, B
  <2> QED BY <1>12, <2>3 DEF q
<1>19. Len(w) + 1 = HeadEnd(r) + B /\ Len(w) >= 7 /\ HeadEnd(r) \in 8..Len(w) + 1
  BY <1>0, <1>12
<1>20. IsHead(X, w, r)
  BY <1>5, <1>11, <1>16, <1>17, <1>19 DEF IsHead, F
<1> QED BY <1>1, <1>18, <1>19, <1>20 DEF b, B

\* The head stays in every beginning of the response that holds it.
LEMMA HeadStays ==
  ASSUME NEW X, NEW w, NEW r, IsHead(X, w, r), NEW n \in HeadEnd(r) - 1..Len(w)
  PROVE  LET t == SubSeq(w, 1, n)
         IN  IsHead(X, t, r) /\ Begins(t, w) /\ Len(t) = n
<1> DEFINE t == SubSeq(w, 1, n)  L == Len(Fields(r))
<1>1. /\ w \in Seq(X) /\ Placed(w, 8, Fields(r)) /\ HeadEnd(r) \in 8..Len(w) + 1
      /\ Fields(r) \in Seq(X) /\ Len(w) \in Nat /\ L \in Nat /\ HeadEnd(r) = 8 + L
  BY DEF IsHead, HeadEnd
<1>2. n \in Nat /\ n >= 7 + L /\ n <= Len(w) /\ n >= 7
  BY <1>1
<1>3. t \in Seq(X) /\ Len(t) = n /\ \A k \in 1..n : t[k] = w[k]
  <2>1. 1 \in 1..Len(w) + 1 /\ n \in 1 - 1..Len(w) /\ n - 1 + 1 = n /\ \A k \in 1..n : 1 - 1 + k = k
    BY <1>1, <1>2
  <2>2. t \in Seq(X) /\ Len(t) = n - 1 + 1 /\ \A k \in 1..n - 1 + 1 : t[k] = w[1 - 1 + k]
    BY <1>1, <2>1, CutAt
  <2> HIDE DEF t
  <2>3. \A k \in 1..n : t[k] = w[1 - 1 + k]
    BY <2>1, <2>2
  <2> QED BY <2>1, <2>2, <2>3
<1> HIDE DEF t, L
<1>4. Begins(t, w)
  BY <1>2, <1>3 DEF Begins
<1>5. \A k \in 1..7 : t[k] = w[k]
  BY <1>2, <1>3
<1>6. Placed(t, 8, Fields(r))
  <2>1. \A k \in 1..L : w[8 - 1 + k] = Fields(r)[k]
    BY <1>1 DEF Placed, L
  <2>2. ASSUME NEW k \in 1..L PROVE t[8 - 1 + k] = Fields(r)[k]
    <3>1. 8 - 1 + k \in 1..n
      BY <1>1, <1>2
    <3> QED BY <1>3, <2>1, <3>1
  <2>3. 8 + L <= Len(t) + 1
    BY <1>1, <1>2, <1>3
  <2> QED BY <2>2, <2>3 DEF Placed, L
<1>7. IsHead(X, t, r)
  <2>1. /\ t[1] = w[1] /\ t[2] = w[2] /\ t[3] = w[3] /\ t[4] = w[4] /\ t[5] = w[5]
        /\ t[6] = w[6] /\ t[7] = w[7]
    BY <1>5
  <2>2. HeadEnd(r) \in 8..Len(t) + 1 /\ Len(t) >= 7
    BY <1>1, <1>2, <1>3
  <2> QED BY <1>1, <1>3, <1>6, <2>1, <2>2 DEF IsHead
<1> QED BY <1>3, <1>4, <1>7 DEF t

\* The status line is read, and the headers begin behind it.
LEMMA StatusRead ==
  ASSUME NEW X, NEW t, NEW r, IsHead(X, t, r), r.status \in Statuses
  PROVE  parse_status_line(t) = 8 /\ skip_ws(t, 2, End(t)) = 3 /\ t[3] = r.status
<1>1. /\ t \in Seq(X) /\ Len(t) >= 7 /\ t[1] = Version /\ t[2] = SP /\ t[3] = r.status
      /\ t[4] = SP /\ t[5] = "OK" /\ t[6] = CR /\ t[7] = LF
  BY DEF IsHead
<1>2. /\ Len(t) \in Nat /\ End(t) = Len(t) + 1 /\ End(t) >= 8 /\ DOMAIN t = 1..Len(t)
      /\ 1 \in 1..End(t) /\ 2 \in 1..End(t) /\ 4 \in 1..End(t) /\ 5 \in 1..End(t) /\ 6 \in 1..End(t)
  BY <1>1 DEF End
<1>3. r.status # SP /\ SP # CR /\ "OK" # CR
  BY DEF Statuses, SP, CR
<1>4. skip_ws(t, 2, End(t)) = 3
  <2>1. 3 \in NotSpaces(t) /\ 2 \notin NotSpaces(t)
    BY <1>1, <1>2, <1>3 DEF NotSpaces
  <2>2. IsFirst(3, 2, End(t), NotSpaces(t))
    <3>1. 3 \in 2..End(t) /\ \A k \in 2..3 - 1 : k = 2
      BY <1>2
    <3> QED BY <2>1, <3>1 DEF IsFirst
  <2>3. IsFirst(skip_ws(t, 2, End(t)), 2, End(t), NotSpaces(t))
    BY <1>1, <1>2, SkipsSpaces
  <2> QED BY <1>2, <2>2, <2>3, OneFirst
<1>5. skip_to_crlf(t, 4) = 6
  <2>1. \A i \in 1..End(t) : At(t, i, CRLF) <=> i + 2 <= End(t) /\ t[i] = CR /\ t[i + 1] = LF
    BY <1>1, AtLineEnd
  <2>2. 6 \in Breaks(t) /\ 4 \notin Breaks(t) /\ 5 \notin Breaks(t)
    <3>1. 6 + 2 <= End(t) /\ 6 + 1 = 7 /\ 6 \in DOMAIN t
      BY <1>1, <1>2
    <3>2. At(t, 6, CRLF)
      BY <1>1, <1>2, <2>1, <3>1
    <3>3. ~At(t, 4, CRLF) /\ ~At(t, 5, CRLF)
      BY <1>1, <1>2, <1>3, <2>1
    <3> QED BY <3>1, <3>2, <3>3 DEF Breaks
  <2>3. IsFirst(6, 4, End(t), Breaks(t))
    <3>1. 6 \in 4..End(t) /\ \A k \in 4..6 - 1 : k = 4 \/ k = 5
      BY <1>2
    <3> QED BY <2>2, <3>1 DEF IsFirst
  <2>4. IsFirst(skip_to_crlf(t, 4), 4, End(t), Breaks(t))
    BY <1>1, <1>2, SkipsToBreak
  <2> QED BY <1>2, <2>3, <2>4, OneFirst
<1>6. At(t, 1, <<Version>>)
  BY <1>1, <1>2, AtOne
<1>7. parse_status_line(t) = IF /\ At(t, 1, <<Version>>)
                                /\ 3 < End(t) /\ t[3] \in Statuses
                                /\ skip_to_crlf(t, 3 + 1) < End(t)
                             THEN skip_to_crlf(t, 3 + 1) + 2 ELSE 0
  BY <1>4 DEF parse_status_line
<1>8. parse_status_line(t) = 8
  <2>1. 3 + 1 = 4 /\ 3 < End(t) /\ 6 < End(t) /\ 6 + 2 = 8
    BY <1>2
  <2> QED BY <1>1, <1>5, <1>6, <1>7, <2>1
<1> QED BY <1>1, <1>4, <1>8

\* What a header is found by.
Named(t, hd, key) == {i \in 1..Len(hd) : At(t, hd[i].key, key)}

\* cwh_get_header returns the value of one of them.
LEMMA GetIs ==
  ASSUME NEW R, NEW hd \in Seq(R), NEW t, NEW key
  PROVE  /\ Named(t, hd, key) = {} => cwh_get_header(t, hd, key) = 0
         /\ Named(t, hd, key) # {} =>
              \E j \in Named(t, hd, key) : cwh_get_header(t, hd, key) = hd[j].val
<1> DEFINE I == Named(t, hd, key)
           hit == SelectInSeq(hd, LAMBDA h : At(t, h.key, key))
<1>0. Len(hd) \in Nat
  OBVIOUS
<1>1. hit = IF I # {} THEN Min(I) ELSE 0
  BY DEF SelectInSeq, Named
<1>2. cwh_get_header(t, hd, key) = IF hit = 0 THEN 0 ELSE hd[hit].val
  BY DEF cwh_get_header
<1>3. \A k \in I : k \in 1..Len(hd)
  BY DEF Named
<1> HIDE DEF I, hit
<1>4. I # {} => hit \in I
  <2>1. PICK j \in 1..Len(hd) + 1 : (j = Len(hd) + 1 \/ j \in I) /\ \A k \in 1..j - 1 : k \notin I
    <3>1. 1 \in Nat /\ Len(hd) + 1 \in Nat /\ 1 <= Len(hd) + 1
      BY <1>0
    <3> QED BY <3>1, FirstExists
  <2>2. I # {} => j \in I /\ \A k \in I : j <= k
    BY <1>0, <1>3, <2>1
  <2>3. I # {} => Min(I) \in I
    BY <2>2 DEF Min
  <2> QED BY <1>1, <2>3
<1>5. I = {} => cwh_get_header(t, hd, key) = 0
  BY <1>1, <1>2
<1>6. I # {} => cwh_get_header(t, hd, key) = hd[hit].val
  <2>1. hit \in I => hit # 0
    BY <1>0, <1>3
  <2> QED BY <1>2, <1>4, <2>1
<1> QED BY <1>4, <1>5, <1>6 DEF I

\* A header that is read is the one that was sent, to a reader of its first word.
LEMMA FirstWords ==
  ASSUME NEW X, Marks \subseteq X, NEW t \in Seq(X), NEW hs, NEW hd, IsRead(hd, t, hs),
         NEW j \in 1..Len(hs), Over(X, hs[j]), NEW c, c # ":"
  PROVE  /\ At(t, hd[j].key, <<c>>) <=> At(hs[j].key, 1, <<c>>)
         /\ At(hs[j].val, 1, <<c>>) => At(t, hd[j].val, <<c>>)
<1> DEFINE h == hs[j]  i == hd[j].key  v == hd[j].val  K == Len(h.key)  V == Len(h.val)
<1>1. i \in 1..End(t) /\ Placed(t, i, HeaderLine(h)) /\ v = i + K + 2
  BY DEF IsRead
<1>2. Over(X, h)
  OBVIOUS
<1> HIDE DEF h, i, v
<1>3. /\ h.key \in Seq(X) /\ h.val \in Seq(X) /\ K \in Nat /\ V \in Nat
      /\ End(h.key) = K + 1 /\ End(h.val) = V + 1 /\ 1 \in 1..End(h.key) /\ 1 \in 1..End(h.val)
  BY <1>2 DEF Over, End
<1>4. Len(t) \in Nat /\ End(t) = Len(t) + 1 /\ i \in Nat /\ i >= 1
  BY <1>1 DEF End
<1>5. /\ Placed(t, i, h.key) /\ t[i + K] = ":"
      /\ Placed(t, i + K + 2, h.val) /\ i + K + 2 + V + 2 <= Len(t) + 1
  BY <1>1, <1>2, <1>4, LinePlaced
<1> HIDE DEF K, V
<1>6. At(h.key, 1, <<c>>) <=> K >= 1 /\ h.key[1] = c
  <2>1. At(h.key, 1, <<c>>) <=> 1 < End(h.key) /\ h.key[1] = c
    BY <1>3, AtOne
  <2> QED BY <1>3, <2>1
<1>7. At(h.val, 1, <<c>>) <=> V >= 1 /\ h.val[1] = c
  <2>1. At(h.val, 1, <<c>>) <=> 1 < End(h.val) /\ h.val[1] = c
    BY <1>3, AtOne
  <2> QED BY <1>3, <2>1
<1>8. At(t, i, <<c>>) <=> i < End(t) /\ t[i] = c
  BY <1>1, AtOne
<1>9. i < End(t) /\ v \in 1..End(t) /\ (V >= 1 => v < End(t))
  BY <1>1, <1>3, <1>4, <1>5
<1>10. At(t, v, <<c>>) <=> v < End(t) /\ t[v] = c
  BY <1>9, AtOne
<1>11. K >= 1 => t[i] = h.key[1]
  <2> SUFFICES ASSUME K >= 1 PROVE t[i] = h.key[1]
    OBVIOUS
  <2>1. 1 \in 1..K /\ i - 1 + 1 = i
    BY <1>3, <1>4
  <2>2. \A k \in 1..K : t[i - 1 + k] = h.key[k]
    BY <1>5 DEF Placed, K
  <2>3. t[i - 1 + 1] = h.key[1]
    BY <2>1, <2>2
  <2> QED BY <2>1, <2>3
<1>12. V >= 1 => t[v] = h.val[1]
  <2> SUFFICES ASSUME V >= 1 PROVE t[v] = h.val[1]
    OBVIOUS
  <2>1. 1 \in 1..V /\ v - 1 + 1 = v
    BY <1>1, <1>3, <1>4
  <2>2. Placed(t, v, h.val)
    BY <1>1, <1>5
  <2>3. \A k \in 1..V : t[v - 1 + k] = h.val[k]
    BY <2>2 DEF Placed, V
  <2>4. t[v - 1 + 1] = h.val[1]
    BY <2>1, <2>3
  <2> QED BY <2>1, <2>4
<1>13. K = 0 => t[i] = ":"
  <2>1. K = 0 => i + K = i
    BY <1>4
  <2> QED BY <1>5, <2>1
<1>14. At(t, i, <<c>>) <=> At(h.key, 1, <<c>>)
  <2>1. K = 0 \/ K >= 1
    BY <1>3
  <2>2. ~(K = 0 /\ K >= 1)
    BY <1>3
  <2> QED BY <1>6, <1>8, <1>9, <1>11, <1>13, <2>1, <2>2
<1>15. At(h.val, 1, <<c>>) => At(t, v, <<c>>)
  BY <1>7, <1>9, <1>10, <1>12
<1> QED BY <1>14, <1>15 DEF h, i, v

\* What the body of a response is taken for.
Coded(r) == \E i \in DOMAIN r.headers : IsCoding(r.headers[i])
Body(r, raw) == IF raw # <<>> /\ Coded(r) /\ cwh_decode_chunked(raw).ok
                THEN cwh_decode_chunked(raw).data ELSE raw

\* A reader that has the head of a response has its status and takes what there
\* is of the body for what it is, if what is decoded fits.
LEMMA ResponseRead ==
  ASSUME NEW X, Marks \subseteq X, NEW H, \A h \in H : Over(X, h) /\ Writable(h),
         NEW r, r.headers \in Seq(H), Len(Sending(r)) < MaxHeaders, r.status \in Statuses,
         \A i \in DOMAIN r.headers : IsCoding(r.headers[i]) =>
           At(r.headers[i].val, 1, <<"chunked">>),
         NEW t, IsHead(X, t, r),
         Coded(r) => ~(Len(cwh_decode_chunked(Cut(t, HeadEnd(r), End(t))).data) > DecodedRoom)
  PROVE  LET p == cwh_parse_res(t)
         IN  p.ok /\ p.status = r.status /\ p.body = Body(r, Cut(t, HeadEnd(r), End(t)))
<1> DEFINE p == cwh_parse_res(t)  hs == Sending(r)  HL == H \cup {Length}
           rest == parse_headers(t, 8)  hd == rest.headers
           TE == "Transfer-Encoding"
           coding == cwh_get_header(t, hd, <<TE>>)
           raw == Cut(t, HeadEnd(r), End(t))
<1>1. /\ t \in Seq(X) /\ Placed(t, 8, Fields(r)) /\ HeadEnd(r) \in 8..Len(t) + 1
      /\ Len(t) \in Nat /\ Len(t) >= 7 /\ 8 \in 1..End(t) /\ End(t) = Len(t) + 1
  BY DEF IsHead, End
<1>2. /\ Fields(r) = Lines(hs) \o CRLF /\ hs \in Seq(HL)
      /\ r.body = <<>> => hs = r.headers
      /\ r.body # <<>> => hs = Append(r.headers, Length)
  <2>1. \A h \in H : Over(X, h)
    OBVIOUS
  <2> QED BY <2>1, HeadersWritten DEF Fields
<1>3. \A h \in HL : Over(X, h) /\ Writable(h)
  BY LengthWritable
<1>4. IsRead(hd, t, hs) /\ rest.body = HeadEnd(r)
  <2>1. Placed(t, 8, Lines(hs) \o CRLF) /\ HeadEnd(r) = 8 + Len(Lines(hs) \o CRLF)
    BY <1>1, <1>2 DEF HeadEnd
  <2>2. Len(hs) < MaxHeaders
    OBVIOUS
  <2>3. hs \in Seq(HL) /\ 8 \in 1..End(t) /\ t \in Seq(X)
    BY <1>1, <1>2
  <2> HIDE DEF hs, HL, rest
  <2>4. /\ IsRead(parse_headers(t, 8).headers, t, hs)
        /\ parse_headers(t, 8).body = 8 + Len(Lines(hs) \o CRLF)
    BY <1>3, <2>1, <2>2, <2>3, BlockRead
  <2> QED BY <2>1, <2>4 DEF rest
<1>5. parse_status_line(t) = 8 /\ skip_ws(t, 2, End(t)) = 3 /\ t[3] = r.status
  BY StatusRead
<1> DEFINE D == cwh_decode_chunked(raw)
           marked == coding # 0 /\ At(t, coding, <<"chunked">>)
<1>6. p = IF (raw # <<>> /\ marked) /\ Len(D.data) > DecodedRoom THEN Overrun
          ELSE [ok |-> TRUE, status |-> r.status, headers |-> hd,
                body |-> IF (raw # <<>> /\ marked) /\ D.ok THEN D.data ELSE raw]
  <2> DEFINE s == parse_status_line(t)
             q == skip_ws(t, 2, End(t))
             R == parse_headers(t, s)
             C == Cut(t, R.body, End(t))
             G == cwh_get_header(t, R.headers, <<TE>>)
             E == cwh_decode_chunked(C)
             M == C # <<>> /\ G # 0 /\ At(t, G, <<"chunked">>)
  <2>1. p = IF s = 0 THEN ParseError
            ELSE IF M /\ Len(E.data) > DecodedRoom THEN Overrun
            ELSE [ok |-> TRUE, status |-> t[q], headers |-> R.headers,
                  body |-> IF M /\ E.ok THEN E.data ELSE C]
    BY DEF cwh_parse_res
  <2>2. s = 8 /\ s # 0 /\ t[q] = r.status
    BY <1>5
  <2> HIDE DEF p, s, q, TE
  <2>3. R = rest
    BY <2>2
  <2>4. R.headers = hd /\ C = raw /\ G = coding
    BY <1>4, <2>3
  <2> HIDE DEF C, G, R, raw, coding, rest, hd
  <2>5. E = D /\ (M <=> raw # <<>> /\ marked)
    BY <2>4
  <2> HIDE DEF E, D, M, marked
  <2> QED BY <2>1, <2>2, <2>4, <2>5
<1> HIDE DEF p, raw, coding, hd, rest, hs, HL, TE, D, marked
<1>8. /\ hd \in Seq(Rows(t)) /\ Len(hd) = Len(hs)
      /\ \A j \in 1..Len(hs) : /\ hd[j].key \in 1..End(t) /\ hd[j].val = hd[j].key + Len(hs[j].key) + 2
                               /\ hs[j] \in HL
  BY <1>2, <1>4 DEF IsRead
<1>9. /\ Len(r.headers) \in Nat /\ DOMAIN r.headers = 1..Len(r.headers)
      /\ \A j \in 1..Len(r.headers) : j \in 1..Len(hs) /\ hs[j] = r.headers[j]
      /\ \A j \in 1..Len(hs) : j \in 1..Len(r.headers) \/ hs[j] = Length
  <2> DEFINE g == r.headers
  <2>1. g \in Seq(H) /\ Len(g) \in Nat /\ DOMAIN g = 1..Len(g)
    OBVIOUS
  <2>2. hs = g \/ hs = Append(g, Length)
    BY <1>2
  <2> HIDE DEF g
  <2>3. CASE hs = g
    BY <2>1, <2>3 DEF g
  <2>4. CASE hs = Append(g, Length)
    <3>1. Len(hs) = Len(g) + 1 /\ (\A j \in 1..Len(g) : hs[j] = g[j]) /\ hs[Len(g) + 1] = Length
      BY <2>1, <2>4
    <3>2. \A j \in 1..Len(g) : j \in 1..Len(hs)
      BY <2>1, <3>1
    <3>3. \A j \in 1..Len(hs) : j \in 1..Len(g) \/ j = Len(g) + 1
      BY <2>1, <3>1
    <3> QED BY <2>1, <3>1, <3>2, <3>3 DEF g
  <2> QED BY <2>2, <2>3, <2>4
<1>10. ~IsCoding(Length)
  <2>1. Length.key = <<"Content-Length">> /\ <<"Content-Length">> \in Seq({"Content-Length"})
        /\ <<"Content-Length">>[1] = "Content-Length" /\ Len(<<"Content-Length">>) = 1
    BY DEF Length
  <2>2. 1 \in 1..End(<<"Content-Length">>)
    BY <2>1 DEF End
  <2>3. At(<<"Content-Length">>, 1, <<"Transfer-Encoding">>) => <<"Content-Length">>[1] = "Transfer-Encoding"
    BY <2>1, <2>2, AtOne
  <2> QED BY <2>1, <2>3 DEF IsCoding
<1>11. ASSUME NEW j \in 1..Len(hs)
       PROVE  /\ At(t, hd[j].key, <<TE>>) <=> IsCoding(hs[j])
              /\ At(hs[j].val, 1, <<"chunked">>) => At(t, hd[j].val, <<"chunked">>)
              /\ hd[j].val # 0
  <2>1. Over(X, hs[j])
    BY <1>3, <1>8
  <2>2. TE # ":" /\ "chunked" # ":"
    BY DEF TE
  <2>3. /\ At(t, hd[j].key, <<TE>>) <=> At(hs[j].key, 1, <<TE>>)
        /\ At(hs[j].val, 1, <<"chunked">>) => At(t, hd[j].val, <<"chunked">>)
    BY <1>1, <1>4, <2>1, <2>2, FirstWords
  <2>4. Len(hs[j].key) \in Nat
    BY <2>1 DEF Over
  <2>5. hd[j].val # 0
    <3>1. hd[j].key \in 1..End(t) /\ hd[j].val = hd[j].key + Len(hs[j].key) + 2
      BY <1>8
    <3> DEFINE k == hd[j].key  v == hd[j].val  K == Len(hs[j].key)
    <3>2. k \in 1..End(t) /\ v = k + K + 2 /\ K \in Nat
      BY <2>4, <3>1
    <3> HIDE DEF k, v, K
    <3>3. v # 0
      BY <1>1, <3>2
    <3> QED BY <3>3 DEF v
  <2> QED BY <2>3, <2>5 DEF IsCoding, TE
<1>12. marked <=> Coded(r)
  <2> DEFINE I == Named(t, hd, <<TE>>)
  <2>1. /\ I = {} => coding = 0
        /\ I # {} => \E j \in I : coding = hd[j].val
    BY <1>8, GetIs DEF coding
  <2>2. \A j : j \in I <=> j \in 1..Len(hs) /\ IsCoding(hs[j])
    BY <1>8, <1>11 DEF Named
  <2> HIDE DEF I
  <2>3. \A j \in I : /\ j \in DOMAIN r.headers /\ IsCoding(r.headers[j]) /\ hd[j].val # 0
                     /\ At(t, hd[j].val, <<"chunked">>)
    <3> SUFFICES ASSUME NEW j \in I
                 PROVE  /\ j \in DOMAIN r.headers /\ IsCoding(r.headers[j]) /\ hd[j].val # 0
                        /\ At(t, hd[j].val, <<"chunked">>)
      OBVIOUS
    <3>1. j \in 1..Len(hs) /\ IsCoding(hs[j])
      BY <2>2
    <3>2. j \in 1..Len(r.headers)
      BY <1>9, <1>10, <3>1
    <3>3. hs[j] = r.headers[j] /\ j \in DOMAIN r.headers
      BY <1>9, <3>2
    <3>4. At(hs[j].val, 1, <<"chunked">>)
      BY <3>1, <3>3
    <3> QED BY <1>11, <3>1, <3>3, <3>4
  <2>4. Coded(r) => I # {}
    <3> SUFFICES ASSUME NEW i \in DOMAIN r.headers, IsCoding(r.headers[i]) PROVE i \in I
      BY DEF Coded
    <3> QED BY <1>9, <2>2
  <2>5. I # {} => coding # 0 /\ At(t, coding, <<"chunked">>) /\ Coded(r)
    BY <2>1, <2>3 DEF Coded
  <2> QED BY <2>1, <2>4, <2>5 DEF marked
<1>13. marked => ~(Len(D.data) > DecodedRoom)
  BY <1>12 DEF D, raw
<1>14. p = [ok |-> TRUE, status |-> r.status, headers |-> hd,
            body |-> IF (raw # <<>> /\ marked) /\ D.ok THEN D.data ELSE raw]
  BY <1>6, <1>13
<1>15. p.ok /\ p.status = r.status
       /\ p.body = IF (raw # <<>> /\ marked) /\ D.ok THEN D.data ELSE raw
  BY <1>14
<1>16. p.body = Body(r, raw)
  BY <1>12, <1>15 DEF Body, D
<1> QED BY <1>15, <1>16 DEF p, raw

\* What the readers of a response rely on.
Answering(X, H, r) ==
  /\ Marks \subseteq X /\ {CR, LF} \cup Digits16 \subseteq X /\ \A h \in H : Over(X, h) /\ Writable(h)
  /\ r.headers \in Seq(H) /\ r.status \in Statuses \cap X /\ r.body \in Seq(X)
  /\ Len(Sending(r)) < MaxHeaders
  /\ \A i \in DOMAIN r.headers : IsCoding(r.headers[i]) => At(r.headers[i].val, 1, <<"chunked">>)

\* A response whose body is text is read back, from its head on.
LEMMA ResponseTurned ==
  ASSUME NEW X, NEW H, NEW r, Answering(X, H, r), NEW b \in Seq(X),
         r.body = IF Coded(r) THEN cwh_encode_chunked(b) ELSE b,
         HeadFits(ResponseHead(r)), Coded(r) => Len(b) <= DecodedRoom
  PROVE  LET w == cwh_format_res(r)
             whole == cwh_parse_res(w)
         IN  /\ whole.ok /\ whole.status = r.status /\ whole.body = b
             /\ \A n \in Len(w) - Len(r.body)..Len(w) :
                  LET cut == cwh_parse_res(SubSeq(w, 1, n))
                  IN  cut.ok /\ (IsPrefix(cut.body, b) \/ IsPrefix(cut.body, r.body))
<1> DEFINE w == cwh_format_res(r)  e == HeadEnd(r)  B == Len(r.body)  d == r.body
           Raw(t) == Cut(t, e, End(t))
<1>1. /\ Marks \subseteq X /\ {CR, LF} \cup Digits16 \subseteq X
      /\ \A h \in H : Over(X, h) /\ Writable(h)
      /\ r.headers \in Seq(H) /\ r.status \in Statuses /\ r.status \in X /\ r.body \in Seq(X)
      /\ Len(Sending(r)) < MaxHeaders
      /\ \A i \in DOMAIN r.headers : IsCoding(r.headers[i]) =>
           At(r.headers[i].val, 1, <<"chunked">>)
  BY DEF Answering
<1>2. IsHead(X, w, r) /\ Placed(w, e, r.body) /\ Len(w) + 1 = e + B
  <2>1. \A h \in H : Over(X, h)
    BY <1>1
  <2> QED BY <1>1, <2>1, HeadPlaced
<1> HIDE DEF w
<1>3. /\ w \in Seq(X) /\ Len(w) \in Nat /\ e \in Nat /\ e \in 8..Len(w) + 1 /\ B \in Nat
  <2>1. w \in Seq(X) /\ e \in 8..Len(w) + 1
    BY <1>2 DEF IsHead
  <2>2. B \in Nat
    BY <1>1
  <2> HIDE DEF e, B
  <2> QED BY <2>1, <2>2
<1> HIDE DEF e, B
<1>4. Len(w) - B = e - 1
  BY <1>2, <1>3
<1>5. ASSUME NEW t, IsHead(X, t, r),
             Coded(r) => ~(Len(cwh_decode_chunked(Raw(t)).data) > DecodedRoom)
      PROVE  LET p == cwh_parse_res(t)
             IN  p.ok /\ p.status = r.status /\ p.body = Body(r, Raw(t))
  BY <1>1, <1>5, ResponseRead DEF e
<1>6. Raw(w) = d
  <2>1. e \in 1..End(w) /\ Placed(w, e, d) /\ e + Len(d) = End(w) /\ d \in Seq(X)
    BY <1>1, <1>2, <1>3 DEF End, B
  <2> HIDE DEF d
  <2>2. Cut(w, e, e + Len(d)) = d
    BY <1>3, <2>1, PlacedCut
  <2> QED BY <2>1, <2>2
<1>7. ASSUME Coded(r)
      PROVE  /\ d # <<>> /\ cwh_decode_chunked(d) = [ok |-> TRUE, data |-> b]
             /\ \A t \in Seq(X) : Begins(t, d) =>
                  LET x == cwh_decode_chunked(t).data
                  IN  IsPrefix(x, b) /\ ~(Len(x) > DecodedRoom)
  <2>1. d = cwh_encode_chunked(b) /\ d \in Seq(X)
    BY <1>1, <1>7
  <2> HIDE DEF d
  <2>2. /\ d # <<>> /\ cwh_decode_chunked(d) = Chunks(b)
        /\ \A t \in Seq(X) : Begins(t, d) =>
             LET x == cwh_decode_chunked(t).data
             IN  IsPrefix(x, b) /\ Len(x) \in Nat /\ Len(x) <= Len(b)
    BY <1>1, <2>1, ChunksTurned
  <2>3. Len(b) <= DecodedRoom /\ Len(b) \in Nat /\ DecodedRoom \in Nat
    BY <1>7, HeadersAssumption
  <2>4. ASSUME NEW t \in Seq(X), Begins(t, d)
        PROVE  LET x == cwh_decode_chunked(t).data
               IN  IsPrefix(x, b) /\ ~(Len(x) > DecodedRoom)
    <3> DEFINE x == cwh_decode_chunked(t).data  n == Len(x)  m == Len(b)
    <3>1. IsPrefix(x, b) /\ n \in Nat /\ n <= m
      BY <2>2, <2>4
    <3>2. m <= DecodedRoom /\ m \in Nat /\ DecodedRoom \in Nat
      BY <2>3
    <3> HIDE DEF n, m
    <3>3. ~(n > DecodedRoom)
      BY <3>1, <3>2
    <3> QED BY <3>1, <3>3 DEF n
  <2> QED BY <2>2, <2>4 DEF Chunks
<1>8. ~Coded(r) => d = b
  OBVIOUS
<1>9. Body(r, d) = b
  <2>1. CASE Coded(r)
    <3>1. cwh_decode_chunked(d).ok /\ cwh_decode_chunked(d).data = b
      BY <1>7, <2>1
    <3> HIDE DEF d
    <3> QED BY <1>7, <2>1, <3>1 DEF Body
  <2>2. CASE ~Coded(r)
    BY <1>8, <2>2 DEF Body
  <2> QED BY <2>1, <2>2
<1> DEFINE whole == cwh_parse_res(w)
<1>10. whole.ok /\ whole.status = r.status /\ whole.body = b
  <2>1. whole.ok /\ whole.status = r.status /\ whole.body = Body(r, Raw(w))
    <3>1. Begins(d, d) /\ d \in Seq(X)
      BY <1>1 DEF Begins
    <3>2. Coded(r) => ~(Len(cwh_decode_chunked(Raw(w)).data) > DecodedRoom)
      BY <1>6, <1>7, <3>1
    <3> QED BY <1>2, <1>5, <3>2
  <2> HIDE DEF whole, Raw
  <2> QED BY <1>6, <1>9, <2>1
<1>11. ASSUME NEW n \in Len(w) - B..Len(w)
       PROVE  LET cut == cwh_parse_res(SubSeq(w, 1, n))
              IN  cut.ok /\ (IsPrefix(cut.body, b) \/ IsPrefix(cut.body, d))
  <2> DEFINE t == SubSeq(w, 1, n)  cut == cwh_parse_res(t)  raw == Raw(t)
  <2>1. n \in e - 1..Len(w)
    BY <1>4
  <2>2. IsHead(X, t, r) /\ Begins(t, w) /\ Len(t) = n
    BY <1>2, <2>1, HeadStays DEF e
  <2> HIDE DEF t
  <2>4. t \in Seq(X) /\ n \in Nat /\ End(t) = n + 1 /\ e \in 1..End(t) /\ End(t) \in e..End(t)
    BY <1>3, <2>1, <2>2 DEF IsHead, End
  <2>5. raw \in Seq(X) /\ Len(raw) = End(t) - e /\ \A k \in 1..End(t) - e : raw[k] = t[e - 1 + k]
    BY <2>4, CutHas
  <2> HIDE DEF raw, cut
  <2>6. Len(raw) = n + 1 - e /\ Len(raw) <= B /\ Len(raw) \in Nat
    BY <1>2, <1>3, <2>1, <2>4, <2>5
  <2>7. ASSUME NEW k \in 1..Len(raw) PROVE raw[k] = d[k]
    <3>1. k \in 1..End(t) - e /\ e - 1 + k \in 1..n /\ k \in 1..B
      BY <1>3, <2>1, <2>4, <2>6
    <3>2. raw[k] = t[e - 1 + k]
      BY <2>5, <3>1
    <3>3. t[e - 1 + k] = w[e - 1 + k]
      <4>1. \A i \in 1..n : t[i] = w[i]
        BY <2>2 DEF Begins
      <4> QED BY <3>1, <4>1
    <3>4. w[e - 1 + k] = d[k]
      <4>1. \A i \in 1..B : w[e - 1 + i] = r.body[i]
        BY <1>2 DEF Placed, B
      <4> QED BY <3>1, <4>1
    <3> QED BY <3>2, <3>3, <3>4
  <2>8. Begins(raw, d)
    BY <2>6, <2>7 DEF Begins, B
  <2>9. d \in Seq(X)
    BY <1>1
  <2>3. cut.ok /\ cut.body = Body(r, raw)
    <3>1. Coded(r) => ~(Len(cwh_decode_chunked(raw).data) > DecodedRoom)
      BY <1>7, <2>5, <2>8
    <3> QED BY <1>5, <2>2, <3>1 DEF raw, cut
  <2> HIDE DEF Raw
  <2>10. IsPrefix(raw, d)
    <3>1. Len(raw) <= Len(d) /\ \A k \in 1..Len(raw) : raw[k] = d[k]
      BY <2>8 DEF Begins
    <3> HIDE DEF d
    <3> QED BY <2>5, <2>9, <3>1, PrefixIs
  <2>11. CASE Coded(r) /\ cwh_decode_chunked(raw).ok /\ raw # <<>>
    <3>1. IsPrefix(cwh_decode_chunked(raw).data, b)
      BY <1>7, <2>5, <2>8, <2>11
    <3>2. cut.body = cwh_decode_chunked(raw).data
      BY <2>3, <2>11 DEF Body
    <3>3. IsPrefix(cut.body, b)
      BY <3>1, <3>2
    <3> QED BY <2>3, <3>3 DEF cut, t
  <2>12. CASE ~(Coded(r) /\ cwh_decode_chunked(raw).ok /\ raw # <<>>)
    <3>1. cut.body = raw
      BY <2>3, <2>12 DEF Body
    <3>2. IsPrefix(cut.body, d)
      BY <2>10, <3>1
    <3> QED BY <2>3, <3>2 DEF cut, t
  <2> QED BY <2>11, <2>12
<1> QED BY <1>10, <1>11 DEF w, B

\* The responses that are built are such responses.
LEMMA ResponseAnswers ==
  ASSUME TInv, Is("response")
  PROVE  \E X, H : /\ Answering(X, H, Response) /\ text \in Seq(X)
                   /\ Response.body = IF Coded(Response) THEN cwh_encode_chunked(text) ELSE text
                   /\ Coded(Response) <=> subject.chunked
<1> DEFINE m == subject.message
           H == Symbols(m.headers)
           Y == Marks \cup Statuses \cup Digits16 \cup Pieces["response"]
           X == Y \cup UNION {Symbols(h.key) \cup Symbols(h.val) : h \in H}
           r == Response
<1>1. subject \in Subjects /\ subject.kind = "response" /\ text \in Seq(Pieces["response"])
  BY DEF TInv, Is
<1>2. /\ DOMAIN m = {"status", "headers", "body"}
      /\ m.status \in Statuses
      /\ IsList(m.headers) /\ Len(m.headers) + 1 < MaxHeaders
      /\ \A i \in DOMAIN m.headers : Writable(m.headers[i])
      /\ subject.chunked <=> \E i \in DOMAIN m.headers : IsCoding(m.headers[i])
      /\ \A i \in DOMAIN m.headers : IsCoding(m.headers[i]) =>
           At(m.headers[i].val, 1, <<"chunked">>)
  BY <1>1, ResponseAssumption
<1>3. \A s : IsList(s) => s \in Seq(Symbols(s))
  BY DEF IsList, Symbols
<1>4. \A s, Z : IsList(s) /\ Symbols(s) \subseteq Z => s \in Seq(Z)
  <2> SUFFICES ASSUME NEW s, NEW Z, IsList(s), Symbols(s) \subseteq Z PROVE s \in Seq(Z)
    OBVIOUS
  <2>1. s \in Seq(Symbols(s))
    BY <1>3
  <2> HIDE DEF Symbols
  <2> QED BY <2>1
<1>5. \A h \in H : Over(X, h) /\ Writable(h)
  <2> SUFFICES ASSUME NEW h \in H PROVE Over(X, h) /\ Writable(h)
    OBVIOUS
  <2>1. Symbols(h.key) \subseteq X /\ Symbols(h.val) \subseteq X
    OBVIOUS
  <2>2. Writable(h)
    BY <1>2 DEF Symbols
  <2>3. IsList(h.key) /\ IsList(h.val)
    BY <2>2 DEF Writable
  <2> HIDE DEF X
  <2> QED BY <1>4, <2>1, <2>2, <2>3 DEF Over
<1>6. m.headers \in Seq(H)
  BY <1>2, <1>3
<1>7. /\ r.headers = m.headers /\ r.status = m.status
      /\ r.body = IF subject.chunked THEN cwh_encode_chunked(text) ELSE text
  BY <1>2 DEF Response
<1>8. Coded(r) <=> subject.chunked
  BY <1>2, <1>7 DEF Coded
<1>9. r.body = IF Coded(r) THEN cwh_encode_chunked(text) ELSE text
  BY <1>7, <1>8
<1>10. CR \in Marks /\ LF \in Marks
  BY DEF Marks
<1>11. Marks \subseteq X /\ {CR, LF} \cup Digits16 \subseteq X /\ Pieces["response"] \subseteq X
       /\ r.status \in Statuses \cap X
  BY <1>2, <1>7, <1>10
<1> HIDE DEF X, H, r, m
<1>12. text \in Seq(X)
  BY <1>1, <1>11
<1>13. r.body \in Seq(X)
  <2>1. cwh_encode_chunked(text) \in Seq(X)
    BY <1>11, <1>12, ChunksTurned
  <2> QED BY <1>9, <1>12, <2>1
<1>14. Len(Sending(r)) < MaxHeaders
  <2> DEFINE g == r.headers  N == Len(g)
  <2>1. \A h \in H : Over(X, h)
    BY <1>5
  <2>2. g \in Seq(H)
    BY <1>6, <1>7
  <2>3. Sending(r) = g \/ Sending(r) = Append(g, Length)
    BY <1>11, <2>1, <2>2, HeadersWritten
  <2> HIDE DEF g
  <2>4. N \in Nat /\ (Len(Sending(r)) = N \/ Len(Sending(r)) = N + 1)
    BY <2>2, <2>3
  <2>5. N + 1 < MaxHeaders /\ MaxHeaders \in Nat
    BY <1>2, <1>7, HeadersAssumption DEF g
  <2> HIDE DEF N
  <2> QED BY <2>4, <2>5
<1>15. Answering(X, H, r)
  BY <1>2, <1>5, <1>6, <1>7, <1>11, <1>13, <1>14 DEF Answering
<1> QED BY <1>8, <1>9, <1>12, <1>15 DEF r

\* A response whose head fits what cwh_format_res allows it is read back as it was
\* sent; a chunked one decoded, if its body fits decoded_buf; and from the
\* beginning of one the beginning of its body, decoded or as it was sent.
THEOREM ResponsesReread == Spec => []ResponseReread
<1> DEFINE InRoom == HeadFits(ResponseHead(Response)) /\ (subject.chunked => Len(text) <= DecodedRoom)
<1>1. ASSUME TInv, Is("response"), InRoom PROVE ResponseReread
  <2>1. PICK X, H : /\ Answering(X, H, Response) /\ text \in Seq(X)
                    /\ Response.body = IF Coded(Response) THEN cwh_encode_chunked(text) ELSE text
                    /\ Coded(Response) <=> subject.chunked
    BY <1>1, ResponseAnswers
  <2> DEFINE r == Response
  <2>2. /\ Answering(X, H, r) /\ r.body = IF Coded(r) THEN cwh_encode_chunked(text) ELSE text
        /\ HeadFits(ResponseHead(r)) /\ (Coded(r) => Len(text) <= DecodedRoom)
    BY <1>1, <2>1
  <2> HIDE DEF r
  <2>3. LET w == cwh_format_res(r)
            whole == cwh_parse_res(w)
        IN  /\ whole.ok /\ whole.status = r.status /\ whole.body = text
            /\ \A n \in Len(w) - Len(r.body)..Len(w) :
                 LET cut == cwh_parse_res(SubSeq(w, 1, n))
                 IN  cut.ok /\ (IsPrefix(cut.body, text) \/ IsPrefix(cut.body, r.body))
    BY <2>1, <2>2, ResponseTurned
  <2> QED BY <2>3 DEF ResponseReread, r
<1>2. TInv => ResponseReread
  BY <1>1 DEF ResponseReread
<1> QED BY <1>2, TInvariance, PTL

=============================================================================
