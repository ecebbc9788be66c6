------------------------ MODULE DnsCorrelatorProofs -------------------------
(***************************************************************************)
(* For every capacity, number of buckets and hash function, and for every  *)
(* stream of queries, responses and ticks: the linked structure of         *)
(* correlation.c stays sound, and each call on it is the call of           *)
(* PendingQueries, whose promises it therefore keeps.                      *)
(*                                                                         *)
(* The argument in one paragraph.  A list is a set of slots with a rank    *)
(* that falls along its links (Linked): the FIFO by context number, the    *)
(* chains and the free list by when a slot was put in front.  What each    *)
(* operation of correlation.c does to the links is one of three changes of *)
(* such a list (PutFirst, PutLast, TakeOut), so each keeps the table well  *)
(* formed on some set of slots (Well), and what it does to that set is     *)
(* what PendingQueries does to its pending queries.                        *)
(***************************************************************************)
EXTENDS DnsCorrelator, FiniteSetTheorems, WellFoundedInduction, TLAPS

\* A nonempty set of naturals has a least member.
LEMMA Least ==
    ASSUME NEW S \in SUBSET Nat, S # {}
    PROVE  \E x \in S : \A y \in S : x <= y
<1>1. PICK x \in S : \A y \in S : ~ (<<y, x>> \in OpToRel(<, Nat))
  BY NatLessThanWellFounded, WFMin
<1>2. ASSUME NEW y \in S PROVE x <= y
  <2>1. ~ (<<y, x>> \in OpToRel(<, Nat))
    BY <1>1
  <2>2. x \in Nat /\ y \in Nat
    OBVIOUS
  <2>3. ~ (y < x)
    BY <2>1, <2>2 DEF OpToRel
  <2> QED
    BY <2>2, <2>3
<1> QED
  BY <1>2

\* Induction up to N, with the set of the numbers that have the property.
LEMMA UpTo ==
    ASSUME NEW N \in Nat, NEW P, 0 \in P, \A n \in 1..N : n - 1 \in P => n \in P
    PROVE  0..N \subseteq P
<1> DEFINE Bad == (0..N) \ P
<1> SUFFICES ASSUME Bad # {} PROVE FALSE
  OBVIOUS
<1>1. PICK m \in Bad : \A y \in Bad : m <= y
  <2>1. Bad \in SUBSET Nat
    OBVIOUS
  <2> HIDE DEF Bad
  <2> QED
    BY <2>1, Least
<1>2. m \in 1..N /\ m \notin P /\ m - 1 \notin Bad
  BY <1>1
<1> QED
  BY <1>2

\* f[n] is the n-th iterate of G from a.
Iterate(f, a, G, N) == f[0] = a /\ \A n \in 1..N : f[n] = G[f[n - 1]]

\* Iterating a function from a value is well defined: a list walk, an eviction loop.
LEMMA Iterates ==
    ASSUME NEW D, NEW a \in D, NEW G \in [D -> D], NEW N \in Nat
    PROVE  \E f \in [0..N -> D] : Iterate(f, a, G, N)
<1> DEFINE Good(m) == \E f \in [0..m -> D] : f[0] = a /\ \A n \in 1..m : f[n] = G[f[n - 1]]
           P == {m \in 0..N : Good(m)}
<1>1. Good(0)
  <2> DEFINE g == [n \in 0..0 |-> a]
  <2>1. g \in [0..0 -> D] /\ g[0] = a /\ \A n \in 1..0 : g[n] = G[g[n - 1]]
    OBVIOUS
  <2> HIDE DEF g
  <2> QED
    BY <2>1
<1>2. ASSUME NEW m \in 1..N, m - 1 \in P PROVE Good(m)
  <2>1. PICK f \in [0..(m - 1) -> D] : f[0] = a /\ \A n \in 1..(m - 1) : f[n] = G[f[n - 1]]
    BY <1>2
  <2> DEFINE g == [n \in 0..m |-> IF n = m THEN G[f[m - 1]] ELSE f[n]]
  <2>2. g \in [0..m -> D] /\ g[0] = a /\ \A n \in 1..m : g[n] = G[g[n - 1]]
    BY <2>1
  <2> HIDE DEF g
  <2> QED
    BY <2>2
<1> HIDE DEF Good
<1>3. 0 \in P /\ \A n \in 1..N : n - 1 \in P => n \in P
  BY <1>1, <1>2
<1>4. 0..N \subseteq P
  <2> HIDE DEF P
  <2> QED
    BY <1>3, UpTo
<1>5. Good(N)
  BY <1>4
<1> QED
  BY <1>5 DEF Good, Iterate

\* w starts at first and follows next until NIL.
Follows(w, next, first) ==
    /\ w \in [0..Capacity -> Index]
    /\ w[0] = first
    /\ \A n \in 1..Capacity : w[n] = IF w[n - 1] = NIL THEN NIL ELSE next[w[n - 1]]

\* What a walk is: it starts at first and follows the links until NIL.
LEMMA WalkDef ==
    ASSUME NEW next \in [Slots -> Index], NEW first \in Index
    PROVE  Follows(Walk(next, first), next, first)
<1> DEFINE G == [x \in Index |-> IF x = NIL THEN NIL ELSE next[x]]
           W(f) == f = [n \in 0..Capacity |->
                          IF n = 0 THEN first ELSE IF f[n - 1] = NIL THEN NIL ELSE next[f[n - 1]]]
<1>1. G \in [Index -> Index] /\ Capacity \in Nat
  BY CapacityAssumption DEF Index, NIL, Slots
<1>2. PICK f \in [0..Capacity -> Index] : Iterate(f, first, G, Capacity)
  <2> HIDE DEF G
  <2> QED
    BY <1>1, Iterates
<1>3. W(f)
  <2>1. \A n \in 1..Capacity : n - 1 \in 0..Capacity /\ f[n - 1] \in Index
    BY <1>1, <1>2
  <2>2. \A n \in 1..Capacity : f[n] = IF f[n - 1] = NIL THEN NIL ELSE next[f[n - 1]]
    BY <1>2, <2>1 DEF Iterate
  <2> QED
    BY <1>1, <1>2, <2>2 DEF Iterate
<1>4. Walk(next, first) = CHOOSE g : W(g)
  BY DEF Walk
<1> DEFINE w == Walk(next, first)
<1>5. W(w)
  <2> HIDE DEF W, w
  <2>1. W(CHOOSE g : W(g))
    BY <1>3, Zenon
  <2>2. w = CHOOSE g : W(g)
    BY <1>4 DEF w
  <2> QED
    BY <2>1, <2>2
<1> HIDE DEF w
<1>6. w = [n \in 0..Capacity |-> IF n = 0 THEN first ELSE IF w[n - 1] = NIL THEN NIL ELSE next[w[n - 1]]]
  BY <1>5
<1>7. w[0] = first /\ \A n \in 1..Capacity : w[n] = IF w[n - 1] = NIL THEN NIL ELSE next[w[n - 1]]
  BY <1>6, <1>1
<1>8. \A n \in 0..Capacity : w[n] \in Index
  <2> DEFINE P == {n \in 0..Capacity : w[n] \in Index}
  <2>1. 0 \in P /\ \A n \in 1..Capacity : n - 1 \in P => n \in P
    BY <1>1, <1>7 DEF Index, NIL, Slots
  <2>2. 0..Capacity \subseteq P
    <3> HIDE DEF P
    <3> QED
      BY <1>1, <2>1, UpTo
  <2> QED
    BY <2>2
<1>9. w \in [0..Capacity -> Index]
  BY <1>6, <1>8
<1> QED
  BY <1>7, <1>9 DEF w, Follows

\* The slots B in the order of falling rank R, as a list: first is the highest,
\* and next of a slot is the highest below it.
Linked(next, first, R, B) ==
    /\ IF first = NIL THEN B = {} ELSE first \in B /\ \A u \in B : R[u] <= R[first]
    /\ \A s, u \in B : R[s] = R[u] => s = u
    /\ \A s \in B : IF next[s] = NIL THEN \A u \in B : R[s] <= R[u]
                    ELSE next[s] \in B /\ R[next[s]] < R[s] /\ \A u \in B : R[u] < R[s] => R[u] <= R[next[s]]

\* The pool is finite, and so is every part of it.
LEMMA PoolFinite ==
    ASSUME NEW B \in SUBSET Slots
    PROVE  IsFiniteSet(B) /\ Cardinality(B) \in 0..Capacity
<1>1. IsFiniteSet(Slots) /\ Cardinality(Slots) = Capacity
  BY CapacityAssumption, FS_Interval DEF Slots
<1>2. IsFiniteSet(B) /\ Cardinality(B) <= Cardinality(Slots) /\ Cardinality(B) \in Nat
  BY <1>1, FS_Subset, FS_CardinalityType
<1> QED
  BY <1>1, <1>2, CapacityAssumption

\* w is a walk through the entries B: it meets each of them and nothing else,
\* and is over after as many steps as there are entries.
Visits(w, B) ==
    /\ \A n \in 0..Capacity : w[n] # NIL => w[n] \in B
    /\ \A n \in Cardinality(B)..Capacity : w[n] = NIL
    /\ \A x \in B : \E n \in 0..Capacity : w[n] = x

\* A walk visits the entries of its list and no others, in falling rank, and is
\* over after as many steps as there are entries.
LEMMA WalkVisits ==
    ASSUME NEW next \in [Slots -> Index], NEW first \in Index, NEW R \in [Slots -> Int],
           NEW B \in SUBSET Slots, Linked(next, first, R, B)
    PROVE  Visits(Walk(next, first), B)
<1> DEFINE w == Walk(next, first)
           K == Cardinality(B)
<1>1. w \in [0..Capacity -> Index] /\ w[0] = first
      /\ \A n \in 1..Capacity : w[n] = IF w[n - 1] = NIL THEN NIL ELSE next[w[n - 1]]
  BY WalkDef DEF Follows
<1>0. IsFiniteSet(B) /\ K \in 0..Capacity /\ Capacity \in Nat
  BY PoolFinite, CapacityAssumption
<1> HIDE DEF w, K
<1>2. \A n \in 0..Capacity : w[n] # NIL => w[n] \in B
  <2> DEFINE P == {n \in 0..Capacity : w[n] # NIL => w[n] \in B}
  <2>1. 0 \in P
    BY <1>0, <1>1 DEF Linked
  <2>2. ASSUME NEW n \in 1..Capacity, n - 1 \in P PROVE n \in P
    BY <1>0, <1>1, <2>2 DEF Linked
  <2>3. 0..Capacity \subseteq P
    <3> HIDE DEF P
    <3> QED
      BY <1>0, <2>1, <2>2, UpTo
  <2> QED
    BY <2>3
<1>3. \A n \in 0..Capacity : w[n] # NIL => \A m \in 0..(n - 1) : w[m] # NIL /\ R[w[n]] < R[w[m]]
  <2> DEFINE P == {n \in 0..Capacity : w[n] # NIL => \A m \in 0..(n - 1) : w[m] # NIL /\ R[w[n]] < R[w[m]]}
  <2>1. 0 \in P
    BY <1>0
  <2>2. ASSUME NEW n \in 1..Capacity, n - 1 \in P PROVE n \in P
    <3> SUFFICES ASSUME w[n] # NIL PROVE \A m \in 0..(n - 1) : w[m] # NIL /\ R[w[n]] < R[w[m]]
      OBVIOUS
    <3>1. n - 1 \in 0..Capacity /\ n \in 0..Capacity
      BY <1>0
    <3>2. w[n - 1] # NIL /\ w[n] = next[w[n - 1]] /\ w[n - 1] \in B /\ w[n] \in B
      BY <1>1, <1>2, <3>1
    <3>3. R[w[n]] < R[w[n - 1]]
      BY <3>2 DEF Linked
    <3>4. \A m \in 0..(n - 2) : w[m] # NIL /\ R[w[n - 1]] < R[w[m]]
      BY <2>2, <3>2
    <3>5. ASSUME NEW m \in 0..(n - 1) PROVE w[m] # NIL /\ R[w[n]] < R[w[m]]
      <4>1. CASE m = n - 1
        BY <4>1, <3>2, <3>3
      <4>2. CASE m # n - 1
        <5>1. m \in 0..(n - 2) /\ m \in 0..Capacity
          BY <4>2, <1>0
        <5>2. w[m] # NIL /\ R[w[n - 1]] < R[w[m]] /\ w[m] \in B
          BY <5>1, <3>4, <1>2
        <5>3. R[w[m]] \in Int /\ R[w[n]] \in Int /\ R[w[n - 1]] \in Int
          BY <3>2, <5>2
        <5> QED
          BY <5>2, <5>3, <3>3
      <4> QED
        BY <4>1, <4>2
    <3> QED
      BY <3>5
  <2>3. 0..Capacity \subseteq P
    <3> HIDE DEF P
    <3> QED
      BY <1>0, <2>1, <2>2, UpTo
  <2> QED
    BY <2>3
<1>4. ASSUME NEW n \in K..Capacity PROVE w[n] = NIL
  <2> SUFFICES ASSUME w[n] # NIL PROVE FALSE
    OBVIOUS
  <2> DEFINE f == [m \in 0..n |-> w[m]]
  <2>1. n \in 0..Capacity /\ n \in Nat /\ n >= K /\ K \in Nat
    BY <1>0
  <2>2. \A m \in 0..n : w[m] # NIL /\ w[m] \in B
    <3>1. ASSUME NEW m \in 0..n PROVE w[m] # NIL
      <4>1. m = n \/ m \in 0..(n - 1)
        BY <2>1
      <4> QED
        BY <4>1, <1>3, <2>1
    <3>2. \A m \in 0..n : m \in 0..Capacity
      BY <1>0, <2>1
    <3> QED
      BY <3>1, <3>2, <1>2
  <2>3. f \in [0..n -> B]
    BY <2>2
  <2>4. IsFiniteSet(0..n) /\ Cardinality(0..n) = n + 1
    BY <2>1, FS_Interval
  <2>5. Cardinality(B) < Cardinality(0..n)
    BY <2>1, <2>4 DEF K
  <2>6. PICK x, y \in 0..n : x # y /\ f[x] = f[y]
    <3> HIDE DEF f
    <3> QED
      BY <2>3, <2>4, <2>5, <1>0, FS_PigeonHole
  <2>7. ASSUME NEW p \in 0..n, NEW q \in 0..n, p < q PROVE w[p] # w[q]
    <3>1. p \in 0..(q - 1) /\ q \in 0..Capacity
      BY <1>0, <2>1, <2>7
    <3>2. R[w[q]] < R[w[p]] /\ R[w[q]] \in Int
      BY <3>1, <1>3, <2>2
    <3> QED
      BY <3>2
  <2>8. x < y \/ y < x
    BY <2>6, <2>1
  <2> QED
    BY <2>6, <2>7, <2>8
<1>5. ASSUME NEW x \in B PROVE \E n \in 0..Capacity : w[n] = x
  <2> SUFFICES ASSUME \A n \in 0..Capacity : w[n] # x PROVE FALSE
    OBVIOUS
  <2> DEFINE P == {n \in 0..Capacity : w[n] # NIL /\ R[x] < R[w[n]]}
  <2>1. \A s \in B : R[s] \in Int
    OBVIOUS
  <2>2. 0 \in P
    <3>1. first # NIL /\ first \in B /\ R[x] <= R[first]
      BY DEF Linked
    <3>2. first # x /\ R[x] # R[first]
      <4>1. first # x
        BY <1>0, <1>1
      <4> QED
        BY <4>1, <3>1 DEF Linked
    <3> QED
      BY <1>0, <1>1, <2>1, <3>1, <3>2
  <2>3. ASSUME NEW n \in 1..Capacity, n - 1 \in P PROVE n \in P
    <3>1. n - 1 \in 0..Capacity /\ n \in 0..Capacity
      BY <1>0
    <3>2. w[n - 1] # NIL /\ w[n - 1] \in B /\ R[x] < R[w[n - 1]] /\ w[n] = next[w[n - 1]] /\ w[n] # x
      BY <3>1, <2>3, <1>1, <1>2
    <3>3. w[n] # NIL /\ w[n] \in B /\ R[x] <= R[w[n]]
      BY <3>2, <2>1 DEF Linked
    <3>4. R[x] # R[w[n]]
      BY <3>2, <3>3 DEF Linked
    <3> QED
      BY <3>1, <3>3, <3>4, <2>1
  <2>4. 0..Capacity \subseteq P
    <3> HIDE DEF P
    <3> QED
      BY <1>0, <2>2, <2>3, UpTo
  <2>5. w[Capacity] # NIL
    BY <1>0, <2>4
  <2> QED
    BY <2>5, <1>4, <1>0
<1> QED
  BY <1>2, <1>4, <1>5 DEF w, K, Visits

\* next2 and R2 are next and R on the slots B.
Same(next, R, next2, R2, B) == \A s \in B : next2[s] = next[s] /\ R2[s] = R[s]

\* x goes in front of the list, above every entry of B.
PutFirst(next, first, R, next2, R2, x, B) ==
    /\ Same(next, R, next2, R2, B)
    /\ next2[x] = first
    /\ \A s \in B : R[s] < R2[x]

\* x goes to the end of the list, below every entry of B.
PutLast(next, first, R, next2, first2, R2, x, B) ==
    /\ \A s \in B : next2[s] = (IF next[s] = NIL THEN x ELSE next[s]) /\ R2[s] = R[s]
    /\ first2 = IF first = NIL THEN x ELSE first
    /\ next2[x] = NIL
    /\ \A s \in B : R2[x] < R[s]

\* The entry before x, or the head, now points past x.
TakeOut(next, first, R, next2, first2, R2, x, B) ==
    /\ \A s \in B \ {x} : next2[s] = (IF next[s] = x THEN next[x] ELSE next[s]) /\ R2[s] = R[s]
    /\ first2 = IF first = x THEN next[x] ELSE first

\* A list depends only on the links and ranks of its own entries.
LEMMA SameLinked ==
    ASSUME NEW next, NEW first, NEW R, NEW next2, NEW R2, NEW B,
           Linked(next, first, R, B), Same(next, R, next2, R2, B)
    PROVE  Linked(next2, first, R2, B)
<1>1. \A s \in B : next[s] # NIL => next[s] \in B
  BY DEF Linked
<1> QED
  BY <1>1 DEF Linked, Same

\* Pushing a slot on a list gives a list: the free list, a hash chain.
LEMMA PutFirstLinked ==
    ASSUME NEW next, NEW first, NEW R \in [Slots -> Int], NEW next2, NEW R2 \in [Slots -> Int],
           NEW B \in SUBSET Slots, NEW x \in Slots \ B,
           Linked(next, first, R, B), PutFirst(next, first, R, next2, R2, x, B)
    PROVE  Linked(next2, x, R2, B \cup {x})
<1> DEFINE B2 == B \cup {x}
<1>0. x # NIL /\ \A s \in B : s # NIL
  BY DEF NIL, Slots
<1>1. \A s \in B : next2[s] = next[s] /\ R2[s] = R[s] /\ R[s] < R2[x] /\ R[s] \in Int /\ R2[x] \in Int
  BY DEF PutFirst, Same
<1>2. x \in B2 /\ \A u \in B2 : R2[u] <= R2[x]
  BY <1>1
<1>3. \A s, u \in B2 : R2[s] = R2[u] => s = u
  BY <1>1 DEF Linked
<1>4. ASSUME NEW s \in B2
      PROVE IF next2[s] = NIL THEN \A u \in B2 : R2[s] <= R2[u]
            ELSE /\ next2[s] \in B2 /\ R2[next2[s]] < R2[s]
                 /\ \A u \in B2 : R2[u] < R2[s] => R2[u] <= R2[next2[s]]
  <2>1. CASE s = x
    <3>1. next2[s] = first
      BY <2>1 DEF PutFirst
    <3>2. CASE first = NIL
      BY <2>1, <3>1, <3>2 DEF Linked
    <3>3. CASE first # NIL
      <4>1. first \in B /\ \A u \in B : R[u] <= R[first]
        BY <3>3 DEF Linked
      <4> QED
        BY <2>1, <3>1, <3>3, <4>1, <1>1
    <3> QED
      BY <3>2, <3>3
  <2>2. CASE s \in B
    <3>1. next2[s] = next[s]
      BY <1>1, <2>2
    <3>2. CASE next[s] = NIL
      <4>1. \A u \in B : R[s] <= R[u]
        BY <3>2, <2>2 DEF Linked
      <4> QED
        BY <2>2, <3>1, <3>2, <4>1, <1>1
    <3>3. CASE next[s] # NIL
      <4>1. next[s] \in B /\ R[next[s]] < R[s] /\ \A u \in B : R[u] < R[s] => R[u] <= R[next[s]]
        BY <3>3, <2>2 DEF Linked
      <4> QED
        BY <2>2, <3>1, <3>3, <4>1, <1>1
    <3> QED
      BY <3>2, <3>3
  <2> QED
    BY <2>1, <2>2
<1> QED
  BY <1>0, <1>2, <1>3, <1>4 DEF Linked

\* Appending a slot to a list gives a list: the FIFO.
LEMMA PutLastLinked ==
    ASSUME NEW next, NEW first, NEW R \in [Slots -> Int], NEW next2, NEW first2, NEW R2 \in [Slots -> Int],
           NEW B \in SUBSET Slots, NEW x \in Slots \ B,
           Linked(next, first, R, B), PutLast(next, first, R, next2, first2, R2, x, B)
    PROVE  Linked(next2, first2, R2, B \cup {x})
<1> DEFINE B2 == B \cup {x}
<1>0. x # NIL /\ \A s \in B : s # NIL
  BY DEF NIL, Slots
<1>1. \A s \in B : next2[s] = (IF next[s] = NIL THEN x ELSE next[s]) /\ R2[s] = R[s] /\ R2[x] < R[s]
                   /\ R[s] \in Int /\ R2[x] \in Int
  BY DEF PutLast
<1>2. first2 \in B2 /\ \A u \in B2 : R2[u] <= R2[first2]
  <2>1. CASE first = NIL
    BY <2>1 DEF PutLast, Linked
  <2>2. CASE first # NIL
    <3>1. first \in B /\ first2 = first /\ \A u \in B : R[u] <= R[first]
      BY <2>2 DEF Linked, PutLast
    <3> QED
      BY <3>1, <1>1
  <2> QED
    BY <2>1, <2>2
<1>3. \A s, u \in B2 : R2[s] = R2[u] => s = u
  BY <1>1 DEF Linked
<1>4. ASSUME NEW s \in B2
      PROVE IF next2[s] = NIL THEN \A u \in B2 : R2[s] <= R2[u]
            ELSE /\ next2[s] \in B2 /\ R2[next2[s]] < R2[s]
                 /\ \A u \in B2 : R2[u] < R2[s] => R2[u] <= R2[next2[s]]
  <2>1. CASE s = x
    <3>1. next2[s] = NIL
      BY <2>1 DEF PutLast
    <3> QED
      BY <2>1, <3>1, <1>1
  <2>2. CASE s \in B
    <3>2. CASE next[s] = NIL
      <4>1. next2[s] = x /\ \A u \in B : R[s] <= R[u]
        BY <1>1, <3>2, <2>2 DEF Linked
      <4>2. \A u \in B : ~(R2[u] < R2[s])
        BY <2>2, <1>1, <4>1
      <4> QED
        BY <2>2, <4>1, <4>2, <1>0, <1>1
    <3>3. CASE next[s] # NIL
      <4>1. next[s] \in B /\ R[next[s]] < R[s] /\ \A u \in B : R[u] < R[s] => R[u] <= R[next[s]]
        BY <3>3, <2>2 DEF Linked
      <4>2. next2[s] = next[s]
        BY <1>1, <2>2, <3>3
      <4> QED
        BY <2>2, <4>2, <3>3, <4>1, <1>1
    <3> QED
      BY <3>2, <3>3
  <2> QED
    BY <2>1, <2>2
<1> QED
  BY <1>0, <1>2, <1>3, <1>4 DEF Linked

\* Unlinking an entry leaves a list of the others.
LEMMA TakeOutLinked ==
    ASSUME NEW next, NEW first, NEW R \in [Slots -> Int], NEW next2, NEW first2, NEW R2 \in [Slots -> Int],
           NEW B \in SUBSET Slots, NEW x \in B,
           Linked(next, first, R, B), TakeOut(next, first, R, next2, first2, R2, x, B)
    PROVE  Linked(next2, first2, R2, B \ {x})
<1> DEFINE B2 == B \ {x}
<1>0. x # NIL /\ x \in B /\ \A s \in B : s # NIL /\ R[s] \in Int
  BY DEF NIL, Slots
<1>1. \A s \in B2 : next2[s] = (IF next[s] = x THEN next[x] ELSE next[s]) /\ R2[s] = R[s] /\ s \in B
  BY DEF TakeOut
<1>5. \A s, u \in B : R[s] = R[u] => s = u
  BY DEF Linked
<1>6. \A s \in B : IF next[s] = NIL THEN \A u \in B : R[s] <= R[u]
                    ELSE next[s] \in B /\ R[next[s]] < R[s] /\ \A u \in B : R[u] < R[s] => R[u] <= R[next[s]]
  BY DEF Linked
<1>2. IF first2 = NIL THEN B2 = {} ELSE first2 \in B2 /\ \A u \in B2 : R2[u] <= R2[first2]
  <2>0. first # NIL /\ first \in B /\ \A u \in B : R[u] <= R[first]
    BY DEF Linked
  <2>1. CASE first = x
    <3>1. first2 = next[x]
      BY <2>1 DEF TakeOut
    <3>2. \A u \in B2 : R[u] < R[x]
      BY <2>0, <2>1, <1>0, <1>1, <1>5
    <3>3. CASE next[x] = NIL
      <4>1. \A u \in B2 : FALSE
        BY <3>3, <3>2, <1>0, <1>1, <1>6
      <4> QED
        BY <3>1, <3>3, <4>1
    <3>4. CASE next[x] # NIL
      <4>1. next[x] \in B /\ R[next[x]] < R[x] /\ \A u \in B : R[u] < R[x] => R[u] <= R[next[x]]
        BY <3>4, <1>0, <1>6
      <4>2. next[x] \in B2
        BY <4>1, <1>0
      <4> QED
        BY <3>1, <3>2, <3>4, <4>1, <4>2, <1>1
    <3> QED
      BY <3>3, <3>4
  <2>2. CASE first # x
    BY <2>0, <2>2, <1>1 DEF TakeOut
  <2> QED
    BY <2>1, <2>2
<1>3. \A s, u \in B2 : R2[s] = R2[u] => s = u
  BY <1>1, <1>5
<1>4. ASSUME NEW s \in B2
      PROVE IF next2[s] = NIL THEN \A u \in B2 : R2[s] <= R2[u]
            ELSE /\ next2[s] \in B2 /\ R2[next2[s]] < R2[s]
                 /\ \A u \in B2 : R2[u] < R2[s] => R2[u] <= R2[next2[s]]
  <2>0. s \in B /\ s # x /\ R[s] # R[x]
    BY <1>0, <1>1, <1>5
  <2>1. CASE next[s] = x
    <3>1. next2[s] = next[x] /\ R[x] < R[s] /\ \A u \in B : R[u] < R[s] => R[u] <= R[x]
      BY <2>1, <1>0, <1>1, <1>6, <2>0
    <3>2. \A u \in B2 : R[u] < R[s] => R[u] < R[x]
      BY <3>1, <1>0, <1>1, <1>5
    <3>3. CASE next[x] = NIL
      <4>1. \A u \in B : R[x] <= R[u]
        BY <3>3, <1>0, <1>6
      <4>2. \A u \in B2 : ~(R[u] < R[s])
        BY <4>1, <3>2, <1>0, <1>1
      <4> QED
        BY <3>1, <3>3, <4>2, <2>0, <1>0, <1>1
    <3>4. CASE next[x] # NIL
      <4>1. next[x] \in B /\ R[next[x]] < R[x] /\ \A u \in B : R[u] < R[x] => R[u] <= R[next[x]]
        BY <3>4, <1>0, <1>6
      <4>2. next[x] \in B2
        BY <4>1, <1>0
      <4>3. R[next[x]] < R[s]
        BY <4>1, <3>1, <1>0, <2>0
      <4>4. \A u \in B2 : R[u] < R[s] => R[u] <= R[next[x]]
        BY <4>1, <3>2, <1>1
      <4> QED
        BY <3>1, <3>4, <4>2, <4>3, <4>4, <1>1
    <3> QED
      BY <3>3, <3>4
  <2>2. CASE next[s] # x
    <3>1. next2[s] = next[s]
      BY <1>1, <2>2
    <3>2. CASE next[s] = NIL
      <4>1. \A u \in B : R[s] <= R[u]
        BY <3>2, <2>0, <1>6
      <4> QED
        BY <3>1, <3>2, <4>1, <1>1
    <3>3. CASE next[s] # NIL
      <4>1. next[s] \in B /\ R[next[s]] < R[s] /\ \A u \in B : R[u] < R[s] => R[u] <= R[next[s]]
        BY <3>3, <2>0, <1>6
      <4> QED
        BY <3>1, <3>3, <4>1, <1>1, <2>2
    <3> QED
      BY <3>2, <3>3
  <2> QED
    BY <2>1, <2>2
<1> QED
  BY <1>2, <1>3, <1>4 DEF Linked

\* next and prev are each other's inverse on B, and the ends are the ends.
Mirrored(next, prev, head, tail, B) ==
    /\ \A s, u \in B : next[s] = u <=> prev[u] = s
    /\ \A s \in B : head = s <=> prev[s] = NIL
    /\ \A s \in B : tail = s <=> next[s] = NIL
    /\ head = NIL <=> tail = NIL

\* The rank of the FIFO read forwards: the oldest context first.
Neg(C) == [s \in Slots |-> -C[s]]

\* The FIFO read from both ends: next and prev are each other's inverse, the
\* head is the entry without a predecessor, the tail the one without a successor.
LEMMA Mirror ==
    ASSUME NEW next, NEW prev, NEW head, NEW tail, NEW R \in [Slots -> Int], NEW B \in SUBSET Slots,
           Linked(next, head, Neg(R), B), Linked(prev, tail, R, B)
    PROVE  Mirrored(next, prev, head, tail, B)
<1> DEFINE F == Neg(R)
<1>f. \A s \in B : F[s] = -R[s]
  BY DEF Neg
<1>l. Linked(next, head, F, B)
  OBVIOUS
<1> HIDE DEF F
<1>0. \A s \in B : s # NIL /\ R[s] \in Int /\ F[s] = -R[s]
  BY <1>f DEF NIL, Slots
<1>1. \A s, u \in B : R[s] = R[u] => s = u
  BY DEF Linked
<1>2. \A s \in B : IF next[s] = NIL THEN \A u \in B : R[u] <= R[s]
                   ELSE next[s] \in B /\ R[s] < R[next[s]] /\ \A u \in B : R[s] < R[u] => R[next[s]] <= R[u]
  <2>1. ASSUME NEW s \in B, next[s] = NIL PROVE \A u \in B : R[u] <= R[s]
    <3>1. \A u \in B : F[s] <= F[u]
      BY <2>1, <1>l DEF Linked
    <3> QED
      BY <3>1, <1>0
  <2>2. ASSUME NEW s \in B, next[s] # NIL
        PROVE next[s] \in B /\ R[s] < R[next[s]] /\ \A u \in B : R[s] < R[u] => R[next[s]] <= R[u]
    <3>1. next[s] \in B /\ F[next[s]] < F[s] /\ \A u \in B : F[u] < F[s] => F[u] <= F[next[s]]
      BY <2>2, <1>l DEF Linked
    <3> QED
      BY <3>1, <1>0
  <2> QED
    BY <2>1, <2>2
<1>3. \A s \in B : IF prev[s] = NIL THEN \A u \in B : R[s] <= R[u]
                   ELSE prev[s] \in B /\ R[prev[s]] < R[s] /\ \A u \in B : R[u] < R[s] => R[u] <= R[prev[s]]
  BY DEF Linked
<1>4. IF head = NIL THEN B = {} ELSE head \in B /\ \A u \in B : R[head] <= R[u]
  <2>1. CASE head = NIL
    BY <2>1, <1>l DEF Linked
  <2>2. CASE head # NIL
    <3>1. head \in B /\ \A u \in B : F[u] <= F[head]
      BY <2>2, <1>l DEF Linked
    <3> QED
      BY <2>2, <3>1, <1>0
  <2> QED
    BY <2>1, <2>2
<1>5. IF tail = NIL THEN B = {} ELSE tail \in B /\ \A u \in B : R[u] <= R[tail]
  BY DEF Linked
<1>6. ASSUME NEW s \in B, NEW u \in B PROVE next[s] = u => prev[u] = s
  BY <1>0, <1>1, <1>2, <1>3
<1>7. ASSUME NEW s \in B, NEW u \in B PROVE prev[u] = s => next[s] = u
  BY <1>0, <1>1, <1>2, <1>3
<1>8. ASSUME NEW s \in B PROVE head = s <=> prev[s] = NIL
  BY <1>0, <1>1, <1>3, <1>4
<1>9. ASSUME NEW s \in B PROVE tail = s <=> next[s] = NIL
  BY <1>0, <1>1, <1>2, <1>5
<1> QED
  BY <1>4, <1>5, <1>6, <1>7, <1>8, <1>9 DEF Mirrored

\* The values of an entry, of an emission, and the bucket numbers.
Entry == [key : Keys \cup {NoKey}, time : Int, ctx : Nat, hnext : Index, fifo_prev : Index, fifo_next : Index]
Emission == [outcome : {"UNANSWERED", "OBSERVED", "UNMATCHED"}, query : Nat, response : Nat, rtt_valid : BOOLEAN]
Buckets == 0..(NBuckets - 1)

\* What a table is made of.
Table == [entries : [Slots -> Entry], buckets : [Buckets -> Index], free_head : Index,
          fifo_head : Index, fifo_tail : Index, count : Int, stats : [Counters -> Nat],
          emitted : Seq(Emission)]

\* The other fields of the entries, each as a function of the slot.
FifoPrev(c) == [s \in Slots |-> c.entries[s].fifo_prev]
Ctx(c) == [s \in Slots |-> c.entries[s].ctx]
Key(c) == [s \in Slots |-> c.entries[s].key]
Time(c) == [s \in Slots |-> c.entries[s].time]

\* What a list operation leaves alone.
SameData(c, d) == Ctx(d) = Ctx(c) /\ Key(d) = Key(c) /\ Time(d) = Time(c)
SameChains(c, d) == Hnext(d) = Hnext(c) /\ d.buckets = c.buckets /\ d.free_head = c.free_head
SameFifo(c, d) == /\ FifoNext(d) = FifoNext(c) /\ FifoPrev(d) = FifoPrev(c)
                  /\ d.fifo_head = c.fifo_head /\ d.fifo_tail = c.fifo_tail
SameBooks(c, d) == d.stats = c.stats /\ d.emitted = c.emitted

\* The effect of fifo_append().
Appended(c, d, idx) ==
    /\ d \in Table /\ SameData(c, d) /\ SameChains(c, d) /\ SameBooks(c, d) /\ d.count = c.count
    /\ d.fifo_tail = idx
    /\ d.fifo_head = IF c.fifo_tail = NIL THEN idx ELSE c.fifo_head
    /\ \A s \in Slots : /\ FifoNext(d)[s] = IF s = idx THEN NIL
                                            ELSE IF s = c.fifo_tail THEN idx ELSE FifoNext(c)[s]
                        /\ FifoPrev(d)[s] = IF s = idx THEN c.fifo_tail ELSE FifoPrev(c)[s]

\* The types of the fields of a table.
LEMMA TableFields ==
    ASSUME NEW c \in Table
    PROVE /\ c.entries \in [Slots -> Entry] /\ c.buckets \in [Buckets -> Index]
          /\ c.free_head \in Index /\ c.fifo_head \in Index /\ c.fifo_tail \in Index
          /\ c.count \in Int /\ c.stats \in [Counters -> Nat] /\ c.emitted \in Seq(Emission)
          /\ \A s \in Slots : /\ c.entries[s].hnext \in Index /\ c.entries[s].fifo_prev \in Index
                              /\ c.entries[s].fifo_next \in Index /\ c.entries[s].ctx \in Nat
                              /\ c.entries[s].time \in Int /\ c.entries[s].key \in Keys \cup {NoKey}
  BY DEF Table, Entry

\* What [e EXCEPT ...] changes in an entry and what it keeps: the fifo_next field.
LEMMA EntryNext ==
    ASSUME NEW e \in Entry, NEW v \in Index
    PROVE  LET f == [e EXCEPT !.fifo_next = v]
           IN  /\ f \in Entry /\ f.key = e.key /\ f.time = e.time /\ f.ctx = e.ctx /\ f.hnext = e.hnext
               /\ f.fifo_prev = e.fifo_prev /\ f.fifo_next = v
  BY DEF Entry

\* The fifo_prev field.
LEMMA EntryPrev ==
    ASSUME NEW e \in Entry, NEW v \in Index
    PROVE  LET f == [e EXCEPT !.fifo_prev = v]
           IN  /\ f \in Entry /\ f.key = e.key /\ f.time = e.time /\ f.ctx = e.ctx /\ f.hnext = e.hnext
               /\ f.fifo_prev = v /\ f.fifo_next = e.fifo_next
  BY DEF Entry

\* The hnext field.
LEMMA EntryHnext ==
    ASSUME NEW e \in Entry, NEW v \in Index
    PROVE  LET f == [e EXCEPT !.hnext = v]
           IN  /\ f \in Entry /\ f.key = e.key /\ f.time = e.time /\ f.ctx = e.ctx /\ f.hnext = v
               /\ f.fifo_prev = e.fifo_prev /\ f.fifo_next = e.fifo_next
  BY DEF Entry

\* Key, time and context together.
LEMMA EntryData ==
    ASSUME NEW e \in Entry, NEW k \in Keys, NEW tm \in Int, NEW x \in Nat
    PROVE  LET f == [e EXCEPT !.key = k, !.time = tm, !.ctx = x]
           IN  /\ f \in Entry /\ f.key = k /\ f.time = tm /\ f.ctx = x /\ f.hnext = e.hnext
               /\ f.fifo_prev = e.fifo_prev /\ f.fifo_next = e.fifo_next
  BY DEF Entry

\* The single field updates the list operations are made of.
WithNext(c, i, v) == [c EXCEPT !.entries[i].fifo_next = v]
WithPrev(c, i, v) == [c EXCEPT !.entries[i].fifo_prev = v]
WithHnext(c, i, v) == [c EXCEPT !.entries[i].hnext = v]
WithData(c, i, k, tm, x) == [c EXCEPT !.entries[i].key = k, !.entries[i].time = tm, !.entries[i].ctx = x]
WithHead(c, v) == [c EXCEPT !.fifo_head = v]
WithTail(c, v) == [c EXCEPT !.fifo_tail = v]
WithFree(c, v) == [c EXCEPT !.free_head = v]
WithBucket(c, b, v) == [c EXCEPT !.buckets[b] = v]
WithCount(c, n) == [c EXCEPT !.count = n]

\* d differs from c at most in what its entries hold.
EntriesOnly(c, d) ==
    /\ d \in Table /\ SameBooks(c, d) /\ d.count = c.count
    /\ d.fifo_head = c.fifo_head /\ d.fifo_tail = c.fifo_tail
    /\ d.buckets = c.buckets /\ d.free_head = c.free_head

\* d differs from c at most in the list heads and the count.
HeadsOnly(c, d) == d \in Table /\ SameBooks(c, d) /\ d.entries = c.entries

\* New entries leave everything else of a table as it was.
LEMMA EntriesUpdate ==
    ASSUME NEW c \in Table, NEW es \in [Slots -> Entry]
    PROVE  LET d == [c EXCEPT !.entries = es] IN EntriesOnly(c, d) /\ d.entries = es
  BY DEF Table, EntriesOnly, SameBooks

\* Setting one fifo_next link.
LEMMA SetFifoNext ==
    ASSUME NEW c \in Table, NEW i \in Slots, NEW v \in Index
    PROVE  LET d == WithNext(c, i, v)
           IN  /\ EntriesOnly(c, d) /\ SameData(c, d) /\ Hnext(d) = Hnext(c) /\ FifoPrev(d) = FifoPrev(c)
               /\ FifoNext(d) = [FifoNext(c) EXCEPT ![i] = v]
<1> DEFINE es == [c.entries EXCEPT ![i] = [c.entries[i] EXCEPT !.fifo_next = v]]
           d == WithNext(c, i, v)
<1>1. es \in [Slots -> Entry] /\ c.entries[i] \in Entry
  <2>1. c.entries \in [Slots -> Entry] /\ c.entries[i] \in Entry
    BY TableFields
  <2> DEFINE e == [c.entries[i] EXCEPT !.fifo_next = v]
  <2>2. e \in Entry
    BY <2>1, EntryNext
  <2> HIDE DEF e
  <2>3. [c.entries EXCEPT ![i] = e] \in [Slots -> Entry]
    BY <2>1, <2>2
  <2> QED
    BY <2>1, <2>3 DEF e
<1>2. d = [c EXCEPT !.entries = es]
  BY DEF WithNext, Table
<1>3. EntriesOnly(c, d) /\ d.entries = es
  <2> HIDE DEF es
  <2> QED
    BY <1>1, <1>2, EntriesUpdate
<1>4. \A s \in Slots \ {i} : d.entries[s] = c.entries[s]
  BY <1>3, TableFields
<1>5. d.entries[i] = [c.entries[i] EXCEPT !.fifo_next = v]
  BY <1>3, TableFields
<1>6. /\ d.entries[i].key = c.entries[i].key /\ d.entries[i].time = c.entries[i].time
      /\ d.entries[i].ctx = c.entries[i].ctx /\ d.entries[i].hnext = c.entries[i].hnext
      /\ d.entries[i].fifo_prev = c.entries[i].fifo_prev /\ d.entries[i].fifo_next = v
  BY <1>1, <1>5, EntryNext
<1> HIDE DEF d
<1>7. SameData(c, d) /\ Hnext(d) = Hnext(c) /\ FifoPrev(d) = FifoPrev(c)
  BY <1>4, <1>6 DEF SameData, Key, Time, Ctx, Hnext, FifoPrev
<1>8. FifoNext(d) = [FifoNext(c) EXCEPT ![i] = v]
  BY <1>4, <1>6 DEF FifoNext
<1> QED
  BY <1>3, <1>7, <1>8 DEF d

\* Setting one fifo_prev link.
LEMMA SetFifoPrev ==
    ASSUME NEW c \in Table, NEW i \in Slots, NEW v \in Index
    PROVE  LET d == WithPrev(c, i, v)
           IN  /\ EntriesOnly(c, d) /\ SameData(c, d) /\ Hnext(d) = Hnext(c) /\ FifoNext(d) = FifoNext(c)
               /\ FifoPrev(d) = [FifoPrev(c) EXCEPT ![i] = v]
<1> DEFINE es == [c.entries EXCEPT ![i] = [c.entries[i] EXCEPT !.fifo_prev = v]]
           d == WithPrev(c, i, v)
<1>1. es \in [Slots -> Entry] /\ c.entries[i] \in Entry
  <2>1. c.entries \in [Slots -> Entry] /\ c.entries[i] \in Entry
    BY TableFields
  <2> DEFINE e == [c.entries[i] EXCEPT !.fifo_prev = v]
  <2>2. e \in Entry
    BY <2>1, EntryPrev
  <2> HIDE DEF e
  <2>3. [c.entries EXCEPT ![i] = e] \in [Slots -> Entry]
    BY <2>1, <2>2
  <2> QED
    BY <2>1, <2>3 DEF e
<1>2. d = [c EXCEPT !.entries = es]
  BY DEF WithPrev, Table
<1>3. EntriesOnly(c, d) /\ d.entries = es
  <2> HIDE DEF es
  <2> QED
    BY <1>1, <1>2, EntriesUpdate
<1>4. \A s \in Slots \ {i} : d.entries[s] = c.entries[s]
  BY <1>3, TableFields
<1>5. d.entries[i] = [c.entries[i] EXCEPT !.fifo_prev = v]
  BY <1>3, TableFields
<1>6. /\ d.entries[i].key = c.entries[i].key /\ d.entries[i].time = c.entries[i].time
      /\ d.entries[i].ctx = c.entries[i].ctx /\ d.entries[i].hnext = c.entries[i].hnext
      /\ d.entries[i].fifo_prev = v /\ d.entries[i].fifo_next = c.entries[i].fifo_next
  BY <1>1, <1>5, EntryPrev
<1> HIDE DEF d
<1>7. SameData(c, d) /\ Hnext(d) = Hnext(c) /\ FifoNext(d) = FifoNext(c)
  BY <1>4, <1>6 DEF SameData, Key, Time, Ctx, Hnext, FifoNext
<1>8. FifoPrev(d) = [FifoPrev(c) EXCEPT ![i] = v]
  BY <1>4, <1>6 DEF FifoPrev
<1> QED
  BY <1>3, <1>7, <1>8 DEF d

\* Setting one hnext link.
LEMMA SetHnext ==
    ASSUME NEW c \in Table, NEW i \in Slots, NEW v \in Index
    PROVE  LET d == WithHnext(c, i, v)
           IN  /\ EntriesOnly(c, d) /\ SameData(c, d) /\ FifoPrev(d) = FifoPrev(c) /\ FifoNext(d) = FifoNext(c)
               /\ Hnext(d) = [Hnext(c) EXCEPT ![i] = v]
<1> DEFINE es == [c.entries EXCEPT ![i] = [c.entries[i] EXCEPT !.hnext = v]]
           d == WithHnext(c, i, v)
<1>1. es \in [Slots -> Entry] /\ c.entries[i] \in Entry
  <2>1. c.entries \in [Slots -> Entry] /\ c.entries[i] \in Entry
    BY TableFields
  <2> DEFINE e == [c.entries[i] EXCEPT !.hnext = v]
  <2>2. e \in Entry
    BY <2>1, EntryHnext
  <2> HIDE DEF e
  <2>3. [c.entries EXCEPT ![i] = e] \in [Slots -> Entry]
    BY <2>1, <2>2
  <2> QED
    BY <2>1, <2>3 DEF e
<1>2. d = [c EXCEPT !.entries = es]
  BY DEF WithHnext, Table
<1>3. EntriesOnly(c, d) /\ d.entries = es
  <2> HIDE DEF es
  <2> QED
    BY <1>1, <1>2, EntriesUpdate
<1>4. \A s \in Slots \ {i} : d.entries[s] = c.entries[s]
  BY <1>3, TableFields
<1>5. d.entries[i] = [c.entries[i] EXCEPT !.hnext = v]
  BY <1>3, TableFields
<1>6. /\ d.entries[i].key = c.entries[i].key /\ d.entries[i].time = c.entries[i].time
      /\ d.entries[i].ctx = c.entries[i].ctx /\ d.entries[i].hnext = v
      /\ d.entries[i].fifo_prev = c.entries[i].fifo_prev /\ d.entries[i].fifo_next = c.entries[i].fifo_next
  BY <1>1, <1>5, EntryHnext
<1> HIDE DEF d
<1>7. SameData(c, d) /\ FifoPrev(d) = FifoPrev(c) /\ FifoNext(d) = FifoNext(c)
  BY <1>4, <1>6 DEF SameData, Key, Time, Ctx, FifoPrev, FifoNext
<1>8. Hnext(d) = [Hnext(c) EXCEPT ![i] = v]
  BY <1>4, <1>6 DEF Hnext
<1> QED
  BY <1>3, <1>7, <1>8 DEF d

\* Filling in the key, the time and the context of one entry.
LEMMA SetData ==
    ASSUME NEW c \in Table, NEW i \in Slots, NEW k \in Keys, NEW tm \in Int, NEW x \in Nat
    PROVE  LET d == WithData(c, i, k, tm, x)
           IN  /\ EntriesOnly(c, d) /\ FifoPrev(d) = FifoPrev(c) /\ FifoNext(d) = FifoNext(c)
               /\ Hnext(d) = Hnext(c) /\ Key(d) = [Key(c) EXCEPT ![i] = k]
               /\ Time(d) = [Time(c) EXCEPT ![i] = tm] /\ Ctx(d) = [Ctx(c) EXCEPT ![i] = x]
<1> DEFINE es == [c.entries EXCEPT ![i] = [c.entries[i] EXCEPT !.key = k, !.time = tm, !.ctx = x]]
           d == WithData(c, i, k, tm, x)
<1>1. es \in [Slots -> Entry] /\ c.entries[i] \in Entry
  <2>1. c.entries \in [Slots -> Entry] /\ c.entries[i] \in Entry
    BY TableFields
  <2> DEFINE e == [c.entries[i] EXCEPT !.key = k, !.time = tm, !.ctx = x]
  <2>2. e \in Entry
    BY <2>1, EntryData
  <2> HIDE DEF e
  <2>3. [c.entries EXCEPT ![i] = e] \in [Slots -> Entry]
    BY <2>1, <2>2
  <2> QED
    BY <2>1, <2>3 DEF e
<1>2. d = [c EXCEPT !.entries = es]
  BY DEF WithData, Table
<1>3. EntriesOnly(c, d) /\ d.entries = es
  <2> HIDE DEF es
  <2> QED
    BY <1>1, <1>2, EntriesUpdate
<1>4. \A s \in Slots \ {i} : d.entries[s] = c.entries[s]
  BY <1>3, TableFields
<1>5. d.entries[i] = [c.entries[i] EXCEPT !.key = k, !.time = tm, !.ctx = x]
  BY <1>3, TableFields
<1>6. /\ d.entries[i].key = k /\ d.entries[i].time = tm
      /\ d.entries[i].ctx = x /\ d.entries[i].hnext = c.entries[i].hnext
      /\ d.entries[i].fifo_prev = c.entries[i].fifo_prev /\ d.entries[i].fifo_next = c.entries[i].fifo_next
  <2> HIDE DEF d
  <2> QED
    BY <1>1, <1>5 DEF Entry
<1> HIDE DEF d
<1>7. Hnext(d) = Hnext(c) /\ FifoPrev(d) = FifoPrev(c) /\ FifoNext(d) = FifoNext(c)
  BY <1>4, <1>6 DEF Hnext, FifoPrev, FifoNext
<1>8. Key(d) = [Key(c) EXCEPT ![i] = k]
  BY <1>4, <1>6 DEF Key
<1>9. Time(d) = [Time(c) EXCEPT ![i] = tm]
  BY <1>4, <1>6 DEF Time
<1>10. Ctx(d) = [Ctx(c) EXCEPT ![i] = x]
  BY <1>4, <1>6 DEF Ctx
<1> QED
  BY <1>3, <1>7, <1>8, <1>9, <1>10 DEF d

\* The entries alone determine the links and the data.
LEMMA SameEntries ==
    ASSUME NEW c, NEW d, d.entries = c.entries
    PROVE  SameData(c, d) /\ Hnext(d) = Hnext(c) /\ FifoNext(d) = FifoNext(c) /\ FifoPrev(d) = FifoPrev(c)
  BY DEF SameData, Key, Time, Ctx, Hnext, FifoNext, FifoPrev

\* fifo_append() of a slot that is not the tail has the effect Appended.
LEMMA AppendEffect ==
    ASSUME NEW c \in Table, NEW idx \in Slots, c.fifo_tail # idx
    PROVE  Appended(c, fifo_append(c, idx), idx)
<1> DEFINE tail == c.fifo_tail
           c1 == WithNext(c, idx, NIL)
           c2 == WithPrev(c1, idx, tail)
           c3 == WithTail(c2, idx)
           c4 == WithNext(c3, tail, idx)
           c5 == WithHead(c3, idx)
<1>0. idx \in Index /\ NIL \in Index /\ NIL \notin Slots /\ idx # NIL /\ tail \in Index /\ tail # idx
      /\ (tail # NIL => tail \in Slots)
  BY TableFields DEF Index, NIL, Slots
<1>1. fifo_append(c, idx) = IF tail # NIL THEN c4 ELSE c5
  BY DEF fifo_append, WithNext, WithPrev, WithTail, WithHead
<1> HIDE DEF tail
<1>2. /\ EntriesOnly(c, c1) /\ SameData(c, c1) /\ Hnext(c1) = Hnext(c) /\ FifoPrev(c1) = FifoPrev(c)
      /\ FifoNext(c1) = [FifoNext(c) EXCEPT ![idx] = NIL]
  BY <1>0, SetFifoNext
<1> HIDE DEF c1
<1>2a. c1 \in Table
  BY <1>2 DEF EntriesOnly
<1>3. /\ EntriesOnly(c1, c2) /\ SameData(c1, c2) /\ Hnext(c2) = Hnext(c1) /\ FifoNext(c2) = FifoNext(c1)
      /\ FifoPrev(c2) = [FifoPrev(c1) EXCEPT ![idx] = tail]
  BY <1>0, <1>2a, SetFifoPrev
<1> HIDE DEF c2
<1>3a. c2 \in Table
  BY <1>3 DEF EntriesOnly
<1>4. /\ HeadsOnly(c2, c3) /\ c3.fifo_head = c2.fifo_head /\ c3.fifo_tail = idx
      /\ c3.buckets = c2.buckets /\ c3.free_head = c2.free_head /\ c3.count = c2.count
  BY <1>0, <1>3a DEF Table, SameBooks, HeadsOnly, WithTail
<1> HIDE DEF c3
<1>4a. c3 \in Table /\ SameData(c2, c3) /\ Hnext(c3) = Hnext(c2) /\ FifoNext(c3) = FifoNext(c2)
       /\ FifoPrev(c3) = FifoPrev(c2)
  BY <1>4, SameEntries DEF HeadsOnly
<1>5. /\ c3 \in Table /\ SameData(c, c3) /\ SameChains(c, c3) /\ SameBooks(c, c3) /\ c3.count = c.count
      /\ c3.fifo_head = c.fifo_head /\ c3.fifo_tail = idx
      /\ FifoNext(c3) = [FifoNext(c) EXCEPT ![idx] = NIL] /\ FifoPrev(c3) = [FifoPrev(c) EXCEPT ![idx] = tail]
  BY <1>2, <1>3, <1>4, <1>4a DEF EntriesOnly, HeadsOnly, SameData, SameChains, SameBooks
<1>6. CASE tail # NIL
  <2>1. /\ EntriesOnly(c3, c4) /\ SameData(c3, c4) /\ Hnext(c4) = Hnext(c3) /\ FifoPrev(c4) = FifoPrev(c3)
        /\ FifoNext(c4) = [FifoNext(c3) EXCEPT ![tail] = idx]
    BY <1>0, <1>4a, <1>6, SetFifoNext
  <2> HIDE DEF c4
  <2>2. Appended(c, c4, idx)
    <3>1. \A s \in Slots :
             /\ FifoNext(c4)[s] = IF s = idx THEN NIL ELSE IF s = tail THEN idx ELSE FifoNext(c)[s]
             /\ FifoPrev(c4)[s] = IF s = idx THEN tail ELSE FifoPrev(c)[s]
      BY <2>1, <1>0, <1>5, <1>6 DEF FifoNext, FifoPrev
    <3>2. c4 \in Table /\ SameData(c, c4) /\ SameChains(c, c4) /\ SameBooks(c, c4) /\ c4.count = c.count
          /\ c4.fifo_tail = idx /\ c4.fifo_head = c.fifo_head
      BY <2>1, <1>5 DEF EntriesOnly, SameData, SameChains, SameBooks
    <3> QED
      BY <3>1, <3>2, <1>6 DEF Appended, tail
  <2> QED
    BY <1>1, <1>6, <2>2
<1>7. CASE tail = NIL
  <2>1. HeadsOnly(c3, c5) /\ c5.fifo_head = idx /\ c5.fifo_tail = c3.fifo_tail
        /\ c5.buckets = c3.buckets /\ c5.free_head = c3.free_head /\ c5.count = c3.count
    BY <1>0, <1>4a DEF Table, SameBooks, HeadsOnly, WithHead
  <2> HIDE DEF c5
  <2>2. SameData(c3, c5) /\ Hnext(c5) = Hnext(c3) /\ FifoNext(c5) = FifoNext(c3) /\ FifoPrev(c5) = FifoPrev(c3)
    BY <2>1, SameEntries DEF HeadsOnly
  <2>3. Appended(c, c5, idx)
    <3>1. \A s \in Slots :
             /\ FifoNext(c5)[s] = IF s = idx THEN NIL ELSE IF s = tail THEN idx ELSE FifoNext(c)[s]
             /\ FifoPrev(c5)[s] = IF s = idx THEN tail ELSE FifoPrev(c)[s]
      BY <2>2, <1>0, <1>5, <1>7 DEF FifoNext, FifoPrev
    <3>2. c5 \in Table /\ SameData(c, c5) /\ SameChains(c, c5) /\ SameBooks(c, c5) /\ c5.count = c.count
          /\ c5.fifo_tail = idx /\ c5.fifo_head = idx
      BY <2>1, <2>2, <1>5 DEF HeadsOnly, SameData, SameChains, SameBooks
    <3> QED
      BY <3>1, <3>2, <1>7 DEF Appended, tail
  <2> QED
    BY <1>1, <1>7, <2>3
<1> QED
  BY <1>6, <1>7

\* The neighbours of idx in the FIFO of c, or its ends, point past idx in d.
FifoCut(c, d, idx) ==
    /\ d.fifo_head = IF FifoPrev(c)[idx] = NIL THEN FifoNext(c)[idx] ELSE c.fifo_head
    /\ d.fifo_tail = IF FifoNext(c)[idx] = NIL THEN FifoPrev(c)[idx] ELSE c.fifo_tail
    /\ \A s \in Slots :
          /\ FifoNext(d)[s] = IF s = FifoPrev(c)[idx] THEN FifoNext(c)[idx] ELSE FifoNext(c)[s]
          /\ FifoPrev(d)[s] = IF s = FifoNext(c)[idx] THEN FifoPrev(c)[idx] ELSE FifoPrev(c)[s]

\* The effect of fifo_unlink().
Unlinked(c, d, idx) ==
    /\ d \in Table /\ SameData(c, d) /\ SameChains(c, d) /\ SameBooks(c, d) /\ d.count = c.count
    /\ FifoCut(c, d, idx)

\* One half of fifo_unlink(): the predecessor, or the head.
CutLeft(c, p, n) == IF p # NIL THEN WithNext(c, p, n) ELSE WithHead(c, n)

\* The other half: the successor, or the tail.
CutRight(c, p, n) == IF n # NIL THEN WithPrev(c, n, p) ELSE WithTail(c, p)

\* The effect of the first half, d being the table after it.
LeftCut(c, d, p, n) ==
    /\ d \in Table /\ SameData(c, d) /\ SameChains(c, d) /\ SameBooks(c, d) /\ d.count = c.count
    /\ d.fifo_head = (IF p = NIL THEN n ELSE c.fifo_head) /\ d.fifo_tail = c.fifo_tail
    /\ FifoPrev(d) = FifoPrev(c)
    /\ \A s \in Slots : FifoNext(d)[s] = IF s = p THEN n ELSE FifoNext(c)[s]

\* The effect of the other half.
RightCut(c, d, p, n) ==
    /\ d \in Table /\ SameData(c, d) /\ SameChains(c, d) /\ SameBooks(c, d) /\ d.count = c.count
    /\ d.fifo_tail = (IF n = NIL THEN p ELSE c.fifo_tail) /\ d.fifo_head = c.fifo_head
    /\ FifoNext(d) = FifoNext(c)
    /\ \A s \in Slots : FifoPrev(d)[s] = IF s = n THEN p ELSE FifoPrev(c)[s]

\* The first half: the predecessor, or the head, skips the entry.
LEMMA UnlinkLeft ==
    ASSUME NEW c \in Table, NEW p \in Index, NEW n \in Index
    PROVE  LeftCut(c, CutLeft(c, p, n), p, n)
<1> DEFINE d == CutLeft(c, p, n)
<1>1. CASE p # NIL
  <2> DEFINE e == WithNext(c, p, n)
  <2>1. p \in Slots /\ d = e
    BY <1>1 DEF Index, CutLeft
  <2>2. /\ EntriesOnly(c, e) /\ SameData(c, e) /\ Hnext(e) = Hnext(c) /\ FifoPrev(e) = FifoPrev(c)
        /\ FifoNext(e) = [FifoNext(c) EXCEPT ![p] = n]
    BY <2>1, SetFifoNext
  <2> HIDE DEF e
  <2>3. \A s \in Slots : FifoNext(e)[s] = IF s = p THEN n ELSE FifoNext(c)[s]
    BY <2>1, <2>2 DEF FifoNext
  <2> QED
    BY <1>1, <2>1, <2>2, <2>3 DEF EntriesOnly, SameChains, LeftCut
<1>2. CASE p = NIL
  <2> DEFINE e == WithHead(c, n)
  <2>1. p \notin Slots /\ d = e
    BY <1>2 DEF NIL, Slots, CutLeft
  <2>2. HeadsOnly(c, e) /\ e.fifo_head = n /\ e.fifo_tail = c.fifo_tail
        /\ e.buckets = c.buckets /\ e.free_head = c.free_head /\ e.count = c.count
    BY DEF Table, SameBooks, HeadsOnly, WithHead
  <2> HIDE DEF e
  <2>3. SameData(c, e) /\ Hnext(e) = Hnext(c) /\ FifoNext(e) = FifoNext(c) /\ FifoPrev(e) = FifoPrev(c)
    BY <2>2, SameEntries DEF HeadsOnly
  <2> QED
    BY <1>2, <2>1, <2>2, <2>3 DEF HeadsOnly, SameChains, LeftCut
<1> QED
  BY <1>1, <1>2

\* The second half: the successor, or the tail, skips the entry.
LEMMA UnlinkRight ==
    ASSUME NEW c \in Table, NEW p \in Index, NEW n \in Index
    PROVE  RightCut(c, CutRight(c, p, n), p, n)
<1> DEFINE d == CutRight(c, p, n)
<1>1. CASE n # NIL
  <2> DEFINE e == WithPrev(c, n, p)
  <2>1. n \in Slots /\ d = e
    BY <1>1 DEF Index, CutRight
  <2>2. /\ EntriesOnly(c, e) /\ SameData(c, e) /\ Hnext(e) = Hnext(c) /\ FifoNext(e) = FifoNext(c)
        /\ FifoPrev(e) = [FifoPrev(c) EXCEPT ![n] = p]
    BY <2>1, SetFifoPrev
  <2> HIDE DEF e
  <2>3. \A s \in Slots : FifoPrev(e)[s] = IF s = n THEN p ELSE FifoPrev(c)[s]
    BY <2>1, <2>2 DEF FifoPrev
  <2> QED
    BY <1>1, <2>1, <2>2, <2>3 DEF EntriesOnly, SameChains, RightCut
<1>2. CASE n = NIL
  <2> DEFINE e == WithTail(c, p)
  <2>1. n \notin Slots /\ d = e
    BY <1>2 DEF NIL, Slots, CutRight
  <2>2. HeadsOnly(c, e) /\ e.fifo_tail = p /\ e.fifo_head = c.fifo_head
        /\ e.buckets = c.buckets /\ e.free_head = c.free_head /\ e.count = c.count
    BY DEF Table, SameBooks, HeadsOnly, WithTail
  <2> HIDE DEF e
  <2>3. SameData(c, e) /\ Hnext(e) = Hnext(c) /\ FifoNext(e) = FifoNext(c) /\ FifoPrev(e) = FifoPrev(c)
    BY <2>2, SameEntries DEF HeadsOnly
  <2> QED
    BY <1>2, <2>1, <2>2, <2>3 DEF HeadsOnly, SameChains, RightCut
<1> QED
  BY <1>1, <1>2

\* fifo_unlink() has the effect Unlinked.
LEMMA UnlinkEffect ==
    ASSUME NEW c \in Table, NEW idx \in Slots
    PROVE  Unlinked(c, fifo_unlink(c, idx), idx)
<1> DEFINE p == FifoPrev(c)[idx]
           n == FifoNext(c)[idx]
           l == CutLeft(c, p, n)
           d == CutRight(l, p, n)
<1>0. p \in Index /\ n \in Index /\ p = c.entries[idx].fifo_prev /\ n = c.entries[idx].fifo_next
  BY TableFields DEF FifoPrev, FifoNext
<1>1. fifo_unlink(c, idx) = d
  BY <1>0 DEF fifo_unlink, CutLeft, CutRight, WithNext, WithPrev, WithTail, WithHead
<1> HIDE DEF p, n
<1>2. LeftCut(c, l, p, n)
  BY <1>0, UnlinkLeft
<1> HIDE DEF l
<1>3. RightCut(l, d, p, n)
  <2>1. l \in Table
    BY <1>2 DEF LeftCut
  <2> QED
    BY <1>0, <2>1, UnlinkRight
<1> HIDE DEF d
<1>4. SameData(c, d) /\ SameChains(c, d) /\ SameBooks(c, d)
  BY <1>2, <1>3 DEF LeftCut, RightCut, SameData, SameChains, SameBooks
<1>5. Unlinked(c, d, idx)
  BY <1>2, <1>3, <1>4 DEF LeftCut, RightCut, Unlinked, FifoCut, p, n
<1> QED
  BY <1>1, <1>5

\* The FIFO holds the slots U in the order of their contexts C, from both ends.
FifoOK(c, C, U) ==
    /\ Linked(FifoNext(c), c.fifo_head, Neg(C), U)
    /\ Linked(FifoPrev(c), c.fifo_tail, C, U)

\* Links are slots or NIL.
LEMMA LinkTypes ==
    ASSUME NEW c \in Table
    PROVE  /\ Hnext(c) \in [Slots -> Index] /\ FifoNext(c) \in [Slots -> Index]
              /\ FifoPrev(c) \in [Slots -> Index]
           /\ Ctx(c) \in [Slots -> Nat] /\ Time(c) \in [Slots -> Int] /\ Key(c) \in [Slots -> Keys \cup {NoKey}]
           /\ Ctx(c) \in [Slots -> Int]
  BY TableFields DEF Hnext, FifoNext, FifoPrev, Ctx, Time, Key

\* In the FIFO next and prev are inverse, and the ends are the ends.
LEMMA FifoMirror ==
    ASSUME NEW c, NEW C \in [Slots -> Int], NEW U \in SUBSET Slots, FifoOK(c, C, U)
    PROVE  Mirrored(FifoNext(c), FifoPrev(c), c.fifo_head, c.fifo_tail, U)
  BY Mirror DEF FifoOK

\* Unlinking an entry leaves a well-formed FIFO of the others; the unlinked one may have a new rank.
LEMMA UnlinkFifo ==
    ASSUME NEW c \in Table, NEW d, NEW C \in [Slots -> Int], NEW C2 \in [Slots -> Int],
           NEW U \in SUBSET Slots, NEW idx \in U, FifoOK(c, C, U), FifoCut(c, d, idx),
           \A s \in U \ {idx} : C2[s] = C[s]
    PROVE  FifoOK(d, C2, U \ {idx})
<1>0. idx \in Slots /\ idx # NIL /\ \A s \in U : s \in Slots /\ s # NIL
  BY DEF NIL, Slots
<1>1. Mirrored(FifoNext(c), FifoPrev(c), c.fifo_head, c.fifo_tail, U)
  BY FifoMirror
<1>2. Linked(FifoNext(d), d.fifo_head, Neg(C2), U \ {idx})
  <2>1. Neg(C) \in [Slots -> Int] /\ Neg(C2) \in [Slots -> Int] /\ \A s \in U \ {idx} : Neg(C2)[s] = Neg(C)[s]
    BY DEF Neg
  <2>2. TakeOut(FifoNext(c), c.fifo_head, Neg(C), FifoNext(d), d.fifo_head, Neg(C2), idx, U)
    BY <1>0, <1>1, <2>1 DEF TakeOut, FifoCut, Mirrored
  <2> QED
    BY <2>1, <2>2, TakeOutLinked DEF FifoOK
<1>3. Linked(FifoPrev(d), d.fifo_tail, C2, U \ {idx})
  <2>2. TakeOut(FifoPrev(c), c.fifo_tail, C, FifoPrev(d), d.fifo_tail, C2, idx, U)
    BY <1>0, <1>1 DEF TakeOut, FifoCut, Mirrored
  <2> QED
    BY <2>2, TakeOutLinked DEF FifoOK
<1> QED
  BY <1>2, <1>3 DEF FifoOK

\* Appending the newest entry leaves a well-formed FIFO with it.
LEMMA AppendFifo ==
    ASSUME NEW c \in Table, NEW d, NEW C \in [Slots -> Int],
           NEW U \in SUBSET Slots, NEW idx \in Slots \ U, FifoOK(c, C, U), Appended(c, d, idx),
           \A s \in U : C[s] < C[idx]
    PROVE  FifoOK(d, C, U \cup {idx})
<1>0. idx \in Slots /\ idx # NIL /\ \A s \in U : s \in Slots /\ s # NIL /\ s # idx
  BY DEF NIL, Slots
<1>1. Mirrored(FifoNext(c), FifoPrev(c), c.fifo_head, c.fifo_tail, U)
  BY FifoMirror
<1>2. Linked(FifoNext(d), d.fifo_head, Neg(C), U \cup {idx})
  <2>1. Neg(C) \in [Slots -> Int] /\ \A s \in U : Neg(C)[idx] < Neg(C)[s]
    BY DEF Neg
  <2>2. PutLast(FifoNext(c), c.fifo_head, Neg(C), FifoNext(d), d.fifo_head, Neg(C), idx, U)
    BY <1>0, <1>1, <2>1 DEF PutLast, Appended, Mirrored
  <2> QED
    BY <2>1, <2>2, PutLastLinked DEF FifoOK
<1>3. Linked(FifoPrev(d), d.fifo_tail, C, U \cup {idx})
  <2>1. PutFirst(FifoPrev(c), c.fifo_tail, C, FifoPrev(d), C, idx, U)
    BY <1>0 DEF PutFirst, Same, Appended
  <2>2. d.fifo_tail = idx
    BY DEF Appended
  <2> QED
    BY <2>1, <2>2, PutFirstLinked DEF FifoOK
<1> QED
  BY <1>2, <1>3 DEF FifoOK

\* The entries of U whose key falls into bucket b.
Chain(c, U, b) == {s \in U : KeyHash(Key(c)[s]) = b}

\* The slots U are in use: they make up the FIFO in the order of their
\* contexts and the hash chains of their keys; the others are the free list.
\* R orders the chains and the free list, by when a slot was put in front.
Shape(c, U, R, m) ==
    /\ FifoOK(c, Ctx(c), U)
    /\ Linked(Hnext(c), c.free_head, R, Slots \ U)
    /\ \A b \in Buckets : Linked(Hnext(c), c.buckets[b], R, Chain(c, U, b))
    /\ \A s \in Slots : R[s] < m
    /\ c.count = Cardinality(U)
    /\ \A s \in U : Key(c)[s] \in Keys
    /\ \A s, u \in U : Key(c)[s] = Key(c)[u] => s = u

\* Every key has a bucket.
LEMMA BucketOf == \A k \in Keys : KeyHash(k) \in Buckets
  BY BucketAssumption DEF Buckets

\* The walk of a bucket visits the entries of the bucket.
LEMMA ChainWalk ==
    ASSUME NEW c \in Table, NEW U \in SUBSET Slots, NEW R \in [Slots -> Int], NEW m \in Int, Shape(c, U, R, m),
           NEW b \in Buckets
    PROVE  /\ Visits(Walk(Hnext(c), c.buckets[b]), Chain(c, U, b))
           /\ Follows(Walk(Hnext(c), c.buckets[b]), Hnext(c), c.buckets[b])
<1>1. Hnext(c) \in [Slots -> Index] /\ c.buckets[b] \in Index
  BY LinkTypes, TableFields
<1>2. Chain(c, U, b) \in SUBSET Slots /\ Linked(Hnext(c), c.buckets[b], R, Chain(c, U, b))
  BY DEF Chain, Shape
<1> QED
  BY <1>1, <1>2, WalkVisits, WalkDef

\* What entry_find() returns: the entry in use that holds the key, if there is one.
Found(c, U, k, i) == \/ i = NIL /\ \A s \in U : Key(c)[s] # k
                     \/ i \in U /\ Key(c)[i] = k

\* entry_find() finds the entry of the key if there is one.
LEMMA FindFinds ==
    ASSUME NEW c \in Table, NEW U \in SUBSET Slots, NEW R \in [Slots -> Int], NEW m \in Int, Shape(c, U, R, m),
           NEW k \in Keys
    PROVE  Found(c, U, k, entry_find(c, k))
<1> DEFINE b == KeyHash(k)
           w == Walk(Hnext(c), c.buckets[b])
           hits == {n \in 0..Capacity : w[n] # NIL /\ c.entries[w[n]].key = k}
           B == Chain(c, U, b)
<1>1. b \in Buckets
  BY BucketOf
<1>2. Visits(w, B)
  <2> HIDE DEF b
  <2> QED
    BY <1>1, ChainWalk
<1>3. entry_find(c, k) = IF hits = {} THEN NIL ELSE w[CHOOSE n \in hits : \A j \in hits : n <= j]
  BY DEF entry_find
<1> HIDE DEF w
<1>4. \A s \in Slots : Key(c)[s] = c.entries[s].key
  BY DEF Key
<1>5. CASE hits = {}
  <2>1. ASSUME NEW s \in U, Key(c)[s] = k PROVE FALSE
    <3>1. s \in B /\ s # NIL
      BY <2>1 DEF Chain, NIL, Slots
    <3>2. PICK n \in 0..Capacity : w[n] = s
      BY <1>2, <3>1 DEF Visits
    <3>3. n \in hits
      BY <3>1, <3>2, <2>1, <1>4
    <3> QED
      BY <3>3, <1>5
  <2> QED
    BY <2>1, <1>3, <1>5 DEF Found
<1>6. CASE hits # {}
  <2> DEFINE n == CHOOSE n \in hits : \A j \in hits : n <= j
  <2>1. hits \in SUBSET Nat
    BY CapacityAssumption
  <2>2. n \in hits
    <3> HIDE DEF hits
    <3>1. \E x \in hits : \A j \in hits : x <= j
      BY <2>1, <1>6, Least
    <3> QED
      BY <3>1
  <2> HIDE DEF n
  <2>3. w[n] \in B /\ c.entries[w[n]].key = k
    BY <2>2, <1>2 DEF Visits
  <2>4. w[n] \in U /\ Key(c)[w[n]] = k
    BY <2>3, <1>4 DEF Chain
  <2> QED
    BY <2>4, <1>3, <1>6 DEF Found, n
<1> QED
  BY <1>5, <1>6

\* The effect of taking idx out of the chain B of bucket b.
Unchained(c, d, idx, b, B) ==
    /\ d \in Table /\ SameData(c, d) /\ SameFifo(c, d) /\ SameBooks(c, d)
    /\ d.free_head = c.free_head /\ d.count = c.count
    /\ d.buckets = [c.buckets EXCEPT ![b] = IF c.buckets[b] = idx THEN Hnext(c)[idx] ELSE c.buckets[b]]
    /\ \A s \in B : Hnext(d)[s] = IF Hnext(c)[s] = idx THEN Hnext(c)[idx] ELSE Hnext(c)[s]
    /\ \A s \in Slots \ B : Hnext(d)[s] = Hnext(c)[s]

\* The first part of entry_release(): the search along the chain and the unlinking.
Unchain(c, idx, b) ==
    LET chain == Walk(Hnext(c), c.buckets[b])
        at == {n \in 0..Capacity : chain[n] = idx}
    IN  IF at = {} THEN c
        ELSE IF 0 \in at THEN WithBucket(c, b, c.entries[idx].hnext)
        ELSE LET n == CHOOSE n \in at : \A j \in at : n <= j
             IN  WithHnext(c, chain[n - 1], c.entries[idx].hnext)

\* The search of entry_release() finds the entry, so its chain loses it.
LEMMA UnchainEffect ==
    ASSUME NEW c \in Table, NEW U \in SUBSET Slots, NEW R \in [Slots -> Int], NEW m \in Int, Shape(c, U, R, m),
           NEW b \in Buckets, NEW idx \in Chain(c, U, b)
    PROVE  Unchained(c, Unchain(c, idx, b), idx, b, Chain(c, U, b))
<1> DEFINE w == Walk(Hnext(c), c.buckets[b])
           at == {n \in 0..Capacity : w[n] = idx}
           h == c.entries[idx].hnext
           B == Chain(c, U, b)
           n == CHOOSE n \in at : \A j \in at : n <= j
<1>1. Visits(w, B) /\ Follows(w, Hnext(c), c.buckets[b])
  BY ChainWalk
<1>2. Unchain(c, idx, b) = IF at = {} THEN c ELSE IF 0 \in at THEN WithBucket(c, b, h)
                           ELSE WithHnext(c, w[n - 1], h)
  BY DEF Unchain
<1> HIDE DEF w
<1>3. idx \in Slots /\ B \in SUBSET Slots /\ idx \in B /\ NIL \notin Slots /\ idx # NIL
  <2>1. B \in SUBSET Slots /\ idx \in B
    BY DEF Chain
  <2>2. NIL \notin Slots
    BY DEF NIL, Slots
  <2> QED
    BY <2>1, <2>2
<1>4. h \in Index /\ h = Hnext(c)[idx] /\ c.buckets \in [Buckets -> Index] /\ c.buckets[b] \in Index
  BY <1>3, TableFields DEF Hnext
<1> HIDE DEF h
<1>5. Linked(Hnext(c), c.buckets[b], R, B)
  BY DEF Shape
<1> HIDE DEF B
<1>6. at # {}
  BY <1>1, <1>3 DEF Visits
<1>7. CASE 0 \in at
  <2> DEFINE d == WithBucket(c, b, h)
  <2>1. c.buckets[b] = idx
    BY <1>7, <1>1 DEF Follows
  <2>2. \A s \in B : Hnext(c)[s] # idx
    BY <2>1, <1>3, <1>5 DEF Linked
  <2>3. /\ HeadsOnly(c, d) /\ d.fifo_head = c.fifo_head /\ d.fifo_tail = c.fifo_tail
        /\ d.buckets = [c.buckets EXCEPT ![b] = h] /\ d.free_head = c.free_head /\ d.count = c.count
    BY <1>4 DEF Table, SameBooks, HeadsOnly, WithBucket
  <2> HIDE DEF d
  <2>4. SameData(c, d) /\ Hnext(d) = Hnext(c) /\ FifoNext(d) = FifoNext(c) /\ FifoPrev(d) = FifoPrev(c)
    BY <2>3, SameEntries DEF HeadsOnly
  <2>5. Unchained(c, d, idx, b, B)
    BY <2>1, <2>2, <2>3, <2>4, <1>4 DEF Unchained, HeadsOnly, SameFifo
  <2> QED
    BY <2>5, <1>2, <1>6, <1>7 DEF d, B
<1>8. CASE 0 \notin at
  <2> DEFINE p == w[n - 1]
             d == WithHnext(c, p, h)
  <2>1. at \in SUBSET Nat
    BY CapacityAssumption
  <2>2. n \in at
    <3> HIDE DEF at
    <3>1. \E x \in at : \A j \in at : x <= j
      BY <2>1, <1>6, Least
    <3> QED
      BY <3>1
  <2>3. n \in 1..Capacity /\ n - 1 \in 0..Capacity /\ w[n] = idx
    BY <2>2, <1>8, CapacityAssumption
  <2> HIDE DEF n, at
  <2>4. p # NIL /\ p \in B /\ Hnext(c)[p] = idx
    BY <2>3, <1>1, <1>3 DEF Follows, Visits
  <2>5. p \in Slots /\ c.buckets[b] # idx
    <3>1. R[idx] < R[p] /\ R[idx] \in Int /\ R[p] \in Int
      BY <2>4, <1>3, <1>5 DEF Linked
    <3>2. c.buckets[b] = idx => R[p] <= R[idx]
      BY <2>4, <1>3, <1>5 DEF Linked
    <3> QED
      BY <3>1, <3>2, <2>4, <1>3
  <2>6. \A s \in B : Hnext(c)[s] = idx => s = p
    <3> SUFFICES ASSUME NEW s \in B, Hnext(c)[s] = idx, s # p PROVE FALSE
      OBVIOUS
    <3>1. R[s] \in Int /\ R[p] \in Int /\ R[idx] \in Int /\ R[s] # R[p]
      BY <2>4, <1>3, <1>5 DEF Linked
    <3>2. R[idx] < R[s] /\ (R[p] < R[s] => R[p] <= R[idx])
      BY <2>4, <1>3, <1>5 DEF Linked
    <3>3. R[idx] < R[p] /\ (R[s] < R[p] => R[s] <= R[idx])
      BY <2>4, <1>3, <1>5 DEF Linked
    <3> QED
      BY <3>1, <3>2, <3>3
  <2> HIDE DEF p
  <2>7. /\ EntriesOnly(c, d) /\ SameData(c, d) /\ FifoPrev(d) = FifoPrev(c) /\ FifoNext(d) = FifoNext(c)
        /\ Hnext(d) = [Hnext(c) EXCEPT ![p] = h]
    BY <2>5, <1>4, SetHnext
  <2> HIDE DEF d
  <2>8. \A s \in Slots : Hnext(d)[s] = IF s = p THEN h ELSE Hnext(c)[s]
    BY <2>5, <2>7 DEF Hnext
  <2>9. /\ \A s \in B : Hnext(d)[s] = IF Hnext(c)[s] = idx THEN Hnext(c)[idx] ELSE Hnext(c)[s]
        /\ \A s \in Slots \ B : Hnext(d)[s] = Hnext(c)[s]
    BY <2>4, <2>6, <2>8, <1>3, <1>4
  <2>10. d.buckets = [c.buckets EXCEPT ![b] = IF c.buckets[b] = idx THEN Hnext(c)[idx] ELSE c.buckets[b]]
    BY <2>5, <2>7, <1>4 DEF EntriesOnly
  <2>11. Unchained(c, d, idx, b, B)
    BY <2>7, <2>9, <2>10 DEF Unchained, EntriesOnly, SameFifo
  <2> QED
    BY <2>11, <1>2, <1>6, <1>8 DEF d, p, B
<1> QED
  BY <1>7, <1>8

\* entry_release() as its parts.
LEMMA ReleaseParts ==
    ASSUME NEW c \in Table, NEW idx \in Slots
    PROVE  LET b == KeyHash(Key(c)[idx])
               u == Unchain(c, idx, b)
               d == fifo_unlink(u, idx)
           IN  entry_release(c, idx) = WithCount(WithFree(WithHnext(d, idx, c.free_head), idx), d.count - 1)
<1>1. Key(c)[idx] = c.entries[idx].key
  BY DEF Key
<1>2. entry_release(c, idx) = [fifo_unlink(Unchain(c, idx, KeyHash(c.entries[idx].key)), idx) EXCEPT
            !.entries[idx].hnext = c.free_head,
            !.free_head = idx,
            !.count = @ - 1]
  BY DEF entry_release, Unchain, WithBucket, WithHnext
<1> DEFINE d == fifo_unlink(Unchain(c, idx, KeyHash(c.entries[idx].key)), idx)
<1>3. [d EXCEPT !.entries[idx].hnext = c.free_head, !.free_head = idx, !.count = @ - 1]
      = WithCount(WithFree(WithHnext(d, idx, c.free_head), idx), d.count - 1)
  <2> HIDE DEF d
  <2> QED
  BY DEF WithCount, WithFree, WithHnext
<1> QED
  BY <1>1, <1>2, <1>3

\* The whole effect of entry_release() on the links.
Released(c, d, idx, b, B) ==
    /\ d \in Table /\ SameData(c, d) /\ SameBooks(c, d) /\ d.count = c.count - 1
    /\ d.free_head = idx
    /\ d.buckets = [c.buckets EXCEPT ![b] = IF c.buckets[b] = idx THEN Hnext(c)[idx] ELSE c.buckets[b]]
    /\ Hnext(d)[idx] = c.free_head
    /\ \A s \in B \ {idx} : Hnext(d)[s] = IF Hnext(c)[s] = idx THEN Hnext(c)[idx] ELSE Hnext(c)[s]
    /\ \A s \in Slots \ (B \cup {idx}) : Hnext(d)[s] = Hnext(c)[s]
    /\ FifoCut(c, d, idx)

\* entry_release() has the effect Released.
LEMMA ReleaseEffect ==
    ASSUME NEW c \in Table, NEW U \in SUBSET Slots, NEW R \in [Slots -> Int], NEW m \in Int, Shape(c, U, R, m),
           NEW b \in Buckets, NEW idx \in Chain(c, U, b)
    PROVE  Released(c, entry_release(c, idx), idx, b, Chain(c, U, b))
<1> DEFINE B == Chain(c, U, b)
           u == Unchain(c, idx, b)
           d == fifo_unlink(u, idx)
           e == WithHnext(d, idx, c.free_head)
           f == WithFree(e, idx)
           g == WithCount(f, d.count - 1)
<1>0. idx \in Slots /\ idx \in Index /\ c.free_head \in Index /\ B \in SUBSET Slots /\ b = KeyHash(Key(c)[idx])
      /\ c.count \in Int
  BY TableFields DEF Chain, Index
<1>1. entry_release(c, idx) = g
  BY <1>0, ReleaseParts
<1>2. Unchained(c, u, idx, b, B)
  BY UnchainEffect
<1> HIDE DEF u, B
<1>3. Unlinked(u, d, idx)
  <2>1. u \in Table
    BY <1>2 DEF Unchained
  <2> QED
    BY <2>1, <1>0, UnlinkEffect
<1> HIDE DEF d
<1>4. d \in Table /\ d.count = c.count
  BY <1>2, <1>3 DEF Unlinked, Unchained
<1>5. /\ EntriesOnly(d, e) /\ SameData(d, e) /\ FifoPrev(e) = FifoPrev(d) /\ FifoNext(e) = FifoNext(d)
      /\ Hnext(e) = [Hnext(d) EXCEPT ![idx] = c.free_head]
  <2> DEFINE v == c.free_head
  <2>1. v \in Index
    BY <1>0
  <2> HIDE DEF v
  <2>2. LET x == WithHnext(d, idx, v)
        IN  /\ EntriesOnly(d, x) /\ SameData(d, x) /\ FifoPrev(x) = FifoPrev(d) /\ FifoNext(x) = FifoNext(d)
            /\ Hnext(x) = [Hnext(d) EXCEPT ![idx] = v]
    BY <1>0, <1>4, <2>1, SetHnext
  <2> QED
    BY <2>2 DEF v
<1> HIDE DEF e
<1>6. /\ HeadsOnly(e, f) /\ f.fifo_head = e.fifo_head /\ f.fifo_tail = e.fifo_tail
      /\ f.buckets = e.buckets /\ f.free_head = idx /\ f.count = e.count
  <2>1. e \in Table
    BY <1>5 DEF EntriesOnly
  <2> QED
    BY <1>0, <2>1 DEF Table, SameBooks, HeadsOnly, WithFree
<1> HIDE DEF f
<1>7. /\ HeadsOnly(f, g) /\ g.fifo_head = f.fifo_head /\ g.fifo_tail = f.fifo_tail
      /\ g.buckets = f.buckets /\ g.free_head = f.free_head /\ g.count = c.count - 1
  <2> DEFINE n == d.count - 1
  <2>1. f \in Table /\ n \in Int /\ n = c.count - 1
    BY <1>0, <1>4, <1>6 DEF HeadsOnly
  <2> HIDE DEF n
  <2>2. LET x == WithCount(f, n)
        IN  /\ HeadsOnly(f, x) /\ x.fifo_head = f.fifo_head /\ x.fifo_tail = f.fifo_tail
            /\ x.buckets = f.buckets /\ x.free_head = f.free_head /\ x.count = n
    BY <2>1 DEF Table, SameBooks, HeadsOnly, WithCount
  <2> QED
    BY <2>1, <2>2 DEF n
<1> HIDE DEF g
<1>8. /\ SameData(e, f) /\ Hnext(f) = Hnext(e) /\ FifoNext(f) = FifoNext(e) /\ FifoPrev(f) = FifoPrev(e)
      /\ SameData(f, g) /\ Hnext(g) = Hnext(f) /\ FifoNext(g) = FifoNext(f) /\ FifoPrev(g) = FifoPrev(f)
  BY <1>6, <1>7, SameEntries DEF HeadsOnly
<1>9. g \in Table /\ SameData(c, g) /\ SameBooks(c, g)
  <2>1. SameData(c, g)
    BY <1>2, <1>3, <1>5, <1>8 DEF SameData, Unchained, Unlinked
  <2>2. SameBooks(c, g)
    BY <1>2, <1>3, <1>5, <1>6, <1>7 DEF SameBooks, Unchained, Unlinked, EntriesOnly, HeadsOnly
  <2> QED
    BY <1>7, <2>1, <2>2 DEF HeadsOnly
<1>10. Hnext(g) = [Hnext(u) EXCEPT ![idx] = c.free_head]
  BY <1>3, <1>5, <1>8 DEF Unlinked, SameChains
<1>11. /\ Hnext(g)[idx] = c.free_head
       /\ \A s \in Slots \ {idx} : Hnext(g)[s] = Hnext(u)[s]
  BY <1>0, <1>10 DEF Hnext
<1>12. /\ \A s \in B \ {idx} : Hnext(g)[s] = IF Hnext(c)[s] = idx THEN Hnext(c)[idx] ELSE Hnext(c)[s]
       /\ \A s \in Slots \ (B \cup {idx}) : Hnext(g)[s] = Hnext(c)[s]
  BY <1>0, <1>11, <1>2 DEF Unchained
<1>13. g.buckets = [c.buckets EXCEPT ![b] = IF c.buckets[b] = idx THEN Hnext(c)[idx] ELSE c.buckets[b]]
       /\ g.free_head = idx /\ g.count = c.count - 1
  BY <1>2, <1>3, <1>5, <1>6, <1>7 DEF Unchained, Unlinked, SameChains, EntriesOnly
<1>14. /\ g.fifo_head = d.fifo_head /\ g.fifo_tail = d.fifo_tail
       /\ FifoNext(g) = FifoNext(d) /\ FifoPrev(g) = FifoPrev(d)
  BY <1>5, <1>6, <1>7, <1>8 DEF EntriesOnly
<1>15. SameFifo(c, u)
  BY <1>2 DEF Unchained
<1>16. FifoCut(c, g, idx)
  BY <1>14, <1>15, <1>3 DEF SameFifo, Unlinked, FifoCut
<1>17. Released(c, g, idx, b, B)
  BY <1>9, <1>11, <1>12, <1>13, <1>16 DEF Released
<1> QED
  BY <1>1, <1>17 DEF B

\* The slots U of table c are in use, and its lists say so.
Well(c, U) == c \in Table /\ U \in SUBSET Slots /\ \E R \in [Slots -> Int], m \in Int : Shape(c, U, R, m)

\* entry_release() keeps the lists in agreement, on one slot fewer.
LEMMA ReleaseKeeps ==
    ASSUME NEW c, NEW U, NEW idx \in U, Well(c, U)
    PROVE  LET d == entry_release(c, idx)
           IN  Well(d, U \ {idx}) /\ SameData(c, d) /\ SameBooks(c, d)
<1> DEFINE d == entry_release(c, idx)
           U2 == U \ {idx}
           b == KeyHash(Key(c)[idx])
           B == Chain(c, U, b)
           h == Hnext(c)
<1>1. c \in Table /\ U \in SUBSET Slots /\ idx \in Slots
  BY DEF Well
<1>2. PICK R \in [Slots -> Int], m \in Int : Shape(c, U, R, m)
  BY DEF Well
<1>3. b \in Buckets /\ idx \in B /\ B \in SUBSET Slots
  BY <1>1, <1>2, BucketOf DEF Shape, Chain
<1>4. Released(c, d, idx, b, B)
  <2> HIDE DEF b
  <2> QED
    BY <1>1, <1>2, <1>3, ReleaseEffect
<1> HIDE DEF d, b
<1> DEFINE R2 == [R EXCEPT ![idx] = m]
<1>5. R2 \in [Slots -> Int] /\ m + 1 \in Int /\ R2[idx] = m /\ \A s \in Slots \ {idx} : R2[s] = R[s]
  BY <1>1
<1>6. \A s \in Slots : R[s] < m /\ R2[s] < m + 1
  BY <1>2, <1>5 DEF Shape
<1> HIDE DEF R2
<1>7. d \in Table /\ SameData(c, d) /\ SameBooks(c, d) /\ Ctx(d) = Ctx(c) /\ Key(d) = Key(c)
  BY <1>4 DEF Released, SameData
<1>8. FifoOK(d, Ctx(d), U2)
  <2>1. Ctx(c) \in [Slots -> Int]
    BY <1>1, LinkTypes
  <2>2. FifoOK(c, Ctx(c), U) /\ FifoCut(c, d, idx)
    BY <1>2, <1>4 DEF Shape, Released
  <2> QED
    BY <1>1, <1>7, <2>1, <2>2, UnlinkFifo
<1>9. Linked(Hnext(d), d.free_head, R2, Slots \ U2)
  <2> DEFINE F == Slots \ U
  <2>1. Linked(h, c.free_head, R, F)
    BY <1>2 DEF Shape
  <2>2. idx \in Slots \ F /\ F \in SUBSET Slots /\ F \cup {idx} = Slots \ U2 /\ idx \notin F
        /\ F \subseteq Slots \ (B \cup {idx})
    BY <1>1 DEF Chain
  <2> HIDE DEF F
  <2>3. PutFirst(h, c.free_head, R, Hnext(d), R2, idx, F)
    <3>1. \A s \in F : Hnext(d)[s] = h[s] /\ R2[s] = R[s] /\ R[s] < R2[idx]
      BY <2>2, <1>4, <1>5, <1>6 DEF Released
    <3>2. Hnext(d)[idx] = c.free_head
      BY <1>4 DEF Released
    <3> QED
      BY <3>1, <3>2 DEF PutFirst, Same
  <2>4. Linked(Hnext(d), idx, R2, F \cup {idx})
    BY <1>5, <2>1, <2>2, <2>3, PutFirstLinked
  <2>5. d.free_head = idx
    BY <1>4 DEF Released
  <2> QED
    BY <2>2, <2>4, <2>5
<1>10. ASSUME NEW a \in Buckets PROVE Linked(Hnext(d), d.buckets[a], R2, Chain(d, U2, a))
  <2>1. Linked(h, c.buckets[a], R, Chain(c, U, a)) /\ c.buckets \in [Buckets -> Index]
    BY <1>1, <1>2, TableFields DEF Shape
  <2>2. CASE a = b
    <3>1. Chain(d, U2, a) = B \ {idx}
      BY <1>7, <2>2 DEF Chain
    <3>2. TakeOut(h, c.buckets[a], R, Hnext(d), d.buckets[a], R2, idx, B)
      <4>1. \A s \in B \ {idx} : Hnext(d)[s] = (IF h[s] = idx THEN h[idx] ELSE h[s]) /\ R2[s] = R[s]
        BY <1>3, <1>4, <1>5 DEF Released
      <4>2. d.buckets[a] = IF c.buckets[a] = idx THEN h[idx] ELSE c.buckets[a]
        BY <1>4, <2>1, <2>2 DEF Released
      <4> QED
        BY <4>1, <4>2 DEF TakeOut
    <3>3. Linked(h, c.buckets[a], R, B)
      BY <2>1, <2>2
    <3> HIDE DEF B, h
    <3>4. Linked(Hnext(d), d.buckets[a], R2, B \ {idx})
      BY <1>3, <1>5, <3>2, <3>3, TakeOutLinked
    <3> QED
      BY <3>1, <3>4
  <2>3. CASE a # b
    <3>1. Chain(d, U2, a) = Chain(c, U, a) /\ Chain(c, U, a) \subseteq Slots \ (B \cup {idx})
      BY <1>1, <1>7, <2>3 DEF Chain, b
    <3>2. d.buckets[a] = c.buckets[a]
      BY <1>4, <2>1, <2>3 DEF Released
    <3>3. Same(h, R, Hnext(d), R2, Chain(c, U, a))
      BY <1>4, <1>5, <3>1 DEF Released, Same
    <3> QED
      BY <2>1, <3>1, <3>2, <3>3, SameLinked
  <2> QED
    BY <2>2, <2>3
<1>11. d.count = Cardinality(U2)
  <2>1. IsFiniteSet(U)
    BY <1>1, PoolFinite
  <2>2. Cardinality(U2) = Cardinality(U) - 1
    BY <2>1, FS_RemoveElement
  <2> QED
    BY <2>2, <1>2, <1>4 DEF Shape, Released
<1>12. \A s \in U2 : Key(d)[s] \in Keys
  BY <1>2, <1>7 DEF Shape
<1>13. \A s, u \in U2 : Key(d)[s] = Key(d)[u] => s = u
  BY <1>2, <1>7 DEF Shape
<1>14. Shape(d, U2, R2, m + 1)
  BY <1>6, <1>8, <1>9, <1>10, <1>11, <1>12, <1>13 DEF Shape
<1>15. Well(d, U2)
  <2> HIDE DEF U2
  <2>1. U2 \in SUBSET Slots
    BY <1>1 DEF U2
  <2> QED
    BY <1>5, <1>7, <1>14, <2>1 DEF Well
<1> QED
  BY <1>7, <1>15 DEF d

\* d differs from c at most in the counters and the emissions.
BooksOnly(c, d) ==
    /\ d \in Table /\ d.entries = c.entries /\ d.buckets = c.buckets /\ d.free_head = c.free_head
    /\ d.fifo_head = c.fifo_head /\ d.fifo_tail = c.fifo_tail /\ d.count = c.count

\* Raising a counter.
LEMMA CountEffect ==
    ASSUME NEW c \in Table, NEW counter \in Counters
    PROVE  LET d == Count(c, counter)
           IN  BooksOnly(c, d) /\ d.emitted = c.emitted /\ d.stats = [c.stats EXCEPT ![counter] = @ + 1]
<1>1. [c.stats EXCEPT ![counter] = @ + 1] \in [Counters -> Nat]
  BY TableFields
<1> DEFINE st == [c.stats EXCEPT ![counter] = @ + 1]
<1>2. Count(c, counter) = [c EXCEPT !.stats = st]
  BY DEF Count
<1>3. st \in [Counters -> Nat]
  BY <1>1
<1> HIDE DEF st
<1>4. LET d == [c EXCEPT !.stats = st] IN BooksOnly(c, d) /\ d.emitted = c.emitted /\ d.stats = st
  BY <1>3 DEF Table, BooksOnly
<1> QED
  BY <1>2, <1>4 DEF st

\* The outcomes an emission can have.
Outcomes == {"UNANSWERED", "OBSERVED", "UNMATCHED"}

\* emit() changes the emissions only, and adds one.
LEMMA EmitEffect ==
    ASSUME NEW c \in Table, NEW outcome \in Outcomes, NEW q \in Nat, NEW r \in Nat, NEW v \in BOOLEAN
    PROVE  LET d == Emit(c, outcome, q, r, v)
           IN  /\ BooksOnly(c, d) /\ d.stats = c.stats
               /\ d.emitted = Append(c.emitted, [outcome |-> outcome, query |-> q, response |-> r, rtt_valid |-> v])
<1> DEFINE e == [outcome |-> outcome, query |-> q, response |-> r, rtt_valid |-> v]
           em == Append(c.emitted, e)
<1>1. e \in Emission
  BY DEF Emission, Outcomes
<1>2. Emit(c, outcome, q, r, v) = [c EXCEPT !.emitted = em]
  BY DEF Emit
<1> HIDE DEF e
<1>3. em \in Seq(Emission)
  BY <1>1, TableFields
<1> HIDE DEF em
<1>4. LET d == [c EXCEPT !.emitted = em] IN BooksOnly(c, d) /\ d.stats = c.stats /\ d.emitted = em
  BY <1>3 DEF Table, BooksOnly
<1> QED
  BY <1>2, <1>4 DEF em, e

\* Counting and emitting leave the lists alone.
LEMMA BooksKeep ==
    ASSUME NEW c, NEW d, NEW U, Well(c, U), BooksOnly(c, d)
    PROVE  Well(d, U) /\ SameData(c, d)
<1>1. SameData(c, d) /\ Hnext(d) = Hnext(c) /\ FifoNext(d) = FifoNext(c) /\ FifoPrev(d) = FifoPrev(c)
  BY SameEntries DEF BooksOnly
<1>2. PICK R \in [Slots -> Int], m \in Int : Shape(c, U, R, m)
  BY DEF Well
<1>3. Shape(d, U, R, m)
  BY <1>1, <1>2 DEF Shape, FifoOK, Chain, SameData, BooksOnly
<1> QED
  BY <1>1, <1>3 DEF Well, BooksOnly

\* What evict_as_unanswered() and the OBSERVED branch have in common: the entry
\* goes, one counter is raised and one emission carries the entry's context.
Gone(c, d, U, idx, counter, r, v, outcome) ==
    /\ Well(d, U \ {idx}) /\ SameData(c, d)
    /\ d.stats = [c.stats EXCEPT ![counter] = @ + 1]
    /\ d.emitted = Append(c.emitted, [outcome |-> outcome, query |-> Ctx(c)[idx], response |-> r, rtt_valid |-> v])

\* A release, a counter and an emission have the effect Gone.
LEMMA GoneBy ==
    ASSUME NEW c, NEW U, NEW idx \in U, Well(c, U), NEW counter \in Counters, NEW r \in Nat, NEW v \in BOOLEAN,
           NEW outcome \in Outcomes
    PROVE  Gone(c, Emit(Count(entry_release(c, idx), counter), outcome, Ctx(c)[idx], r, v), U, idx, counter,
                r, v, outcome)
<1> DEFINE c1 == entry_release(c, idx)
           c2 == Count(c1, counter)
           x == Ctx(c)[idx]
           c3 == Emit(c2, outcome, x, r, v)
<1>0. x \in Nat
  BY LinkTypes DEF Well
<1>1. Well(c1, U \ {idx}) /\ SameData(c, c1) /\ SameBooks(c, c1)
  BY ReleaseKeeps
<1> HIDE DEF c1, x
<1>2. BooksOnly(c1, c2) /\ c2.emitted = c1.emitted /\ c2.stats = [c1.stats EXCEPT ![counter] = @ + 1]
  BY <1>1, CountEffect DEF Well
<1>3. Well(c2, U \ {idx}) /\ SameData(c1, c2)
  BY <1>1, <1>2, BooksKeep
<1> HIDE DEF c2
<1>4. /\ BooksOnly(c2, c3) /\ c3.stats = c2.stats
      /\ c3.emitted = Append(c2.emitted, [outcome |-> outcome, query |-> x, response |-> r, rtt_valid |-> v])
  BY <1>0, <1>3, EmitEffect DEF Well
<1>5. Well(c3, U \ {idx}) /\ SameData(c2, c3)
  BY <1>3, <1>4, BooksKeep
<1> HIDE DEF c3
<1>6. SameData(c, c3)
  BY <1>1, <1>3, <1>5 DEF SameData
<1>7. c3.stats = [c.stats EXCEPT ![counter] = @ + 1]
  BY <1>1, <1>2, <1>4 DEF SameBooks
<1>8. c3.emitted = Append(c.emitted, [outcome |-> outcome, query |-> x, response |-> r, rtt_valid |-> v])
  BY <1>1, <1>2, <1>4 DEF SameBooks
<1> QED
  BY <1>5, <1>6, <1>7, <1>8 DEF Gone, c3, c2, c1, x

\* evict_as_unanswered() has the effect Gone.
LEMMA EvictEffect ==
    ASSUME NEW c, NEW U, NEW idx \in U, Well(c, U), NEW counter \in Counters
    PROVE  Gone(c, evict_as_unanswered(c, idx, counter), U, idx, counter, 0, FALSE, "UNANSWERED")
<1>1. c.entries[idx].ctx = Ctx(c)[idx]
  BY DEF Ctx, Well
<1>2. "UNANSWERED" \in Outcomes /\ FALSE \in BOOLEAN /\ 0 \in Nat
  BY DEF Outcomes
<1>3. Gone(c, Emit(Count(entry_release(c, idx), counter), "UNANSWERED", Ctx(c)[idx], 0, FALSE), U, idx, counter,
           0, FALSE, "UNANSWERED")
  BY <1>2, GoneBy
<1> QED
  BY <1>1, <1>3 DEF evict_as_unanswered

\* The entry of slot idx now holds (k, tm, x); the data of the others is as before.
DataAt(c, d, idx, k, tm, x) ==
    /\ Key(d) = [Key(c) EXCEPT ![idx] = k]
    /\ Time(d) = [Time(c) EXCEPT ![idx] = tm]
    /\ Ctx(d) = [Ctx(c) EXCEPT ![idx] = x]

\* x is newer than every context of U.
Newest(c, U, x) == \A s \in U : Ctx(c)[s] < x

\* A same-key query: new data in the entry, and the entry moved to the tail of the FIFO.
LEMMA ReplaceMove ==
    ASSUME NEW c, NEW U, Well(c, U), NEW idx \in U, NEW k \in Keys, Key(c)[idx] = k, NEW tm \in Int,
           NEW x \in Nat,
           Newest(c, U, x)
    PROVE  LET d == fifo_append(fifo_unlink(WithData(c, idx, k, tm, x), idx), idx)
           IN  Well(d, U) /\ SameBooks(c, d) /\ DataAt(c, d, idx, k, tm, x)
<1> DEFINE c1 == WithData(c, idx, k, tm, x)
           c2 == fifo_unlink(c1, idx)
           c3 == fifo_append(c2, idx)
           C == Ctx(c1)
           V == U \ {idx}
<1>1. c \in Table /\ U \in SUBSET Slots /\ idx \in Slots /\ V \in SUBSET Slots /\ idx \in Slots \ V
      /\ V \cup {idx} = U
  BY DEF Well
<1>2. PICK R \in [Slots -> Int], m \in Int : Shape(c, U, R, m)
  BY DEF Well
<1>3. /\ EntriesOnly(c, c1) /\ FifoPrev(c1) = FifoPrev(c) /\ FifoNext(c1) = FifoNext(c)
      /\ Hnext(c1) = Hnext(c) /\ Key(c1) = [Key(c) EXCEPT ![idx] = k]
      /\ Time(c1) = [Time(c) EXCEPT ![idx] = tm] /\ Ctx(c1) = [Ctx(c) EXCEPT ![idx] = x]
  BY <1>1, SetData
<1>4. c1 \in Table
  BY <1>3 DEF EntriesOnly
<1> HIDE DEF c1
<1>5. Unlinked(c1, c2, idx)
  BY <1>1, <1>4, UnlinkEffect
<1> HIDE DEF c2
<1>6. Ctx(c) \in [Slots -> Int] /\ C \in [Slots -> Int] /\ Key(c) \in [Slots -> Keys \cup {NoKey}]
  BY <1>1, <1>4, LinkTypes
<1>7. C[idx] = x /\ \A s \in V : C[s] = Ctx(c)[s] /\ C[s] < C[idx]
  BY <1>1, <1>3, <1>6 DEF Newest
<1>8. FifoOK(c1, Ctx(c), U)
  BY <1>2, <1>3 DEF Shape, FifoOK, EntriesOnly
<1> HIDE DEF V, C
<1>9. FifoOK(c2, C, V)
  <2>1. FifoCut(c1, c2, idx)
    BY <1>5 DEF Unlinked
  <2>2. \A s \in U \ {idx} : C[s] = Ctx(c)[s]
    BY <1>7 DEF V
  <2> QED
    BY <1>1, <1>4, <1>6, <1>8, <2>1, <2>2, UnlinkFifo DEF V
<1>10. Appended(c2, c3, idx)
  <2>1. c2 \in Table
    BY <1>5 DEF Unlinked
  <2>2. c2.fifo_tail # idx
    BY <1>1, <1>9 DEF FifoOK, Linked, NIL, Slots
  <2> QED
    BY <1>1, <2>1, <2>2, AppendEffect
<1> HIDE DEF c3
<1>11. FifoOK(c3, C, U)
  <2>1. c2 \in Table
    BY <1>5 DEF Unlinked
  <2>2. FifoOK(c3, C, V \cup {idx})
    BY <1>1, <1>6, <1>7, <1>9, <1>10, <2>1, AppendFifo
  <2> QED
    BY <2>2, <1>1
<1>12. SameData(c1, c3) /\ SameChains(c1, c3) /\ SameBooks(c1, c3) /\ c3.count = c1.count /\ c3 \in Table
  BY <1>5, <1>10 DEF Unlinked, Appended, SameData, SameChains, SameBooks
<1>13. Key(c3) = Key(c)
  <2>1. [Key(c) EXCEPT ![idx] = k] = Key(c)
    BY <1>1, <1>6
  <2> QED
    BY <2>1, <1>3, <1>12 DEF SameData
<1>14. Hnext(c3) = Hnext(c) /\ c3.buckets = c.buckets /\ c3.free_head = c.free_head /\ c3.count = c.count
       /\ SameBooks(c, c3)
  BY <1>3, <1>12 DEF SameChains, EntriesOnly, SameBooks
<1>15. DataAt(c, c3, idx, k, tm, x)
  BY <1>3, <1>12 DEF DataAt, SameData
<1>16. Shape(c3, U, R, m)
  <2>1. FifoOK(c3, Ctx(c3), U)
    BY <1>11, <1>12 DEF C, SameData
  <2>2. \A b : Chain(c3, U, b) = Chain(c, U, b)
    BY <1>13 DEF Chain
  <2> QED
    BY <1>2, <1>13, <1>14, <2>1, <2>2 DEF Shape
<1>17. Well(c3, U)
  BY <1>1, <1>12, <1>16 DEF Well
<1> QED
  BY <1>14, <1>15, <1>17 DEF c3, c2, c1

\* Insert() before fifo_append(): the slot leaves the free list and heads its chain.
Take(c, idx, k, tm, x, b) ==
    WithCount(WithBucket(WithHnext(WithData(WithFree(c, c.entries[idx].hnext), idx, k, tm, x), idx, c.buckets[b]),
                         b, idx),
              c.count + 1)

\* Insert() is Take() and fifo_append().
LEMMA InsertParts ==
    ASSUME NEW c \in Table, NEW idx \in Slots, c.free_head = idx, NEW k \in Keys, NEW tm, NEW x
    PROVE  Insert(c, k, tm, x) = fifo_append(Take(c, idx, k, tm, x, KeyHash(k)), idx)
  BY DEF Insert, Take, WithCount, WithBucket, WithHnext, WithData, WithFree

\* The effect of Take().
Taken(c, d, idx, k, tm, x, b) ==
    /\ d \in Table /\ SameBooks(c, d) /\ SameFifo(c, d) /\ DataAt(c, d, idx, k, tm, x)
    /\ d.free_head = Hnext(c)[idx] /\ d.count = c.count + 1
    /\ d.buckets = [c.buckets EXCEPT ![b] = idx]
    /\ Hnext(d) = [Hnext(c) EXCEPT ![idx] = c.buckets[b]]

\* Take() has that effect.
LEMMA TakeEffect ==
    ASSUME NEW c \in Table, NEW idx \in Slots, NEW k \in Keys, NEW tm \in Int, NEW x \in Nat, NEW b \in Buckets
    PROVE  Taken(c, Take(c, idx, k, tm, x, b), idx, k, tm, x, b)
<1> DEFINE h == c.entries[idx].hnext
           v == c.buckets[b]
           n == c.count + 1
           c1 == WithFree(c, h)
           c2 == WithData(c1, idx, k, tm, x)
           c3 == WithHnext(c2, idx, v)
           c4 == WithBucket(c3, b, idx)
           c5 == WithCount(c4, n)
<1>1. h \in Index /\ v \in Index /\ n \in Int /\ idx \in Index /\ h = Hnext(c)[idx]
  BY TableFields DEF Hnext, Index
<1>2. Take(c, idx, k, tm, x, b) = c5
  BY DEF Take
<1> HIDE DEF h, v, n
<1>3. /\ HeadsOnly(c, c1) /\ c1.fifo_head = c.fifo_head /\ c1.fifo_tail = c.fifo_tail
      /\ c1.buckets = c.buckets /\ c1.free_head = h /\ c1.count = c.count
  BY <1>1 DEF Table, SameBooks, HeadsOnly, WithFree
<1> HIDE DEF c1
<1>4. c1 \in Table /\ SameData(c, c1) /\ Hnext(c1) = Hnext(c) /\ FifoNext(c1) = FifoNext(c)
      /\ FifoPrev(c1) = FifoPrev(c)
  BY <1>3, SameEntries DEF HeadsOnly
<1>5. /\ EntriesOnly(c1, c2) /\ FifoPrev(c2) = FifoPrev(c1) /\ FifoNext(c2) = FifoNext(c1)
      /\ Hnext(c2) = Hnext(c1) /\ Key(c2) = [Key(c1) EXCEPT ![idx] = k]
      /\ Time(c2) = [Time(c1) EXCEPT ![idx] = tm] /\ Ctx(c2) = [Ctx(c1) EXCEPT ![idx] = x]
  BY <1>4, SetData
<1> HIDE DEF c2
<1>6. c2 \in Table
  BY <1>5 DEF EntriesOnly
<1>7. /\ EntriesOnly(c2, c3) /\ SameData(c2, c3) /\ FifoPrev(c3) = FifoPrev(c2) /\ FifoNext(c3) = FifoNext(c2)
      /\ Hnext(c3) = [Hnext(c2) EXCEPT ![idx] = v]
  BY <1>1, <1>6, SetHnext
<1> HIDE DEF c3
<1>8. c3 \in Table
  BY <1>7 DEF EntriesOnly
<1>9. /\ HeadsOnly(c3, c4) /\ c4.fifo_head = c3.fifo_head /\ c4.fifo_tail = c3.fifo_tail
      /\ c4.buckets = [c3.buckets EXCEPT ![b] = idx] /\ c4.free_head = c3.free_head /\ c4.count = c3.count
  BY <1>1, <1>8 DEF Table, SameBooks, HeadsOnly, WithBucket
<1> HIDE DEF c4
<1>10. c4 \in Table /\ SameData(c3, c4) /\ Hnext(c4) = Hnext(c3) /\ FifoNext(c4) = FifoNext(c3)
       /\ FifoPrev(c4) = FifoPrev(c3)
  BY <1>9, SameEntries DEF HeadsOnly
<1>11. /\ HeadsOnly(c4, c5) /\ c5.fifo_head = c4.fifo_head /\ c5.fifo_tail = c4.fifo_tail
       /\ c5.buckets = c4.buckets /\ c5.free_head = c4.free_head /\ c5.count = n
  BY <1>1, <1>10 DEF Table, SameBooks, HeadsOnly, WithCount
<1> HIDE DEF c5
<1>12. c5 \in Table /\ SameData(c4, c5) /\ Hnext(c5) = Hnext(c4) /\ FifoNext(c5) = FifoNext(c4)
       /\ FifoPrev(c5) = FifoPrev(c4)
  BY <1>11, SameEntries DEF HeadsOnly
<1>13. SameBooks(c, c5)
  BY <1>3, <1>5, <1>7, <1>9, <1>11 DEF HeadsOnly, EntriesOnly, SameBooks
<1>14. SameFifo(c, c5)
  BY <1>3, <1>4, <1>5, <1>7, <1>9, <1>10, <1>11, <1>12 DEF EntriesOnly, SameFifo
<1>15. DataAt(c, c5, idx, k, tm, x)
  BY <1>4, <1>5, <1>7, <1>10, <1>12 DEF DataAt, SameData
<1>16. c5.free_head = h /\ c5.count = n /\ c5.buckets = [c.buckets EXCEPT ![b] = idx]
  BY <1>3, <1>5, <1>7, <1>9, <1>11 DEF EntriesOnly
<1>17. Hnext(c5) = [Hnext(c) EXCEPT ![idx] = v]
  BY <1>4, <1>5, <1>7, <1>10, <1>12
<1> QED
  BY <1>1, <1>2, <1>12, <1>13, <1>14, <1>15, <1>16, <1>17 DEF n, v, Taken

\* A query under a key that is not pending gets the first free slot.
LEMMA InsertKeeps ==
    ASSUME NEW c, NEW U, Well(c, U), NEW k \in Keys, NEW tm \in Int, NEW x \in Nat, Newest(c, U, x),
           c.free_head # NIL, \A s \in U : Key(c)[s] # k
    PROVE  LET d == Insert(c, k, tm, x)
           IN  /\ c.free_head \in Slots \ U /\ Well(d, U \cup {c.free_head}) /\ SameBooks(c, d)
               /\ DataAt(c, d, c.free_head, k, tm, x)
<1> DEFINE idx == c.free_head
           b == KeyHash(k)
           e == Take(c, idx, k, tm, x, b)
           d == fifo_append(e, idx)
           W == U \cup {idx}
           F == Slots \ U
           h == Hnext(c)
           C == Ctx(e)
<1>1. PICK R \in [Slots -> Int], m \in Int : Shape(c, U, R, m)
  BY DEF Well
<1>2. c \in Table /\ U \in SUBSET Slots /\ b \in Buckets
  BY BucketOf DEF Well
<1>3. Linked(h, idx, R, F)
  BY <1>1 DEF Shape
<1>4. idx \in F /\ idx \in Slots /\ idx \notin U /\ \A u \in F : R[u] <= R[idx]
  BY <1>3 DEF Linked
<1>5. Insert(c, k, tm, x) = d
  <2>1. idx \in Slots /\ c.free_head = idx
    BY <1>4
  <2> HIDE DEF idx
  <2> QED
    BY <1>2, <2>1, InsertParts
<1> HIDE DEF idx, b
<1>6. /\ e \in Table /\ SameBooks(c, e) /\ SameFifo(c, e) /\ DataAt(c, e, idx, k, tm, x)
      /\ e.free_head = h[idx] /\ e.count = c.count + 1
      /\ e.buckets = [c.buckets EXCEPT ![b] = idx]
      /\ Hnext(e) = [h EXCEPT ![idx] = c.buckets[b]]
  <2>1. Taken(c, e, idx, k, tm, x, b)
    BY <1>2, <1>4, TakeEffect
  <2> QED
    BY <2>1 DEF Taken
<1> HIDE DEF e
<1>7. Ctx(c) \in [Slots -> Int] /\ C \in [Slots -> Int] /\ Key(c) \in [Slots -> Keys \cup {NoKey}]
      /\ h \in [Slots -> Index] /\ c.buckets \in [Buckets -> Index]
  BY <1>2, <1>6, LinkTypes, TableFields
<1>8. C[idx] = x /\ \A s \in U : C[s] = Ctx(c)[s] /\ C[s] < C[idx]
  BY <1>2, <1>4, <1>6, <1>7 DEF Newest, DataAt
<1>9. Key(e)[idx] = k /\ \A s \in U : Key(e)[s] = Key(c)[s]
  BY <1>2, <1>4, <1>6, <1>7 DEF DataAt
<1> HIDE DEF C
<1>10. FifoOK(e, C, U)
  <2>1. FifoOK(c, Ctx(c), U)
    BY <1>1 DEF Shape
  <2>2. Linked(FifoNext(e), e.fifo_head, Neg(Ctx(c)), U) /\ Linked(FifoPrev(e), e.fifo_tail, Ctx(c), U)
    BY <2>1, <1>6 DEF FifoOK, SameFifo
  <2>3. Same(FifoNext(e), Neg(Ctx(c)), FifoNext(e), Neg(C), U) /\ Same(FifoPrev(e), Ctx(c), FifoPrev(e), C, U)
    BY <1>2, <1>8 DEF Same, Neg
  <2>4. Linked(FifoNext(e), e.fifo_head, Neg(C), U)
    BY <2>2, <2>3, SameLinked
  <2>5. Linked(FifoPrev(e), e.fifo_tail, C, U)
    BY <2>2, <2>3, SameLinked
  <2> QED
    BY <2>4, <2>5 DEF FifoOK
<1>11. Appended(e, d, idx)
  <2>1. e.fifo_tail # idx
    BY <1>4, <1>10 DEF FifoOK, Linked, NIL, Slots
  <2> QED
    BY <1>4, <1>6, <2>1, AppendEffect
<1> HIDE DEF d
<1>12. FifoOK(d, C, W)
  BY <1>2, <1>4, <1>6, <1>7, <1>8, <1>10, <1>11, AppendFifo
<1>13. d \in Table /\ SameData(e, d) /\ SameChains(e, d) /\ SameBooks(e, d) /\ d.count = e.count
  BY <1>11 DEF Appended
<1>14. SameBooks(c, d) /\ DataAt(c, d, idx, k, tm, x) /\ Key(d) = Key(e) /\ Ctx(d) = C
  BY <1>6, <1>13 DEF SameBooks, SameData, DataAt, C
<1> DEFINE R2 == [R EXCEPT ![idx] = m]
<1>15. R2 \in [Slots -> Int] /\ m + 1 \in Int /\ R2[idx] = m /\ \A s \in Slots \ {idx} : R2[s] = R[s]
  BY <1>4
<1>16. \A s \in Slots : R[s] < m /\ R2[s] < m + 1
  BY <1>1, <1>15 DEF Shape
<1> HIDE DEF R2
<1>17. Hnext(d)[idx] = c.buckets[b] /\ \A s \in Slots \ {idx} : Hnext(d)[s] = h[s]
  BY <1>4, <1>6, <1>7, <1>13 DEF SameChains
<1>18. Linked(Hnext(d), d.free_head, R2, Slots \ W)
  <2>1. TakeOut(h, idx, R, Hnext(d), d.free_head, R2, idx, F)
    <3>1. d.free_head = h[idx]
      BY <1>6, <1>13 DEF SameChains
    <3>2. \A s \in F : h[s] # idx
      BY <1>3, <1>4 DEF Linked
    <3>3. \A s \in F \ {idx} : Hnext(d)[s] = h[s] /\ R2[s] = R[s]
      BY <1>15, <1>17
    <3> QED
      BY <3>1, <3>2, <3>3 DEF TakeOut
  <2>2. F \in SUBSET Slots /\ F \ {idx} = Slots \ W
    OBVIOUS
  <2> HIDE DEF F, W
  <2>3. Linked(Hnext(d), d.free_head, R2, F \ {idx})
    BY <1>3, <1>4, <1>15, <2>1, <2>2, TakeOutLinked
  <2> QED
    BY <2>2, <2>3
<1>19. ASSUME NEW a \in Buckets PROVE Linked(Hnext(d), d.buckets[a], R2, Chain(d, W, a))
  <2> DEFINE A == Chain(c, U, a)
  <2>1. Linked(h, c.buckets[a], R, A) /\ A \in SUBSET Slots /\ idx \notin A
    BY <1>1, <1>2, <1>4 DEF Shape, Chain
  <2>2. \A s \in A : Hnext(d)[s] = h[s] /\ R2[s] = R[s]
    BY <2>1, <1>15, <1>17
  <2>3. CASE a = b
    <3>1. Chain(d, W, a) = A \cup {idx}
      BY <2>3, <1>9, <1>14 DEF Chain, b
    <3>2. d.buckets[a] = idx
      BY <2>3, <1>2, <1>6, <1>7, <1>13 DEF SameChains
    <3>3. PutFirst(h, c.buckets[a], R, Hnext(d), R2, idx, A)
      <4>1. \A s \in A : R[s] < R2[idx]
        BY <2>1, <1>15, <1>16
      <4> QED
        BY <2>2, <2>3, <4>1, <1>17 DEF PutFirst, Same
    <3> HIDE DEF A
    <3>4. Linked(Hnext(d), idx, R2, A \cup {idx})
      BY <2>1, <3>3, <1>4, <1>15, PutFirstLinked
    <3> QED
      BY <3>1, <3>2, <3>4
  <2>4. CASE a # b
    <3>1. Chain(d, W, a) = A
      BY <2>4, <1>4, <1>9, <1>14 DEF Chain, b
    <3>2. d.buckets[a] = c.buckets[a]
      BY <2>4, <1>6, <1>7, <1>13 DEF SameChains
    <3>3. Same(h, R, Hnext(d), R2, A)
      BY <2>2 DEF Same
    <3> HIDE DEF A
    <3> QED
      BY <2>1, <3>1, <3>2, <3>3, SameLinked
  <2> QED
    BY <2>3, <2>4
<1>20. d.count = Cardinality(W)
  <2>1. IsFiniteSet(U)
    BY <1>2, PoolFinite
  <2>2. Cardinality(W) = Cardinality(U) + 1
    BY <2>1, <1>4, FS_AddElement
  <2> QED
    BY <2>2, <1>1, <1>6, <1>13 DEF Shape
<1>21. \A s \in W : Key(d)[s] \in Keys
  BY <1>1, <1>9, <1>14 DEF Shape
<1>22. \A s, u \in W : Key(d)[s] = Key(d)[u] => s = u
  BY <1>1, <1>9, <1>14 DEF Shape
<1>23. Shape(d, W, R2, m + 1)
  BY <1>12, <1>14, <1>16, <1>18, <1>19, <1>20, <1>21, <1>22 DEF Shape
<1>24. W \in SUBSET Slots
  BY <1>2, <1>4
<1> HIDE DEF W
<1>25. Well(d, W)
  BY <1>13, <1>15, <1>23, <1>24 DEF Well
<1> QED
  BY <1>4, <1>5, <1>14, <1>25 DEF idx, W

\* The emit() calls of table c that carried query context i, response context r.
CarryingIn(c, i) == {n \in DOMAIN c.emitted : c.emitted[n].query = i}
PassingIn(c, r) == {n \in DOMAIN c.emitted : c.emitted[n].response = r}

\* How often query context i was handed back.
Back(c, i) == Cardinality(CarryingIn(c, i))

\* The responses passed on, and with which query, are the same in c and d.
SamePassing(c, d) ==
    \A r \in Nat \ {0} : /\ PassingIn(d, r) = PassingIn(c, r)
                         /\ \A n \in PassingIn(c, r) : d.emitted[n] = c.emitted[n]

\* One more emission.
LEMMA EmittedOne ==
    ASSUME NEW c, NEW d, c.emitted \in Seq(Emission), NEW e \in Emission, d.emitted = Append(c.emitted, e)
    PROVE  /\ Len(d.emitted) = Len(c.emitted) + 1 /\ d.emitted[Len(c.emitted) + 1] = e
           /\ DOMAIN d.emitted = DOMAIN c.emitted \cup {Len(c.emitted) + 1}
           /\ Len(c.emitted) + 1 \notin DOMAIN c.emitted
           /\ \A n \in DOMAIN c.emitted : d.emitted[n] = c.emitted[n]
           /\ d.emitted \in Seq(Emission)
  OBVIOUS

\* A context is handed back a finite number of times.
LEMMA BackNat ==
    ASSUME NEW c, c.emitted \in Seq(Emission), NEW i
    PROVE  IsFiniteSet(CarryingIn(c, i)) /\ Back(c, i) \in Nat
<1>1. DOMAIN c.emitted = 1..Len(c.emitted) /\ Len(c.emitted) \in Nat
  OBVIOUS
<1>2. IsFiniteSet(1..Len(c.emitted))
  BY <1>1, FS_Interval
<1>3. CarryingIn(c, i) \subseteq 1..Len(c.emitted)
  BY <1>1 DEF CarryingIn
<1> QED
  BY <1>2, <1>3, FS_Subset, FS_CardinalityType DEF Back

\* Context i is handed back once more than before if it is q, and otherwise as often.
OneMore(c, d, i, q) == Back(c, i) \in Nat /\ Back(d, i) = Back(c, i) + (IF i = q THEN 1 ELSE 0)

\* One more emission hands one context back once more.
LEMMA BackOne ==
    ASSUME NEW c, NEW d, c.emitted \in Seq(Emission), NEW e \in Emission, d.emitted = Append(c.emitted, e),
           NEW i \in Nat
    PROVE  OneMore(c, d, i, e.query)
<1> DEFINE N == Len(c.emitted) + 1
           A == CarryingIn(c, i)
<1>1. /\ d.emitted[N] = e /\ DOMAIN d.emitted = DOMAIN c.emitted \cup {N} /\ N \notin DOMAIN c.emitted
      /\ \A n \in DOMAIN c.emitted : d.emitted[n] = c.emitted[n]
  BY EmittedOne
<1>2. IsFiniteSet(A) /\ Cardinality(A) \in Nat
  BY BackNat DEF Back
<1> HIDE DEF N
<1>3. CarryingIn(d, i) = IF i = e.query THEN A \cup {N} ELSE A
  BY <1>1 DEF CarryingIn
<1>4. N \notin A
  BY <1>1 DEF CarryingIn
<1>5. Cardinality(A \cup {N}) = Cardinality(A) + 1
  BY <1>2, <1>4, FS_AddElement
<1> HIDE DEF A
<1>6. CASE i = e.query
  BY <1>2, <1>3, <1>5, <1>6 DEF OneMore, Back, A
<1>7. CASE i # e.query
  BY <1>2, <1>3, <1>7 DEF OneMore, Back, A
<1> QED
  BY <1>6, <1>7

\* An emission without a response passes none on.
LEMMA PassingOne ==
    ASSUME NEW c, NEW d, c.emitted \in Seq(Emission),
           NEW e \in Emission, d.emitted = Append(c.emitted, e), e.response = 0
    PROVE  SamePassing(c, d)
<1> DEFINE N == Len(c.emitted) + 1
<1>1. /\ d.emitted[N] = e /\ DOMAIN d.emitted = DOMAIN c.emitted \cup {N}
      /\ \A n \in DOMAIN c.emitted : d.emitted[n] = c.emitted[n]
  BY EmittedOne
<1> HIDE DEF N
<1> QED
  BY <1>1 DEF SamePassing, PassingIn

\* The contexts of the slots U.
Pend(c, U) == {Ctx(c)[s] : s \in U}

\* d is c after the entries U \ V were evicted as unanswered.
Swept(c, d, U, V) ==
    /\ V \in SUBSET U /\ Well(d, V) /\ SameData(c, d)
    /\ d.stats = [c.stats EXCEPT !["unanswered"] = @ + Cardinality(U \ V)]
    /\ \A i \in Nat : Back(d, i) = Back(c, i) + (IF i \in Pend(c, U \ V) THEN 1 ELSE 0)
    /\ SamePassing(c, d)

\* Contexts in use are distinct.
LEMMA CtxDistinct ==
    ASSUME NEW c, NEW U, Well(c, U)
    PROVE  \A s, u \in U : Ctx(c)[s] = Ctx(c)[u] => s = u
  BY DEF Well, Shape, FifoOK, Linked

\* Nothing was evicted yet.
LEMMA SweptNone ==
    ASSUME NEW c, NEW U, Well(c, U)
    PROVE  Swept(c, c, U, U)
<1>1. c \in Table /\ c.emitted \in Seq(Emission) /\ c.stats \in [Counters -> Nat]
  BY TableFields DEF Well
<1>2. \A i \in Nat : Back(c, i) \in Nat
  BY <1>1, BackNat
<1>3. Cardinality(U \ U) = 0 /\ Pend(c, U \ U) = {}
  <2>1. U \ U = {}
    OBVIOUS
  <2> QED
    BY <2>1, FS_EmptySet DEF Pend
<1>4. c.stats = [c.stats EXCEPT !["unanswered"] = @ + Cardinality(U \ U)]
  BY <1>1, <1>3 DEF Counters
<1>5. SamePassing(c, c)
  BY DEF SamePassing
<1>6. SameData(c, c)
  BY DEF SameData
<1> QED
  BY <1>2, <1>3, <1>4, <1>5, <1>6 DEF Swept

\* One eviction more.
LEMMA SweptOne ==
    ASSUME NEW c, NEW d, NEW U, NEW V, Well(c, U), Swept(c, d, U, V), NEW idx \in V
    PROVE  Swept(c, evict_as_unanswered(d, idx, "unanswered"), U, V \ {idx})
<1> DEFINE f == evict_as_unanswered(d, idx, "unanswered")
           x == Ctx(d)[idx]
           e == [outcome |-> "UNANSWERED", query |-> x, response |-> 0, rtt_valid |-> FALSE]
           W == V \ {idx}
<1>1. Gone(d, f, V, idx, "unanswered", 0, FALSE, "UNANSWERED")
  BY EvictEffect DEF Swept, Counters
<1> HIDE DEF f
<1>2. Well(d, V) /\ d \in Table /\ d.emitted \in Seq(Emission) /\ c \in Table /\ c.stats \in [Counters -> Nat]
      /\ c.emitted \in Seq(Emission) /\ V \in SUBSET U /\ U \in SUBSET Slots
  BY TableFields DEF Swept, Well
<1>3. x \in Nat /\ x = Ctx(c)[idx]
  BY <1>2, LinkTypes DEF Swept, SameData
<1> HIDE DEF x
<1>4. e \in Emission /\ e.query = x /\ e.response = 0 /\ f.emitted = Append(d.emitted, e)
  BY <1>1, <1>3 DEF Emission, Gone, x
<1> HIDE DEF e
<1>5. W \in SUBSET U /\ Well(f, W) /\ SameData(c, f)
  BY <1>1, <1>2 DEF Gone, Swept, SameData
<1>6. U \ W = (U \ V) \cup {idx} /\ idx \notin U \ V
  BY <1>2
<1>7. IsFiniteSet(U \ V) /\ Cardinality(U \ V) \in Nat /\ Cardinality(U \ W) = Cardinality(U \ V) + 1
  <2>1. IsFiniteSet(U \ V) /\ Cardinality(U \ V) \in Nat
    BY <1>2, PoolFinite
  <2> QED
    BY <2>1, <1>6, FS_AddElement
<1>8. f.stats = [c.stats EXCEPT !["unanswered"] = @ + Cardinality(U \ W)]
  <2> DEFINE n == Cardinality(U \ V)
             n1 == Cardinality(U \ W)
  <2>1. n \in Nat /\ n1 = n + 1
    BY <1>7
  <2>2. d.stats = [c.stats EXCEPT !["unanswered"] = @ + n] /\ f.stats = [d.stats EXCEPT !["unanswered"] = @ + 1]
    BY <1>1 DEF Swept, Gone
  <2> HIDE DEF n, n1
  <2>3. f.stats = [c.stats EXCEPT !["unanswered"] = @ + n1]
    BY <2>1, <2>2, <1>2 DEF Counters
  <2> QED
    BY <2>3 DEF n1
<1>9. \A s, u \in U : Ctx(c)[s] = Ctx(c)[u] => s = u
  BY CtxDistinct
<1>10. Pend(c, U \ W) = Pend(c, U \ V) \cup {x} /\ x \notin Pend(c, U \ V)
  BY <1>2, <1>3, <1>6, <1>9 DEF Pend
<1>11. \A i \in Nat : Back(f, i) = Back(c, i) + (IF i \in Pend(c, U \ W) THEN 1 ELSE 0)
  <2> SUFFICES ASSUME NEW i \in Nat PROVE Back(f, i) = Back(c, i) + (IF i \in Pend(c, U \ W) THEN 1 ELSE 0)
    OBVIOUS
  <2>1. Back(d, i) \in Nat /\ Back(f, i) = Back(d, i) + (IF i = x THEN 1 ELSE 0)
    <3>1. OneMore(d, f, i, e.query)
      BY <1>2, <1>4, BackOne
    <3> QED
      BY <3>1, <1>4 DEF OneMore
  <2>2. Back(c, i) \in Nat
    BY <1>2, BackNat
  <2>3. Back(d, i) = Back(c, i) + (IF i \in Pend(c, U \ V) THEN 1 ELSE 0)
    BY DEF Swept
  <2> QED
    BY <2>1, <2>2, <2>3, <1>10
<1>12. SamePassing(c, f)
  <2>1. SamePassing(d, f)
    BY <1>2, <1>4, PassingOne
  <2> QED
    BY <2>1 DEF SamePassing, Swept
<1> QED
  BY <1>5, <1>8, <1>11, <1>12 DEF Swept, f

\* The first n numbers of P, cut off at the first that is not in E.
Prefix(P, E, n) == {i \in P : (\A j \in P : j <= i => j \in E) /\ Cardinality({j \in P : j <= i}) <= n}

\* o is the least number of S.
IsLeast(o, S) == o \in S /\ \A j \in S : o <= j

\* Nothing is in the first 0 numbers.
LEMMA PrefixNone ==
    ASSUME NEW P \in SUBSET Nat, IsFiniteSet(P), NEW E
    PROVE  Prefix(P, E, 0) = {}
<1> SUFFICES ASSUME NEW i \in Prefix(P, E, 0) PROVE FALSE
  OBVIOUS
<1> DEFINE A == {j \in P : j <= i}
<1>1. i \in P /\ Cardinality(A) <= 0
  BY DEF Prefix
<1>2. A \subseteq P /\ i \in A
  BY <1>1
<1> HIDE DEF A
<1>3. IsFiniteSet(A) /\ Cardinality(A) \in Nat /\ (Cardinality(A) = 0 <=> A = {})
  BY <1>2, FS_Subset, FS_CardinalityType, FS_EmptySet
<1> QED
  BY <1>1, <1>2, <1>3

\* The members of P up to a smaller member are fewer.
LEMMA Fewer ==
    ASSUME NEW P \in SUBSET Nat, IsFiniteSet(P), NEW i \in P, NEW j \in P, j <= i
    PROVE  /\ {l \in P : l <= j} \subseteq {l \in P : l <= i}
           /\ IsFiniteSet({l \in P : l <= i})
           /\ Cardinality({l \in P : l <= j}) \in Nat /\ Cardinality({l \in P : l <= i}) \in Nat
           /\ Cardinality({l \in P : l <= j}) <= Cardinality({l \in P : l <= i})
<1> DEFINE A == {l \in P : l <= i}
           B == {l \in P : l <= j}
<1>0. i \in Nat /\ j \in Nat /\ \A l \in P : l \in Nat
  OBVIOUS
<1>a. \A l \in P : l <= j => l <= i
  BY <1>0
<1>1. A \subseteq P /\ B \subseteq A
  BY <1>a
<1> HIDE DEF A, B
<1>2. IsFiniteSet(A) /\ IsFiniteSet(B) /\ Cardinality(A) \in Nat /\ Cardinality(B) \in Nat
      /\ Cardinality(B) <= Cardinality(A)
  BY <1>1, FS_Subset, FS_CardinalityType
<1> QED
  BY <1>1, <1>2 DEF A, B

\* One more step of the walk along P: the prefix grows by the least number left,
\* when there is one and it is in E.
LEMMA PrefixStep ==
    ASSUME NEW P \in SUBSET Nat, IsFiniteSet(P), NEW E, NEW n \in Nat, Cardinality(Prefix(P, E, n)) <= n
    PROVE  /\ P \ Prefix(P, E, n) = {} => Prefix(P, E, n + 1) = Prefix(P, E, n)
           /\ \A o : IsLeast(o, P \ Prefix(P, E, n)) =>
                 IF o \in E THEN Prefix(P, E, n + 1) = Prefix(P, E, n) \cup {o}
                 ELSE Prefix(P, E, n + 1) = Prefix(P, E, n)
           /\ Cardinality(Prefix(P, E, n)) \in Nat /\ IsFiniteSet(Prefix(P, E, n))
<1> DEFINE X == Prefix(P, E, n)
           Y == Prefix(P, E, n + 1)
           Upto(i) == {j \in P : j <= i}
           N(i) == Cardinality(Upto(i))
<1>1. \A i : i \in X <=> i \in P /\ (\A j \in P : j <= i => j \in E) /\ N(i) <= n
  BY DEF Prefix
<1>2. \A i : i \in Y <=> i \in P /\ (\A j \in P : j <= i => j \in E) /\ N(i) <= n + 1
  BY DEF Prefix
<1>3. \A i \in P : N(i) \in Nat /\ IsFiniteSet(Upto(i)) /\ Upto(i) \subseteq P
  BY Fewer
<1>4. \A i, j \in P : j <= i => N(j) <= N(i) /\ Upto(j) \subseteq Upto(i)
  BY Fewer
<1>5. X \subseteq P /\ IsFiniteSet(X) /\ Cardinality(X) \in Nat /\ Cardinality(X) <= n
  <2>1. X \subseteq P
    BY <1>1
  <2> QED
    BY <2>1, FS_Subset, FS_CardinalityType
<1>d. \A i, j : j \in Upto(i) <=> j \in P /\ j <= i
  OBVIOUS
<1> HIDE DEF X, Y, Upto, N
<1>6. X \subseteq Y
  <2> SUFFICES ASSUME NEW i \in X PROVE i \in Y
    OBVIOUS
  <2>1. i \in P /\ (\A j \in P : j <= i => j \in E) /\ N(i) <= n
    BY <1>1
  <2>2. N(i) <= n + 1
    BY <2>1, <1>3
  <2> QED
    BY <2>1, <2>2, <1>2
<1>7. ASSUME NEW o, IsLeast(o, P \ X)
      PROVE  IF o \in E THEN Y = X \cup {o} ELSE Y = X
  <2>1. o \in P /\ o \notin X /\ o \in Nat /\ \A j \in P \ X : o <= j
    BY <1>7 DEF IsLeast
  <2>2. \A i \in X, j \in P : j <= i => j \in X
    <3> SUFFICES ASSUME NEW i \in X, NEW j \in P, j <= i PROVE j \in X
      OBVIOUS
    <3>1. i \in P /\ i \in Nat /\ j \in Nat
      BY <1>5
    <3>2. \A l \in P : l <= j => l <= i
      <4> SUFFICES ASSUME NEW l \in P, l <= j PROVE l <= i
        OBVIOUS
      <4>1. l \in Nat
        OBVIOUS
      <4> QED
        BY <4>1, <3>1
    <3>3. N(j) <= N(i) /\ N(i) <= n /\ N(j) \in Nat /\ N(i) \in Nat
      BY <3>1, <1>1, <1>3, <1>4
    <3> QED
      BY <3>1, <3>2, <3>3, <1>1
  <2>3. Upto(o) = X \cup {o}
    <3>1. ASSUME NEW j \in X PROVE j \in Upto(o)
      <4>1. j \in P /\ j \in Nat /\ j # o
        BY <1>5, <2>1
      <4>2. ~(o <= j)
        BY <4>1, <2>1, <2>2
      <4> QED
        BY <4>1, <4>2, <2>1, <1>d
    <3>2. ASSUME NEW j \in Upto(o), j \notin X PROVE j = o
      <4>1. j \in P /\ j <= o /\ j \in Nat /\ o <= j
        BY <3>2, <1>d, <2>1
      <4> QED
        BY <4>1, <2>1
    <3>3. o \in Upto(o)
      BY <2>1, <1>d
    <3> QED
      BY <3>1, <3>2, <3>3
  <2>4. N(o) = Cardinality(X) + 1
    BY <2>1, <2>3, <1>5, FS_AddElement DEF N
  <2>5. CASE o \in E
    <3>1. \A j \in P : j <= o => j \in E
      BY <2>5, <2>1, <2>3, <1>1, <1>5, <1>d
    <3>2. Cardinality(X) = n
      <4>1. ~(N(o) <= n)
        BY <3>1, <2>1, <1>1
      <4> QED
        BY <4>1, <2>4, <1>5
    <3>3. o \in Y
      BY <3>1, <3>2, <2>1, <2>4, <1>2
    <3>4. ASSUME NEW i \in Y, i \notin X, i # o PROVE FALSE
      <4>a. i \in P /\ N(i) <= n + 1
        BY <3>4, <1>2
      <4>b. i \in Nat /\ o <= i /\ o # i
        BY <3>4, <4>a, <2>1
      <4>1. i \in P /\ i \in Nat /\ o < i /\ o <= i /\ N(i) <= n + 1
        BY <4>a, <4>b, <2>1
      <4>2. Upto(o) \subseteq Upto(i) /\ i \in Upto(i) /\ i \notin Upto(o)
        BY <4>1, <2>1, <1>4, <1>d
      <4>3. Cardinality(Upto(o)) < Cardinality(Upto(i))
        <5>1. IsFiniteSet(Upto(i)) /\ IsFiniteSet(Upto(o)) /\ N(i) \in Nat /\ N(o) \in Nat
          BY <4>1, <2>1, <1>3
        <5>2. Upto(o) \cup {i} \subseteq Upto(i)
          BY <4>2
        <5>3. Cardinality(Upto(o) \cup {i}) = Cardinality(Upto(o)) + 1
          BY <5>1, <4>2, FS_AddElement
        <5>4. Cardinality(Upto(o) \cup {i}) <= Cardinality(Upto(i))
          BY <5>1, <5>2, FS_Subset
        <5> QED
          BY <5>1, <5>3, <5>4 DEF N
      <4> QED
        BY <4>1, <4>3, <2>4, <3>2, <1>3 DEF N
    <3> QED
      BY <3>3, <3>4, <2>5, <1>6
  <2>6. CASE o \notin E
    <3>1. ASSUME NEW i \in Y, i \notin X PROVE FALSE
      <4>1. i \in P /\ o <= i /\ \A j \in P : j <= i => j \in E
        BY <3>1, <1>2, <2>1
      <4> QED
        BY <4>1, <2>1, <2>6
    <3> QED
      BY <3>1, <2>6, <1>6
  <2> QED
    BY <2>5, <2>6
<1>8. P \ X = {} => Y = X
  BY <1>2, <1>6
<1> QED
  BY <1>5, <1>7, <1>8 DEF X, Y

\* One round of an eviction loop: the head goes, if its context is in E.
Round(d, E) ==
    IF d.fifo_head = NIL \/ Ctx(d)[d.fifo_head] \notin E THEN d
    ELSE evict_as_unanswered(d, d.fifo_head, "unanswered")

\* The head of the FIFO holds the oldest context in use.
LEMMA HeadOldest ==
    ASSUME NEW c, NEW U, Well(c, U)
    PROVE  /\ c.fifo_head = NIL <=> U = {}
           /\ c.fifo_head # NIL => c.fifo_head \in U /\ IsLeast(Ctx(c)[c.fifo_head], Pend(c, U))
<1>1. c \in Table /\ U \in SUBSET Slots /\ Linked(FifoNext(c), c.fifo_head, Neg(Ctx(c)), U)
  BY DEF Well, Shape, FifoOK
<1>2. Ctx(c) \in [Slots -> Nat]
  BY <1>1, LinkTypes
<1>3. \A s \in U : Neg(Ctx(c))[s] = -Ctx(c)[s] /\ Ctx(c)[s] \in Nat
  BY <1>1, <1>2 DEF Neg
<1>4. IF c.fifo_head = NIL THEN U = {} ELSE c.fifo_head \in U /\ \A u \in U : Neg(Ctx(c))[u] <= Neg(Ctx(c))[c.fifo_head]
  BY <1>1 DEF Linked
<1>5. c.fifo_head # NIL => \A u \in U : Ctx(c)[c.fifo_head] <= Ctx(c)[u]
  BY <1>3, <1>4
<1> QED
  BY <1>4, <1>5 DEF IsLeast, Pend

\* The contexts in use are a finite set of numbers.
LEMMA PendFinite ==
    ASSUME NEW c, NEW U, Well(c, U)
    PROVE  Pend(c, U) \in SUBSET Nat /\ IsFiniteSet(Pend(c, U)) /\ Cardinality(Pend(c, U)) = Cardinality(U)
<1>1. c \in Table /\ U \in SUBSET Slots /\ IsFiniteSet(U)
  BY PoolFinite DEF Well
<1>2. Ctx(c) \in [Slots -> Nat]
  BY <1>1, LinkTypes
<1>3. Pend(c, U) \in SUBSET Nat
  BY <1>1, <1>2 DEF Pend
<1> DEFINE f == [s \in U |-> Ctx(c)[s]]
<1>4. f \in Bijection(U, Pend(c, U))
  <2>1. \A s, u \in U : Ctx(c)[s] = Ctx(c)[u] => s = u
    BY CtxDistinct
  <2>2. f \in [U -> Pend(c, U)] /\ IsInjective(f)
    BY <2>1 DEF Pend, IsInjective
  <2>3. \A x \in Pend(c, U) : \E s \in U : f[s] = x
    BY DEF Pend
  <2> HIDE DEF f
  <2> QED
    BY <2>2, <2>3 DEF Bijection, Injection, Surjection
<1>5. IsFiniteSet(Pend(c, U)) /\ Cardinality(Pend(c, U)) = Cardinality(U)
  <2> HIDE DEF f
  <2> QED
    BY <1>1, <1>4, FS_Bijection DEF ExistsBijection
<1> QED
  BY <1>3, <1>5

\* n rounds from c: the entries of the first n contexts of E are gone.
After(c, d, U, E, n) ==
    \E V \in SUBSET U : Swept(c, d, U, V) /\ Pend(c, V) = Pend(c, U) \ Prefix(Pend(c, U), E, n)
                        /\ Cardinality(Prefix(Pend(c, U), E, n)) <= n

\* Before the first round nothing is gone.
LEMMA AfterNone ==
    ASSUME NEW c, NEW U, Well(c, U), NEW E
    PROVE  After(c, c, U, E, 0)
<1>1. Prefix(Pend(c, U), E, 0) = {}
  BY PendFinite, PrefixNone
<1>2. Cardinality({}) = 0
  BY FS_EmptySet
<1>3. Swept(c, c, U, U)
  BY SweptNone
<1>4. Pend(c, U) = Pend(c, U) \ Prefix(Pend(c, U), E, 0) /\ Cardinality(Prefix(Pend(c, U), E, 0)) <= 0
      /\ U \in SUBSET U
  BY <1>1, <1>2
<1> QED
  BY <1>3, <1>4 DEF After

\* One more round takes the next expired context, or there is none.
LEMMA AfterOne ==
    ASSUME NEW c, NEW d, NEW U, Well(c, U), NEW E, NEW n \in Nat, After(c, d, U, E, n)
    PROVE  After(c, Round(d, E), U, E, n + 1)
<1> DEFINE P == Pend(c, U)
           X == Prefix(P, E, n)
           Y == Prefix(P, E, n + 1)
           h == d.fifo_head
           o == Ctx(d)[h]
<1>1. PICK V \in SUBSET U : Swept(c, d, U, V) /\ Pend(c, V) = P \ X /\ Cardinality(X) <= n
  BY DEF After
<1>2. Well(d, V) /\ Pend(d, V) = P \ X /\ Ctx(d) = Ctx(c)
  BY <1>1 DEF Swept, SameData, Pend
<1>3. P \in SUBSET Nat /\ IsFiniteSet(P)
  BY PendFinite
<1>4. /\ P \ X = {} => Y = X
      /\ \A p : IsLeast(p, P \ X) => IF p \in E THEN Y = X \cup {p} ELSE Y = X
      /\ Cardinality(X) \in Nat /\ IsFiniteSet(X)
  BY <1>1, <1>3, PrefixStep
<1>5. /\ h = NIL <=> V = {}
      /\ h # NIL => h \in V /\ IsLeast(o, P \ X)
  BY <1>2, HeadOldest
<1> HIDE DEF X, Y, P, h, o
<1>6. CASE h = NIL \/ o \notin E
  <2>1. Round(d, E) = d
    BY <1>6 DEF Round, h, o
  <2>2. Y = X
    <3>1. h = NIL => P \ X = {}
      BY <1>2, <1>5 DEF Pend
    <3> QED
      BY <3>1, <1>4, <1>5, <1>6
  <2>3. Swept(c, Round(d, E), U, V) /\ Pend(c, V) = P \ Y /\ Cardinality(Y) <= n + 1
    BY <1>1, <1>4, <2>1, <2>2
  <2> QED
    BY <2>3 DEF After, Y, P
<1>7. CASE ~(h = NIL \/ o \notin E)
  <2> DEFINE W == V \ {h}
             f == evict_as_unanswered(d, h, "unanswered")
  <2>1. h \in V /\ IsLeast(o, P \ X) /\ Y = X \cup {o} /\ o \notin X
    BY <1>4, <1>5, <1>7 DEF IsLeast
  <2>2. Round(d, E) = f
    BY <1>7 DEF Round, h, o
  <2>3. Swept(c, f, U, W)
    BY <1>1, <2>1, SweptOne
  <2>4. Pend(c, W) = P \ Y
    <3>1. \A s, u \in U : Ctx(c)[s] = Ctx(c)[u] => s = u
      BY CtxDistinct
    <3>2. o = Ctx(c)[h] /\ h \in U
      BY <1>2, <2>1 DEF o
    <3>3. Pend(c, W) = Pend(c, V) \ {o}
      BY <3>1, <3>2, <2>1 DEF Pend
    <3> QED
      BY <3>3, <1>1, <2>1
  <2>5. Cardinality(Y) <= n + 1
    <3>1. Cardinality(Y) = Cardinality(X) + 1
      BY <2>1, <1>4, FS_AddElement
    <3> QED
      BY <3>1, <1>1, <1>4
  <2>6. W \in SUBSET U
    OBVIOUS
  <2> HIDE DEF W, f
  <2> QED
    BY <2>2, <2>3, <2>4, <2>5, <2>6 DEF After, Y, P
<1> QED
  BY <1>6, <1>7

\* The rounds of a loop from c are well defined: the tables that can come up
\* are the ones with a sweep behind them.
LEMMA RoundsSwept ==
    ASSUME NEW c, NEW U, Well(c, U), NEW E, NEW N \in Nat
    PROVE  \E f \in [0..N -> Table] :
              /\ f[0] = c /\ \A n \in 1..N : f[n] = Round(f[n - 1], E)
              /\ \A n \in 0..N : After(c, f[n], U, E, n)
<1> DEFINE D == {d \in Table : \E n \in Nat : After(c, d, U, E, n)}
           G == [d \in D |-> Round(d, E)]
<1>1. c \in D
  BY AfterNone DEF Well
<1>2. ASSUME NEW d \in D PROVE Round(d, E) \in D
  <2>1. PICK n \in Nat : After(c, d, U, E, n)
    OBVIOUS
  <2>2. After(c, Round(d, E), U, E, n + 1) /\ n + 1 \in Nat
    BY <2>1, AfterOne
  <2>3. Round(d, E) \in Table
    BY <2>2 DEF After, Swept, Well
  <2> QED
    BY <2>2, <2>3
<1>3. G \in [D -> D]
  BY <1>2
<1>4. PICK f \in [0..N -> D] : Iterate(f, c, G, N)
  <2> HIDE DEF G, D
  <2> QED
    BY <1>1, <1>3, Iterates
<1>5. f[0] = c /\ \A n \in 1..N : f[n] = Round(f[n - 1], E)
  <2>1. \A n \in 1..N : n - 1 \in 0..N /\ f[n - 1] \in D
    OBVIOUS
  <2> HIDE DEF D
  <2> QED
    BY <2>1, <1>4 DEF Iterate
<1>6. \A n \in 0..N : After(c, f[n], U, E, n)
  <2> DEFINE P == {n \in 0..N : After(c, f[n], U, E, n)}
  <2>1. 0 \in P
    BY <1>5, AfterNone
  <2>2. ASSUME NEW n \in 1..N, n - 1 \in P PROVE n \in P
    <3>1. After(c, f[n - 1], U, E, n - 1) /\ n - 1 \in Nat /\ (n - 1) + 1 = n
      BY <2>2
    <3>2. After(c, Round(f[n - 1], E), U, E, (n - 1) + 1)
      BY <3>1, AfterOne
    <3> QED
      BY <3>1, <3>2, <1>5
  <2>3. 0..N \subseteq P
    <3> HIDE DEF P
    <3> QED
      BY <2>1, <2>2, UpTo
  <2> QED
    BY <2>3
<1>7. f \in [0..N -> Table]
  OBVIOUS
<1> QED
  BY <1>5, <1>6, <1>7

\* The entries that now has outlived, by context.
ExpiredIn(c, U, now) == {x \in Pend(c, U) : \E s \in U : Ctx(c)[s] = x /\ now - Time(c)[s] > Timeout}

\* In every table a loop from c can come to, the test of evict_expired() and
\* the test of a round agree.
LEMMA SameTest ==
    ASSUME NEW c, NEW d, NEW U, Well(c, U), NEW V, Swept(c, d, U, V), d.fifo_head # NIL, NEW now \in Int
    PROVE  now - d.entries[d.fifo_head].time <= Timeout <=> Ctx(d)[d.fifo_head] \notin ExpiredIn(c, U, now)
<1> DEFINE h == d.fifo_head
<1>1. h \in V /\ h \in U /\ h \in Slots /\ d \in Table /\ c \in Table
  <2>1. Well(d, V) /\ V \in SUBSET U
    BY DEF Swept
  <2> QED
    BY <2>1, HeadOldest DEF Well
<1>2. Ctx(d) = Ctx(c) /\ Time(d) = Time(c) /\ d.entries[h].time = Time(d)[h]
  BY <1>1 DEF Swept, SameData, Time
<1> HIDE DEF h
<1>3. Time(c)[h] \in Int /\ Timeout \in Int
  BY <1>1, LinkTypes, TimeoutAssumption
<1>4. \A s, u \in U : Ctx(c)[s] = Ctx(c)[u] => s = u
  BY CtxDistinct
<1>5. Ctx(c)[h] \in ExpiredIn(c, U, now) <=> now - Time(c)[h] > Timeout
  <2>1. Ctx(c)[h] \in ExpiredIn(c, U, now) <=> \E s \in U : Ctx(c)[s] = Ctx(c)[h] /\ now - Time(c)[s] > Timeout
    BY <1>1 DEF ExpiredIn, Pend
  <2> QED
    BY <2>1, <1>1, <1>4
<1> QED
  BY <1>2, <1>3, <1>5 DEF h

\* evict_expired(): at most budget of the oldest queries go, as long as they have expired.
LEMMA EvictExpiredEffect ==
    ASSUME NEW c, NEW U, Well(c, U), NEW now \in Int, NEW budget \in Nat
    PROVE  After(c, evict_expired(c, now, budget), U, ExpiredIn(c, U, now), budget)
<1> DEFINE E == ExpiredIn(c, U, now)
           W(f) == f = [n \in 0..budget |->
                 IF n = 0 THEN c
                 ELSE LET d == f[n - 1]
                 IN  IF d.fifo_head = NIL \/ now - d.entries[d.fifo_head].time <= Timeout
                     THEN d
                     ELSE evict_as_unanswered(d, d.fifo_head, "unanswered")]
           Step(d) == IF d.fifo_head = NIL \/ now - d.entries[d.fifo_head].time <= Timeout
                     THEN d
                     ELSE evict_as_unanswered(d, d.fifo_head, "unanswered")
<1>1. ASSUME NEW d, NEW n, After(c, d, U, E, n) PROVE Step(d) = Round(d, E)
  <2>1. PICK V : Swept(c, d, U, V)
    BY <1>1 DEF After
  <2>2. d.fifo_head # NIL => (now - d.entries[d.fifo_head].time <= Timeout <=> Ctx(d)[d.fifo_head] \notin E)
    BY <2>1, SameTest
  <2> QED
    BY <2>2 DEF Round
<1>w. \A f : W(f) <=> f = [n \in 0..budget |-> IF n = 0 THEN c ELSE Step(f[n - 1])]
  OBVIOUS
<1>4. evict_expired(c, now, budget) = (CHOOSE g : W(g))[budget]
  BY DEF evict_expired
<1> HIDE DEF E, Step, W
<1>2. PICK f \in [0..budget -> Table] :
              /\ f[0] = c /\ \A n \in 1..budget : f[n] = Round(f[n - 1], E)
              /\ \A n \in 0..budget : After(c, f[n], U, E, n)
  BY RoundsSwept
<1>3. W(f)
  <2>1. \A n \in 1..budget : n - 1 \in 0..budget /\ f[n] = Step(f[n - 1])
    BY <1>1, <1>2
  <2>2. f = [n \in 0..budget |-> IF n = 0 THEN c ELSE Step(f[n - 1])]
    BY <1>2, <2>1
  <2> QED
    BY <2>2, <1>w
<1> DEFINE g == CHOOSE x : W(x)
<1>5. W(g)
  BY <1>3
<1> HIDE DEF g
<1>6. g[0] = c /\ \A n \in 1..budget : g[n] = Step(g[n - 1])
  <2>1. g = [n \in 0..budget |-> IF n = 0 THEN c ELSE Step(g[n - 1])]
    BY <1>5, <1>w
  <2> QED
    BY <2>1
<1>7. \A n \in 0..budget : After(c, g[n], U, E, n)
  <2> DEFINE P == {n \in 0..budget : After(c, g[n], U, E, n)}
  <2>1. 0 \in P
    BY <1>6, AfterNone
  <2>2. ASSUME NEW n \in 1..budget, n - 1 \in P PROVE n \in P
    <3>1. After(c, g[n - 1], U, E, n - 1) /\ n - 1 \in Nat /\ (n - 1) + 1 = n
      BY <2>2
    <3>2. After(c, Round(g[n - 1], E), U, E, (n - 1) + 1)
      BY <3>1, AfterOne
    <3>3. g[n] = Round(g[n - 1], E)
      BY <3>1, <1>1, <1>6
    <3> QED
      BY <3>1, <3>2, <3>3
  <2>3. 0..budget \subseteq P
    <3> HIDE DEF P
    <3> QED
      BY <2>1, <2>2, UpTo
  <2> QED
    BY <2>3
<1>8. evict_expired(c, now, budget) = g[budget]
  BY <1>4 DEF g
<1>9. budget \in 0..budget
  OBVIOUS
<1> QED
  BY <1>7, <1>8, <1>9 DEF E

\* cf_dns_correlator_free(): the drain empties the table.
LEMMA DrainEffect ==
    ASSUME NEW c, NEW U, Well(c, U)
    PROVE  Swept(c, Drain(c), U, {})
<1> DEFINE E == Nat
           W(f) == f = [n \in 0..Capacity |->
                 IF n = 0 THEN c
                 ELSE LET d == f[n - 1]
                      IN  IF d.fifo_head = NIL THEN d
                          ELSE evict_as_unanswered(d, d.fifo_head, "unanswered")]
           Step(d) == IF d.fifo_head = NIL THEN d ELSE evict_as_unanswered(d, d.fifo_head, "unanswered")
<1>0. Capacity \in Nat
  BY CapacityAssumption
<1>1. ASSUME NEW d, NEW n, After(c, d, U, E, n) PROVE Step(d) = Round(d, E)
  <2>1. PICK V : Swept(c, d, U, V)
    BY <1>1 DEF After
  <2>2. d.fifo_head # NIL => Ctx(d)[d.fifo_head] \in E
    <3>1. Well(d, V) /\ d \in Table /\ V \in SUBSET Slots
      BY <2>1 DEF Swept, Well
    <3>2. d.fifo_head # NIL => d.fifo_head \in V
      BY <3>1, HeadOldest
    <3> QED
      BY <3>1, <3>2, LinkTypes
  <2> QED
    BY <2>2 DEF Round
<1>w. \A f : W(f) <=> f = [n \in 0..Capacity |-> IF n = 0 THEN c ELSE Step(f[n - 1])]
  OBVIOUS
<1>4. Drain(c) = (CHOOSE g : W(g))[Capacity]
  BY DEF Drain
<1> HIDE DEF E, Step, W
<1>2. PICK f \in [0..Capacity -> Table] :
              /\ f[0] = c /\ \A n \in 1..Capacity : f[n] = Round(f[n - 1], E)
              /\ \A n \in 0..Capacity : After(c, f[n], U, E, n)
  BY <1>0, RoundsSwept
<1>3. W(f)
  <2>1. \A n \in 1..Capacity : n - 1 \in 0..Capacity /\ f[n] = Step(f[n - 1])
    BY <1>0, <1>1, <1>2
  <2>2. f = [n \in 0..Capacity |-> IF n = 0 THEN c ELSE Step(f[n - 1])]
    BY <1>0, <1>2, <2>1
  <2> QED
    BY <2>2, <1>w
<1> DEFINE g == CHOOSE x : W(x)
<1>5. W(g)
  BY <1>3
<1> HIDE DEF g
<1>6. g[0] = c /\ \A n \in 1..Capacity : g[n] = Step(g[n - 1])
  <2>1. g = [n \in 0..Capacity |-> IF n = 0 THEN c ELSE Step(g[n - 1])]
    BY <1>5, <1>w
  <2> QED
    BY <1>0, <2>1
<1>7. \A n \in 0..Capacity : After(c, g[n], U, E, n)
  <2> DEFINE P == {n \in 0..Capacity : After(c, g[n], U, E, n)}
  <2>1. 0 \in P
    BY <1>0, <1>6, AfterNone
  <2>2. ASSUME NEW n \in 1..Capacity, n - 1 \in P PROVE n \in P
    <3>1. After(c, g[n - 1], U, E, n - 1) /\ n - 1 \in Nat /\ (n - 1) + 1 = n /\ n \in 0..Capacity
      BY <1>0, <2>2
    <3>2. After(c, Round(g[n - 1], E), U, E, (n - 1) + 1)
      BY <3>1, AfterOne
    <3>3. g[n] = Round(g[n - 1], E)
      BY <3>1, <1>1, <1>6
    <3> QED
      BY <3>1, <3>2, <3>3
  <2>3. 0..Capacity \subseteq P
    <3> HIDE DEF P
    <3> QED
      BY <1>0, <2>1, <2>2, UpTo
  <2> QED
    BY <2>3
<1>8. After(c, Drain(c), U, E, Capacity)
  BY <1>0, <1>4, <1>7 DEF g
<1>9. PICK V \in SUBSET U : Swept(c, Drain(c), U, V)
      /\ Pend(c, V) = Pend(c, U) \ Prefix(Pend(c, U), E, Capacity)
  BY <1>8 DEF After
<1>10. Prefix(Pend(c, U), E, Capacity) = Pend(c, U)
  <2> DEFINE P == Pend(c, U)
  <2>1. P \in SUBSET Nat /\ IsFiniteSet(P) /\ Cardinality(P) \in 0..Capacity
    <3>1. Cardinality(U) \in 0..Capacity
      BY PoolFinite DEF Well
    <3> QED
      BY <3>1, PendFinite
  <2> HIDE DEF P
  <2>2. ASSUME NEW i \in P PROVE Cardinality({j \in P : j <= i}) <= Capacity
    <3> DEFINE A == {j \in P : j <= i}
    <3>1. A \subseteq P
      OBVIOUS
    <3> HIDE DEF A
    <3>2. Cardinality(A) <= Cardinality(P) /\ IsFiniteSet(A)
      BY <3>1, <2>1, FS_Subset
    <3>3. Cardinality(A) \in Nat
      BY <3>2, FS_CardinalityType
    <3> QED
      BY <3>2, <3>3, <2>1, <1>0 DEF A
  <2>3. Prefix(P, E, Capacity) = P
    BY <2>1, <2>2 DEF Prefix, E
  <2> QED
    BY <2>3 DEF P
<1>11. V = {}
  <2>1. Pend(c, V) = {}
    BY <1>9, <1>10
  <2>2. \A s \in V : Ctx(c)[s] \in Pend(c, V)
    BY DEF Pend
  <2> QED
    BY <2>1, <2>2
<1> QED
  BY <1>9, <1>11

\* Every entry in use is the new one, (k, tm, x), or was in use with the same data.
Kept(c, d, U, W, k, tm, x) ==
    \A s \in W : \/ Key(d)[s] = k /\ Time(d)[s] = tm /\ Ctx(d)[s] = x
                 \/ s \in U /\ Key(d)[s] = Key(c)[s] /\ Time(d)[s] = Time(c)[s] /\ Ctx(d)[s] = Ctx(c)[s]

\* A step of the table that hands back the contexts H and admits the contexts A.
Admits(c, d, U, W, H, A, k, tm, x) ==
    /\ Well(d, W) /\ Pend(d, W) = (Pend(c, U) \ H) \cup A
    /\ \A i \in Nat : Back(d, i) = Back(c, i) + (IF i \in H THEN 1 ELSE 0)
    /\ SamePassing(c, d)
    /\ Kept(c, d, U, W, k, tm, x)

\* One counter raised.
Raised(st, counter) == [st EXCEPT ![counter] = @ + 1]

\* A step that admits and raises a counter.
AdmitsCounting(c, d, U, H, A, k, tm, x, counter) ==
    \E W \in SUBSET Slots : Admits(c, d, U, W, H, A, k, tm, x) /\ d.stats = Raised(c.stats, counter)

\* A step that admits and leaves the counters alone.
AdmitsQuietly(c, d, U, H, A, k, tm, x) ==
    \E W \in SUBSET Slots : Admits(c, d, U, W, H, A, k, tm, x) /\ SameBooks(c, d)

\* The emission that hands back query context x.
Unanswered(x) == [outcome |-> "UNANSWERED", query |-> x, response |-> 0, rtt_valid |-> FALSE]

\* It is an emission, with that query and no response.
LEMMA UnansweredIs ==
    ASSUME NEW x \in Nat
    PROVE  Unanswered(x) \in Emission /\ Unanswered(x).query = x /\ Unanswered(x).response = 0
  BY DEF Unanswered, Emission

\* One more UNANSWERED emission.
LEMMA UnansweredOne ==
    ASSUME NEW c, NEW d, c.emitted \in Seq(Emission),
           NEW x \in Nat, d.emitted = Append(c.emitted, Unanswered(x))
    PROVE  /\ \A i \in Nat : Back(d, i) = Back(c, i) + (IF i \in {x} THEN 1 ELSE 0)
           /\ SamePassing(c, d)
<1>1. PICK e \in Emission : e.query = x /\ e.response = 0 /\ d.emitted = Append(c.emitted, e)
  BY UnansweredIs
<1>2. \A i \in Nat : Back(c, i) \in Nat /\ Back(d, i) = Back(c, i) + (IF i = e.query THEN 1 ELSE 0)
  <2> TAKE i \in Nat
  <2>1. c.emitted \in Seq(Emission) /\ e \in Emission /\ d.emitted = Append(c.emitted, e) /\ i \in Nat
    BY <1>1
  <2>2. OneMore(c, d, i, e.query)
    BY <2>1, BackOne
  <2> QED
    BY <2>2 DEF OneMore
<1>3. SamePassing(c, d)
  BY <1>1, PassingOne
<1>4. \A i \in Nat : Back(d, i) = Back(c, i) + (IF i \in {x} THEN 1 ELSE 0)
  BY <1>1, <1>2
<1> QED
  BY <1>3, <1>4

\* One counter raised and one emission made, the lists left alone.
Noted(c, d, U, counter, outcome, q, r, v) ==
    /\ Well(d, U) /\ SameData(c, d)
    /\ d.stats = [c.stats EXCEPT ![counter] = @ + 1]
    /\ d.emitted = Append(c.emitted, [outcome |-> outcome, query |-> q, response |-> r, rtt_valid |-> v])

\* Count() and Emit() have that effect.
LEMMA NotedBy ==
    ASSUME NEW c, NEW U, Well(c, U), NEW counter \in Counters, NEW outcome \in Outcomes, NEW q \in Nat,
           NEW r \in Nat,
           NEW v \in BOOLEAN
    PROVE  Noted(c, Emit(Count(c, counter), outcome, q, r, v), U, counter, outcome, q, r, v)
<1> DEFINE c1 == Count(c, counter)
           d == Emit(c1, outcome, q, r, v)
<1>1. BooksOnly(c, c1) /\ c1.emitted = c.emitted /\ c1.stats = [c.stats EXCEPT ![counter] = @ + 1]
  BY CountEffect DEF Well
<1> HIDE DEF c1
<1>2. Well(c1, U) /\ SameData(c, c1) /\ c1 \in Table
  BY <1>1, BooksKeep DEF BooksOnly
<1>3. /\ BooksOnly(c1, d) /\ d.stats = c1.stats
      /\ d.emitted = Append(c1.emitted, [outcome |-> outcome, query |-> q, response |-> r, rtt_valid |-> v])
  BY <1>2, EmitEffect
<1> HIDE DEF d
<1>4. Well(d, U) /\ SameData(c1, d)
  BY <1>2, <1>3, BooksKeep
<1>5. SameData(c, d)
  BY <1>2, <1>4 DEF SameData
<1> QED
  BY <1>1, <1>3, <1>4, <1>5 DEF Noted, d, c1

\* A query context handed back with the counter raised.
NotedBack(c, d, U, counter, x) ==
    /\ Well(d, U) /\ SameData(c, d) /\ d.stats = [c.stats EXCEPT ![counter] = @ + 1]
    /\ d.emitted = Append(c.emitted, Unanswered(x))

\* Count() and Emit() of an unanswered query have that effect.
LEMMA NotedUnanswered ==
    ASSUME NEW c, NEW U, Well(c, U), NEW counter \in Counters, NEW x \in Nat
    PROVE  NotedBack(c, Emit(Count(c, counter), "UNANSWERED", x, 0, FALSE), U, counter, x)
<1> DEFINE d == Emit(Count(c, counter), "UNANSWERED", x, 0, FALSE)
<1>1. "UNANSWERED" \in Outcomes /\ FALSE \in BOOLEAN /\ 0 \in Nat
  BY DEF Outcomes
<1>2. Noted(c, d, U, counter, "UNANSWERED", x, 0, FALSE)
  BY <1>1, NotedBy
<1> QED
  BY <1>2 DEF Noted, NotedBack, Unanswered

\* Tables with the same emissions have handed back and passed on the same.
LEMMA NoEmission ==
    ASSUME NEW c, NEW d, d.emitted = c.emitted
    PROVE  (\A i : Back(d, i) = Back(c, i)) /\ SamePassing(c, d)
  BY DEF Back, CarryingIn, SamePassing, PassingIn

\* A same-key query: the entry's old context comes back and the new one takes its place.
LEMMA ReplaceEffect ==
    ASSUME NEW c, NEW U, Well(c, U), NEW idx \in U, NEW k \in Keys, Key(c)[idx] = k, NEW tm \in Int,
           NEW x \in Nat,
           Newest(c, U, x)
    PROVE  AdmitsCounting(c, Replace(c, idx, k, tm, x), U, {Ctx(c)[idx]}, {x}, k, tm, x, "collision")
<1> DEFINE o == Ctx(c)[idx]
           c2 == Emit(Count(c, "collision"), "UNANSWERED", o, 0, FALSE)
           d == fifo_append(fifo_unlink(WithData(c2, idx, k, tm, x), idx), idx)
<1>0. c \in Table /\ U \in SUBSET Slots /\ c.emitted \in Seq(Emission) /\ "collision" \in Counters
  BY TableFields DEF Well, Counters
<1>1. o \in Nat /\ c.entries[idx].ctx = o /\ Ctx(c) \in [Slots -> Nat]
      /\ Key(c) \in [Slots -> Keys \cup {NoKey}]
      /\ Time(c) \in [Slots -> Int]
  BY <1>0, LinkTypes DEF Ctx
<1>2. Replace(c, idx, k, tm, x) = d
  BY <1>1 DEF Replace, WithData
<1> HIDE DEF o
<1>5. NotedBack(c, c2, U, "collision", o)
  BY <1>0, <1>1, NotedUnanswered
<1>6. /\ Well(c2, U) /\ SameData(c, c2) /\ c2.stats = [c.stats EXCEPT !["collision"] = @ + 1]
      /\ c2.emitted = Append(c.emitted, Unanswered(o))
  BY <1>5 DEF NotedBack
<1> HIDE DEF c2
<1>7. Ctx(c2) = Ctx(c) /\ Key(c2) = Key(c) /\ Time(c2) = Time(c)
  BY <1>6 DEF SameData
<1>8. Well(d, U) /\ SameBooks(c2, d) /\ DataAt(c2, d, idx, k, tm, x)
  <2>1. Key(c2)[idx] = k /\ Newest(c2, U, x)
    BY <1>7 DEF Newest
  <2> QED
    BY <1>6, <2>1, ReplaceMove
<1> HIDE DEF d
<1>9. Key(d)[idx] = k /\ Time(d)[idx] = tm /\ Ctx(d)[idx] = x
      /\ \A s \in U \ {idx} : Key(d)[s] = Key(c)[s] /\ Time(d)[s] = Time(c)[s] /\ Ctx(d)[s] = Ctx(c)[s]
  BY <1>0, <1>1, <1>7, <1>8 DEF DataAt
<1>10. Kept(c, d, U, U, k, tm, x)
  BY <1>9 DEF Kept
<1>11. Pend(d, U) = (Pend(c, U) \ {o}) \cup {x}
  <2>1. \A s, u \in U : Ctx(c)[s] = Ctx(c)[u] => s = u
    BY CtxDistinct
  <2> QED
    BY <2>1, <1>9 DEF Pend, o
<1>12. d.stats = [c.stats EXCEPT !["collision"] = @ + 1]
       /\ d.emitted = Append(c.emitted, Unanswered(o))
  BY <1>6, <1>8 DEF SameBooks
<1>13. (\A i \in Nat : Back(d, i) = Back(c, i) + (IF i \in {o} THEN 1 ELSE 0)) /\ SamePassing(c, d)
  BY <1>0, <1>1, <1>12, UnansweredOne
<1>14. Admits(c, d, U, U, {o}, {x}, k, tm, x)
  BY <1>8, <1>10, <1>11, <1>13 DEF Admits
<1> QED
  BY <1>0, <1>2, <1>12, <1>14 DEF AdmitsCounting, Raised, o

\* A query under a key that is not pending, with a slot free.
LEMMA InsertEffect ==
    ASSUME NEW c, NEW U, Well(c, U), NEW k \in Keys, NEW tm \in Int, NEW x \in Nat, Newest(c, U, x),
           c.free_head # NIL, \A s \in U : Key(c)[s] # k
    PROVE  AdmitsQuietly(c, Insert(c, k, tm, x), U, {}, {x}, k, tm, x)
<1> DEFINE d == Insert(c, k, tm, x)
           idx == c.free_head
           W == U \cup {idx}
<1>1. idx \in Slots \ U /\ Well(d, W) /\ SameBooks(c, d) /\ DataAt(c, d, idx, k, tm, x)
  BY InsertKeeps
<1>2. c \in Table /\ U \in SUBSET Slots /\ c.emitted \in Seq(Emission)
  BY TableFields DEF Well
<1>3. Ctx(c) \in [Slots -> Nat] /\ Key(c) \in [Slots -> Keys \cup {NoKey}] /\ Time(c) \in [Slots -> Int]
  BY <1>2, LinkTypes
<1> HIDE DEF d, idx
<1>4. Key(d)[idx] = k /\ Time(d)[idx] = tm /\ Ctx(d)[idx] = x
      /\ \A s \in U : Key(d)[s] = Key(c)[s] /\ Time(d)[s] = Time(c)[s] /\ Ctx(d)[s] = Ctx(c)[s]
  BY <1>1, <1>2, <1>3 DEF DataAt
<1>5. Kept(c, d, U, W, k, tm, x)
  BY <1>4 DEF Kept
<1>6. Pend(d, W) = (Pend(c, U) \ {}) \cup {x}
  BY <1>4 DEF Pend
<1>7. (\A i : Back(d, i) = Back(c, i)) /\ SamePassing(c, d)
  BY <1>1, NoEmission DEF SameBooks
<1>8. \A i \in Nat : Back(d, i) = Back(c, i) + (IF i \in {} THEN 1 ELSE 0)
  BY <1>2, <1>7, BackNat
<1>9. W \in SUBSET Slots
  BY <1>1, <1>2
<1> HIDE DEF W
<1>10. Admits(c, d, U, W, {}, {x}, k, tm, x)
  BY <1>1, <1>5, <1>6, <1>7, <1>8 DEF Admits
<1> QED
  BY <1>1, <1>9, <1>10 DEF d, AdmitsQuietly

\* A full table under drop_oldest: the oldest query makes room.
LEMMA DropOldestEffect ==
    ASSUME NEW c, NEW U, Well(c, U), NEW k \in Keys, NEW tm \in Int, NEW x \in Nat, Newest(c, U, x),
           c.fifo_head # NIL, \A s \in U : Key(c)[s] # k
    PROVE  AdmitsCounting(c, Insert(evict_as_unanswered(c, c.fifo_head, "drop"), k, tm, x), U,
                          {Ctx(c)[c.fifo_head]}, {x}, k, tm, x, "drop")
<1> DEFINE h == c.fifo_head
           o == Ctx(c)[h]
           e == evict_as_unanswered(c, h, "drop")
           d == Insert(e, k, tm, x)
           V == U \ {h}
<1>1. h \in U /\ IsLeast(o, Pend(c, U))
  BY HeadOldest
<1>2. c \in Table /\ U \in SUBSET Slots /\ c.emitted \in Seq(Emission) /\ "drop" \in Counters
  BY TableFields DEF Well, Counters
<1>3. o \in Nat
  BY <1>1, <1>2, LinkTypes
<1>4. Gone(c, e, U, h, "drop", 0, FALSE, "UNANSWERED")
  <2> HIDE DEF h
  <2> QED
    BY <1>1, <1>2, EvictEffect
<1> HIDE DEF h, e
<1>5. /\ Well(e, V) /\ SameData(c, e) /\ e.stats = [c.stats EXCEPT !["drop"] = @ + 1]
      /\ e.emitted = Append(c.emitted, Unanswered(o))
  BY <1>4 DEF Gone, Unanswered
<1>6. Ctx(e) = Ctx(c) /\ Key(e) = Key(c) /\ Time(e) = Time(c)
  BY <1>5 DEF SameData
<1>7. \A s, u \in U : Ctx(c)[s] = Ctx(c)[u] => s = u
  BY CtxDistinct
<1>8. Pend(e, V) = Pend(c, U) \ {o}
  BY <1>1, <1>6, <1>7 DEF Pend
<1> HIDE DEF o
<1>9. (\A i \in Nat : Back(e, i) = Back(c, i) + (IF i \in {o} THEN 1 ELSE 0)) /\ SamePassing(c, e)
  BY <1>2, <1>3, <1>5, UnansweredOne
<1>10. e.free_head # NIL
  <2>1. PICK R \in [Slots -> Int], m \in Int : Shape(e, V, R, m)
    BY <1>5 DEF Well
  <2>2. h \in Slots \ V
    BY <1>1, <1>2
  <2> QED
    BY <2>1, <2>2 DEF Shape, Linked
<1>11. Newest(e, V, x) /\ \A s \in V : Key(e)[s] # k
  BY <1>6 DEF Newest
<1>12. PICK W \in SUBSET Slots : Admits(e, d, V, W, {}, {x}, k, tm, x) /\ SameBooks(e, d)
  <2> HIDE DEF V
  <2> QED
    BY <1>5, <1>10, <1>11, InsertEffect DEF AdmitsQuietly
<1> HIDE DEF d
<1>13. Pend(d, W) = (Pend(c, U) \ {o}) \cup {x}
  BY <1>8, <1>12 DEF Admits
<1>14. \A i \in Nat : Back(d, i) = Back(c, i) + (IF i \in {o} THEN 1 ELSE 0)
  <2> SUFFICES ASSUME NEW i \in Nat PROVE Back(d, i) = Back(c, i) + (IF i \in {o} THEN 1 ELSE 0)
    OBVIOUS
  <2>1. Back(d, i) = Back(e, i) + 0 /\ Back(e, i) = Back(c, i) + (IF i \in {o} THEN 1 ELSE 0)
    BY <1>9, <1>12 DEF Admits
  <2>2. Back(c, i) \in Nat
    BY <1>2, BackNat
  <2> QED
    BY <2>1, <2>2
<1>15. SamePassing(c, d)
  BY <1>9, <1>12 DEF Admits, SamePassing
<1>16. Kept(c, d, U, W, k, tm, x)
  BY <1>6, <1>12 DEF Admits, Kept
<1>17. d.stats = [c.stats EXCEPT !["drop"] = @ + 1]
  BY <1>5, <1>12 DEF SameBooks
<1>18. Admits(c, d, U, W, {o}, {x}, k, tm, x)
  BY <1>12, <1>13, <1>14, <1>15, <1>16 DEF Admits
<1> QED
  BY <1>17, <1>18 DEF AdmitsCounting, Raised, d, e, h, o

\* A full table under drop_newest: the query itself comes back.
LEMMA DropNewestEffect ==
    ASSUME NEW c, NEW U, Well(c, U), NEW k, NEW tm, NEW x \in Nat, Newest(c, U, x)
    PROVE  AdmitsCounting(c, Emit(Count(c, "drop"), "UNANSWERED", x, 0, FALSE), U, {x}, {}, k, tm, x, "drop")
<1> DEFINE d == Emit(Count(c, "drop"), "UNANSWERED", x, 0, FALSE)
<1>0. c \in Table /\ U \in SUBSET Slots /\ c.emitted \in Seq(Emission) /\ "drop" \in Counters
  BY TableFields DEF Well, Counters
<1>1. /\ Well(d, U) /\ SameData(c, d) /\ d.stats = [c.stats EXCEPT !["drop"] = @ + 1]
      /\ d.emitted = Append(c.emitted, Unanswered(x))
  <2>1. NotedBack(c, d, U, "drop", x)
    BY <1>0, NotedUnanswered
  <2> QED
    BY <2>1 DEF NotedBack
<1> HIDE DEF d
<1>5. Ctx(d) = Ctx(c) /\ Key(d) = Key(c) /\ Time(d) = Time(c)
  BY <1>1 DEF SameData
<1>6. (\A i \in Nat : Back(d, i) = Back(c, i) + (IF i \in {x} THEN 1 ELSE 0)) /\ SamePassing(c, d)
  BY <1>0, <1>1, UnansweredOne
<1>7. Pend(d, U) = (Pend(c, U) \ {x}) \cup {}
  <2>1. Ctx(c) \in [Slots -> Nat]
    BY <1>0, LinkTypes
  <2>2. x \notin Pend(c, U)
    BY <1>0, <2>1 DEF Newest, Pend
  <2> QED
    BY <2>2, <1>5 DEF Pend
<1>8. Kept(c, d, U, U, k, tm, x)
  BY <1>5 DEF Kept
<1>9. Admits(c, d, U, U, {x}, {}, k, tm, x)
  BY <1>1, <1>6, <1>7, <1>8 DEF Admits
<1> QED
  BY <1>0, <1>1, <1>9 DEF AdmitsCounting, Raised, d

\* The queries offered so far.
History == Seq([key : Keys, time : Times])

\* The entries in U are queries of the history q, their contexts being their numbers.
Agrees(c, U, q) ==
    \A s \in U : /\ Ctx(c)[s] \in 1..Len(q)
                 /\ q[Ctx(c)[s]].key = Key(c)[s] /\ q[Ctx(c)[s]].time = Time(c)[s]

\* The queries of S with key k.
Kin(q, S, k) == {i \in S : q[i].key = k}

\* The queries of S that have outlived the timeout at now.
Late(q, S, now) == {i \in S : now - q[i].time > Timeout}

\* An entry has outlived the timeout when its query has.
LEMMA LateIs ==
    ASSUME NEW c, NEW U, Well(c, U), NEW q, Agrees(c, U, q), NEW now
    PROVE  ExpiredIn(c, U, now) = Late(q, Pend(c, U), now)
  BY DEF ExpiredIn, Late, Pend, Agrees

\* Eviction takes the contexts of the entries it takes.
SweptContexts(c, d, U, V) ==
    /\ Pend(c, U \ V) = Pend(c, U) \ Pend(c, V)
    /\ Cardinality(Pend(c, U) \ Pend(c, V)) = Cardinality(U \ V)
    /\ Pend(d, V) = Pend(c, V)

\* The contexts of different entries are different, so it does.
LEMMA SweptCounts ==
    ASSUME NEW c, NEW d, NEW U, NEW V, Well(c, U), Swept(c, d, U, V)
    PROVE  SweptContexts(c, d, U, V)
<1>1. Well(d, V) /\ V \in SUBSET U /\ SameData(c, d) /\ U \in SUBSET Slots
  BY DEF Swept, Well
<1>2. Pend(d, V) = Pend(c, V)
  BY <1>1 DEF Pend, SameData
<1>3. \A s, u \in U : Ctx(c)[s] = Ctx(c)[u] => s = u
  BY CtxDistinct
<1>4. Pend(c, U \ V) = Pend(c, U) \ Pend(c, V)
  BY <1>1, <1>3 DEF Pend
<1>5. Pend(c, V) \subseteq Pend(c, U)
  BY <1>1 DEF Pend
<1> DEFINE P == Pend(c, U)
           Q == Pend(c, V)
<1>6. IsFiniteSet(P) /\ Cardinality(P) = Cardinality(U)
  BY PendFinite
<1>7. Cardinality(Q) = Cardinality(V)
  BY <1>1, <1>2, PendFinite
<1>8. P \cap Q = Q
  BY <1>5
<1>9. Cardinality(P \ Q) = Cardinality(P) - Cardinality(Q)
  <2> HIDE DEF P, Q
  <2> QED
    BY <1>6, <1>8, FS_Difference
<1>10. Cardinality(U \ V) = Cardinality(U) - Cardinality(V)
  <2>1. IsFiniteSet(U)
    BY <1>1, PoolFinite
  <2>2. U \cap V = V
    BY <1>1
  <2> QED
    BY <2>1, <2>2, FS_Difference
<1> QED
  BY <1>2, <1>4, <1>6, <1>7, <1>9, <1>10 DEF SweptContexts

\* The entries that stay are still queries of the history.
LEMMA SweptAgrees ==
    ASSUME NEW c, NEW d, NEW U, NEW V, NEW q, Agrees(c, U, q), Swept(c, d, U, V)
    PROVE  Agrees(d, V, q)
  BY DEF Agrees, Swept, SameData

\* What the lookup finds is the pending query of the key.
LEMMA KinFound ==
    ASSUME NEW c, NEW U, Well(c, U), NEW q, Agrees(c, U, q), NEW k \in Keys
    PROVE  LET i == entry_find(c, k)
           IN  /\ i = NIL => Kin(q, Pend(c, U), k) = {} /\ \A s \in U : Key(c)[s] # k
               /\ i # NIL => i \in U /\ Key(c)[i] = k /\ Kin(q, Pend(c, U), k) = {Ctx(c)[i]}
<1> DEFINE i == entry_find(c, k)
<1>1. PICK R \in [Slots -> Int], m \in Int : Shape(c, U, R, m)
  BY DEF Well
<1>2. Found(c, U, k, i)
  BY <1>1, FindFinds DEF Well
<1>3. \A s, u \in U : Key(c)[s] = Key(c)[u] => s = u
  BY <1>1 DEF Shape
<1>4. NIL \notin U
  BY DEF Well, NIL, Slots
<1> HIDE DEF i
<1>5. ASSUME i = NIL PROVE Kin(q, Pend(c, U), k) = {} /\ \A s \in U : Key(c)[s] # k
  BY <1>2, <1>4, <1>5 DEF Found, Kin, Pend, Agrees
<1>6. ASSUME i # NIL PROVE i \in U /\ Key(c)[i] = k /\ Kin(q, Pend(c, U), k) = {Ctx(c)[i]}
  <2>1. i \in U /\ Key(c)[i] = k
    BY <1>2, <1>6 DEF Found
  <2>2. Kin(q, Pend(c, U), k) \subseteq {Ctx(c)[i]}
    BY <2>1, <1>3 DEF Kin, Pend, Agrees
  <2>3. Ctx(c)[i] \in Kin(q, Pend(c, U), k)
    BY <2>1 DEF Kin, Pend, Agrees
  <2> QED
    BY <2>1, <2>2, <2>3
<1> QED
  BY <1>5, <1>6 DEF i

\* No slot is free when as many queries are pending as the table has slots.
LEMMA FullIs ==
    ASSUME NEW c, NEW U, Well(c, U)
    PROVE  /\ c.free_head = NIL <=> Cardinality(Pend(c, U)) = Capacity
           /\ c.free_head = NIL => c.fifo_head # NIL
<1>1. PICK R \in [Slots -> Int], m \in Int : Shape(c, U, R, m)
  BY DEF Well
<1>2. U \in SUBSET Slots /\ IsFiniteSet(Slots) /\ Cardinality(Slots) = Capacity
  <2>1. Slots \in SUBSET Slots
    OBVIOUS
  <2> QED
    BY <2>1, CapacityAssumption, FS_Interval DEF Well, Slots
<1>3. c.free_head = NIL <=> Slots \ U = {}
  BY <1>1 DEF Shape, Linked
<1>4. Cardinality(U) = Capacity <=> U = Slots
  BY <1>2, FS_Subset
<1>5. 0 \in Slots
  BY CapacityAssumption DEF Slots
<1>6. c.fifo_head = NIL <=> U = {}
  BY HeadOldest
<1> QED
  BY <1>2, <1>3, <1>4, <1>5, <1>6, PendFinite

\* The query x joins the history.
LEMMA AdmitsAgrees ==
    ASSUME NEW c, NEW d, NEW U, NEW W, NEW H, NEW A, NEW q \in History, NEW k \in Keys, NEW now \in Times,
           Agrees(c, U, q), Admits(c, d, U, W, H, A, k, now, Len(q) + 1)
    PROVE  Agrees(d, W, Append(q, [key |-> k, time |-> now]))
<1> DEFINE e == [key |-> k, time |-> now]
           p == Append(q, e)
<1>1. e.key = k /\ e.time = now
  OBVIOUS
<1>2. /\ Len(p) = Len(q) + 1 /\ p[Len(q) + 1] = e /\ Len(q) \in Nat
      /\ \A i \in 1..Len(q) : p[i] = q[i]
  BY DEF History
<1> HIDE DEF e, p
<1>3. ASSUME NEW s \in W
      PROVE  Ctx(d)[s] \in 1..Len(p) /\ p[Ctx(d)[s]].key = Key(d)[s] /\ p[Ctx(d)[s]].time = Time(d)[s]
  <2>1. CASE Key(d)[s] = k /\ Time(d)[s] = now /\ Ctx(d)[s] = Len(q) + 1
    BY <2>1, <1>1, <1>2
  <2>2. CASE s \in U /\ Key(d)[s] = Key(c)[s] /\ Time(d)[s] = Time(c)[s] /\ Ctx(d)[s] = Ctx(c)[s]
    <3>1. Ctx(c)[s] \in 1..Len(q) /\ q[Ctx(c)[s]].key = Key(c)[s] /\ q[Ctx(c)[s]].time = Time(c)[s]
      BY <2>2 DEF Agrees
    <3> QED
      BY <2>2, <3>1, <1>2
  <2> QED
    BY <2>1, <2>2 DEF Admits, Kept
<1> QED
  BY <1>3 DEF Agrees, p, e

\* OnQueryTable() after the eviction.
Admit(c, k, now, x) ==
    LET idx == entry_find(c, k)
    IN  IF idx # NIL THEN Replace(c, idx, k, now, x)
        ELSE IF c.free_head # NIL THEN Insert(c, k, now, x)
        ELSE IF on_table_full = "drop_oldest" /\ c.fifo_head # NIL
             THEN Insert(evict_as_unanswered(c, c.fifo_head, "drop"), k, now, x)
        ELSE Emit(Count(c, "drop"), "UNANSWERED", x, 0, FALSE)

\* The oldest query of S.
OldestOf(S) == CHOOSE i \in S : \A j \in S : i <= j

\* What a full table hands back to admit x: the oldest query, or x itself.
Ousted(left, same, x) ==
    IF ~(same = {} /\ Cardinality(left) = Capacity) THEN {}
    ELSE IF on_table_full = "drop_oldest" THEN {OldestOf(left)} ELSE {x}

\* The counters after one of "collision" and "drop" was raised, or none.
Twice(st, a, b) == [st EXCEPT !["collision"] = @ + a, !["drop"] = @ + b]

\* The step of the table from c to d, as PendingQueries has it.
Admitted(c, d, U, W, k, now, x, same, out) ==
    /\ \E A : /\ Admits(c, d, U, W, same \cup out, A, k, now, x)
              /\ (Pend(c, U) \ (same \cup out)) \cup A = (Pend(c, U) \cup {x}) \ (same \cup out)
    /\ d.stats = Twice(c.stats, Cardinality(same), Cardinality(out))

\* The oldest is the least.
LEMMA OldestIs ==
    ASSUME NEW o, NEW S \in SUBSET Nat, IsLeast(o, S)
    PROVE  OldestOf(S) = o
<1>1. \E i \in S : \A j \in S : i <= j
  BY DEF IsLeast
<1> DEFINE i == OldestOf(S)
<1>2. i \in S /\ \A j \in S : i <= j
  BY <1>1 DEF OldestOf
<1> HIDE DEF i
<1>3. i <= o /\ o <= i /\ i \in Nat /\ o \in Nat
  BY <1>2 DEF IsLeast
<1> QED
  BY <1>3 DEF i

\* What one counter raised, or none, amounts to.
LEMMA CountersOne ==
    ASSUME NEW st \in [Counters -> Nat]
    PROVE  /\ Raised(st, "collision") = Twice(st, 1, 0)
           /\ Raised(st, "drop") = Twice(st, 0, 1)
           /\ st = Twice(st, 0, 0)
<1>1. \A n \in Counters : st[n] \in Nat
  OBVIOUS
<1>2. st["collision"] + 0 = st["collision"] /\ st["drop"] + 0 = st["drop"] /\ DOMAIN st = Counters
  BY <1>1 DEF Counters
<1>3. Raised(st, "collision") = Twice(st, 1, 0)
  BY <1>2 DEF Twice, Raised
<1>4. Raised(st, "drop") = Twice(st, 0, 1)
  BY <1>2 DEF Twice, Raised
<1>5. st = Twice(st, 0, 0)
  BY <1>2 DEF Twice, Raised
<1> QED
  BY <1>3, <1>4, <1>5

\* Each branch of on_query() after the eviction is the admission of the promise.
LEMMA Admission ==
    ASSUME NEW c, NEW U, Well(c, U), NEW q \in History, Agrees(c, U, q), NEW k \in Keys, NEW now \in Times,
           NEW same, same = Kin(q, Pend(c, U), k), NEW x, x = Len(q) + 1, NEW out,
           out = Ousted(Pend(c, U), same, x)
    PROVE  \E W \in SUBSET Slots : Admitted(c, Admit(c, k, now, x), U, W, k, now, x, same, out)
<1> DEFINE d == Admit(c, k, now, x)
           i == entry_find(c, k)
           P == Pend(c, U)
<1>1. /\ i = NIL => same = {} /\ \A s \in U : Key(c)[s] # k
      /\ i # NIL => i \in U /\ Key(c)[i] = k /\ same = {Ctx(c)[i]}
  BY KinFound
<1>2. c \in Table /\ c.stats \in [Counters -> Nat] /\ U \in SUBSET Slots /\ now \in Int /\ x \in Nat
  BY TableFields, TimesAssumption DEF Well, History
<1>3. Newest(c, U, x) /\ x \notin P
  <2>1. \A s \in U : Ctx(c)[s] \in 1..Len(q) /\ Len(q) \in Nat
    BY DEF Agrees, History
  <2>2. \A s \in U : Ctx(c)[s] < x
    BY <2>1
  <2> QED
    BY <2>1, <2>2 DEF Newest, Pend
<1>4. /\ c.free_head = NIL <=> Cardinality(P) = Capacity
      /\ c.free_head = NIL => c.fifo_head # NIL
  BY FullIs
<1>5. (\A a : Cardinality({a}) = 1) /\ Cardinality({}) = 0
  BY FS_Singleton, FS_EmptySet
<1> HIDE DEF i, P
<1>6. CASE i # NIL
  <2> DEFINE o == Ctx(c)[i]
  <2>1. d = Replace(c, i, k, now, x)
    BY <1>6 DEF Admit, i
  <2> HIDE DEF d
  <2>a. AdmitsCounting(c, Replace(c, i, k, now, x), U, {o}, {x}, k, now, x, "collision")
    BY <1>1, <1>2, <1>3, <1>6, ReplaceEffect
  <2>2. PICK W \in SUBSET Slots : /\ Admits(c, d, U, W, {o}, {x}, k, now, x)
                                  /\ d.stats = Raised(c.stats, "collision")
    BY <2>1, <2>a DEF AdmitsCounting
  <2> HIDE DEF d
  <2>3. same = {o} /\ out = {} /\ same \cup out = {o}
    BY <1>1, <1>6 DEF Ousted
  <2>4. o \in P
    BY <1>1, <1>6 DEF P, Pend
  <2>5. (P \ {o}) \cup {x} = (P \cup {x}) \ {o}
    BY <1>3, <2>4
  <2>6. d.stats = Twice(c.stats, Cardinality(same), Cardinality(out))
    <3>1. Cardinality(same) = 1 /\ Cardinality(out) = 0
      BY <1>5, <2>3
    <3>2. d.stats = Twice(c.stats, 1, 0)
      BY <1>2, <2>2, CountersOne
    <3> QED
      BY <3>1, <3>2
  <2>7. Admitted(c, d, U, W, k, now, x, same, out)
    BY <2>2, <2>3, <2>5, <2>6 DEF Admitted, P
  <2> QED
    BY <2>7 DEF d
<1>7. CASE i = NIL /\ c.free_head # NIL
  <2>1. d = Insert(c, k, now, x)
    BY <1>7 DEF Admit, i
  <2>2. PICK W \in SUBSET Slots : Admits(c, d, U, W, {}, {x}, k, now, x) /\ SameBooks(c, d)
    <3>1. AdmitsQuietly(c, d, U, {}, {x}, k, now, x)
      BY <1>1, <1>2, <1>3, <1>7, <2>1, InsertEffect
    <3> QED
      BY <3>1 DEF AdmitsQuietly
  <2> HIDE DEF d
  <2>3. same = {} /\ out = {} /\ same \cup out = {}
    BY <1>1, <1>4, <1>7 DEF Ousted, P
  <2>4. (P \ {}) \cup {x} = (P \cup {x}) \ {}
    OBVIOUS
  <2>5. d.stats = Twice(c.stats, Cardinality(same), Cardinality(out))
    <3>1. Cardinality(same) = 0 /\ Cardinality(out) = 0
      BY <1>5, <2>3
    <3>2. d.stats = Twice(c.stats, 0, 0)
      BY <1>2, <2>2, CountersOne DEF SameBooks
    <3> QED
      BY <3>1, <3>2
  <2>6. Admitted(c, d, U, W, k, now, x, same, out)
    BY <2>2, <2>3, <2>4, <2>5 DEF Admitted, P
  <2> QED
    BY <2>6 DEF d
<1>8. CASE i = NIL /\ c.free_head = NIL /\ on_table_full = "drop_oldest"
  <2> DEFINE o == Ctx(c)[c.fifo_head]
  <2>1. d = Insert(evict_as_unanswered(c, c.fifo_head, "drop"), k, now, x)
    BY <1>4, <1>8 DEF Admit, i
  <2>2. PICK W \in SUBSET Slots : /\ Admits(c, d, U, W, {o}, {x}, k, now, x)
                                  /\ d.stats = Raised(c.stats, "drop")
    <3> HIDE DEF d
    <3>1. AdmitsCounting(c, Insert(evict_as_unanswered(c, c.fifo_head, "drop"), k, now, x), U, {o}, {x}, k, now, x, "drop")
      BY <1>1, <1>2, <1>3, <1>4, <1>8, DropOldestEffect
    <3> QED
      BY <2>1, <3>1 DEF AdmitsCounting
  <2>3. P \in SUBSET Nat /\ IsLeast(o, P)
    BY <1>4, <1>8, HeadOldest, PendFinite DEF P
  <2> HIDE DEF d, o
  <2>4. same = {} /\ out = {o} /\ same \cup out = {o}
    BY <1>1, <1>4, <1>8, <2>3, OldestIs DEF Ousted, P
  <2>5. (P \ {o}) \cup {x} = (P \cup {x}) \ {o}
    BY <1>3, <2>3 DEF IsLeast
  <2>6. d.stats = Twice(c.stats, Cardinality(same), Cardinality(out))
    <3>1. Cardinality(same) = 0 /\ Cardinality(out) = 1
      BY <1>5, <2>4
    <3>2. d.stats = Twice(c.stats, 0, 1)
      BY <1>2, <2>2, CountersOne
    <3> QED
      BY <3>1, <3>2
  <2>7. Admitted(c, d, U, W, k, now, x, same, out)
    BY <2>2, <2>4, <2>5, <2>6 DEF Admitted, P
  <2> QED
    BY <2>7 DEF d
<1>9. CASE i = NIL /\ c.free_head = NIL /\ on_table_full # "drop_oldest"
  <2>1. d = Emit(Count(c, "drop"), "UNANSWERED", x, 0, FALSE)
    BY <1>9 DEF Admit, i
  <2>2. PICK W \in SUBSET Slots : /\ Admits(c, d, U, W, {x}, {}, k, now, x)
                                  /\ d.stats = Raised(c.stats, "drop")
    <3> HIDE DEF d
    <3>1. AdmitsCounting(c, Emit(Count(c, "drop"), "UNANSWERED", x, 0, FALSE), U, {x}, {}, k, now, x, "drop")
      BY <1>2, <1>3, DropNewestEffect
    <3> QED
      BY <2>1, <3>1 DEF AdmitsCounting
  <2> HIDE DEF d
  <2>3. same = {} /\ out = {x} /\ same \cup out = {x}
    BY <1>1, <1>4, <1>9 DEF Ousted, P
  <2>4. (P \ {x}) \cup {} = (P \cup {x}) \ {x}
    OBVIOUS
  <2>5. d.stats = Twice(c.stats, Cardinality(same), Cardinality(out))
    <3>1. Cardinality(same) = 0 /\ Cardinality(out) = 1
      BY <1>5, <2>3
    <3>2. d.stats = Twice(c.stats, 0, 1)
      BY <1>2, <2>2, CountersOne
    <3> QED
      BY <3>1, <3>2
  <2>6. Admitted(c, d, U, W, k, now, x, same, out)
    BY <2>2, <2>3, <2>4, <2>5 DEF Admitted, P
  <2> QED
    BY <2>6 DEF d
<1> QED
  BY <1>6, <1>7, <1>8, <1>9

\* The table d after an on_query() that evicts the contexts old, supersedes the
\* contexts same and turns out the contexts out.
QueryDone(c, d, U, W, q, k, now, x, old, same, out) ==
    /\ Well(d, W) /\ Agrees(d, W, Append(q, [key |-> k, time |-> now]))
    /\ Pend(d, W) = ((Pend(c, U) \ old) \cup {x}) \ (same \cup out)
    /\ \A i \in Nat : Back(d, i) = Back(c, i) + (IF i \in old \cup same \cup out THEN 1 ELSE 0)
    /\ d.stats = [c.stats EXCEPT !["unanswered"] = @ + Cardinality(old), !["collision"] = @ + Cardinality(same),
                                 !["drop"] = @ + Cardinality(out)]
    /\ SamePassing(c, d)

\* The counters of the two parts of on_query(), one after the other.
Once(st, a) == [st EXCEPT !["unanswered"] = @ + a]

\* Three counters raised.
Thrice(st, a, b, e) == [st EXCEPT !["unanswered"] = @ + a, !["collision"] = @ + b, !["drop"] = @ + e]

\* They add up.
LEMMA CountersTwo ==
    ASSUME NEW st \in [Counters -> Nat], NEW a, NEW b, NEW e
    PROVE  Twice(Once(st, a), b, e) = Thrice(st, a, b, e)
  BY DEF Once, Twice, Thrice, Counters

\* on_query() as a whole: eviction, then admission.
LEMMA OnQueryEffect ==
    ASSUME NEW c, NEW U, Well(c, U), NEW q \in History, Agrees(c, U, q), NEW k \in Keys, NEW now \in Times,
           NEW x, x = Len(q) + 1,
           NEW old, old = Prefix(Pend(c, U), Late(q, Pend(c, U), now), EvictMax),
           NEW same, same = Kin(q, Pend(c, U) \ old, k),
           NEW out, out = Ousted(Pend(c, U) \ old, same, x)
    PROVE  \E W \in SUBSET Slots : QueryDone(c, OnQueryTable(c, k, now, x), U, W, q, k, now, x, old, same, out)
<1> DEFINE c1 == evict_expired(c, now, EvictMax)
           d == Admit(c1, k, now, x)
           P == Pend(c, U)
<1>1. now \in Int /\ EvictMax \in Nat /\ x \in Nat /\ Len(q) \in Nat
  BY TimesAssumption, EvictAssumption DEF History
<1>2. OnQueryTable(c, k, now, x) = d
  BY DEF OnQueryTable, Admit
<1>3. After(c, c1, U, ExpiredIn(c, U, now), EvictMax)
  BY <1>1, EvictExpiredEffect
<1>4. ExpiredIn(c, U, now) = Late(q, P, now)
  BY LateIs
<1> HIDE DEF c1
<1>5. PICK V \in SUBSET U : Swept(c, c1, U, V) /\ Pend(c, V) = P \ old
  BY <1>3, <1>4 DEF After
<1>6. old \subseteq P
  BY DEF Prefix
<1>7. Well(c1, V) /\ Agrees(c1, V, q) /\ SamePassing(c, c1)
  BY <1>5, SweptAgrees DEF Swept
<1>8. Pend(c, U \ V) = old /\ Cardinality(old) = Cardinality(U \ V) /\ Pend(c1, V) = P \ old
  <2>1. P \ (P \ old) = old
    BY <1>6
  <2>2. /\ Pend(c, U \ V) = Pend(c, U) \ Pend(c, V)
        /\ Cardinality(Pend(c, U) \ Pend(c, V)) = Cardinality(U \ V)
        /\ Pend(c1, V) = Pend(c, V)
    <3> HIDE DEF P
    <3>1. SweptContexts(c, c1, U, V)
      BY <1>5, SweptCounts
    <3> QED
      BY <3>1 DEF SweptContexts
  <2> QED
    BY <2>1, <2>2, <1>5
<1>9. PICK W \in SUBSET Slots : Admitted(c1, d, V, W, k, now, x, same, out)
  <2>1. same = Kin(q, Pend(c1, V), k) /\ out = Ousted(Pend(c1, V), same, x)
    BY <1>8
  <2> QED
    BY <2>1, <1>7, Admission
<1> HIDE DEF d, P
<1>10. PICK A : /\ Admits(c1, d, V, W, same \cup out, A, k, now, x)
                /\ ((P \ old) \ (same \cup out)) \cup A = ((P \ old) \cup {x}) \ (same \cup out)
  BY <1>8, <1>9 DEF Admitted
<1>11. Well(d, W) /\ Pend(d, W) = ((P \ old) \cup {x}) \ (same \cup out) /\ SamePassing(c1, d)
  BY <1>8, <1>10 DEF Admits
<1>12. Agrees(d, W, Append(q, [key |-> k, time |-> now]))
  <2> DEFINE H == same \cup out
  <2>1. Admits(c1, d, V, W, H, A, k, now, Len(q) + 1)
    BY <1>10
  <2> HIDE DEF H
  <2> QED
    BY <1>7, <2>1, AdmitsAgrees
<1>13. SamePassing(c, d)
  BY <1>7, <1>11 DEF SamePassing
<1>14. \A i \in Nat : Back(d, i) = Back(c, i) + (IF i \in old \cup same \cup out THEN 1 ELSE 0)
  <2> TAKE i \in Nat
  <2>1. Back(c1, i) = Back(c, i) + (IF i \in old THEN 1 ELSE 0)
    BY <1>5, <1>8 DEF Swept
  <2>2. Back(d, i) = Back(c1, i) + (IF i \in same \cup out THEN 1 ELSE 0)
    BY <1>10 DEF Admits
  <2>3. Back(c, i) \in Nat
    BY TableFields, BackNat DEF Well
  <2>4. i \in old => i \notin same \cup out
    <3>1. same \subseteq P \ old
      BY DEF Kin, P
    <3>2. P \in SUBSET Nat /\ \A j \in P : j < x
      <4>1. \A s \in U : Ctx(c)[s] \in 1..Len(q)
        BY DEF Agrees
      <4> QED
        BY <4>1, <1>1 DEF P, Pend
    <3>3. out \subseteq (P \ old) \cup {x}
      <4>1. CASE out = {}
        BY <4>1
      <4>2. CASE out = {x}
        BY <4>2
      <4>3. CASE out = {OldestOf(P \ old)} /\ Cardinality(P \ old) = Capacity
        <5>1. c1.fifo_head # NIL
          BY <1>7, <1>8, <4>3, FullIs
        <5>2. IsLeast(Ctx(c1)[c1.fifo_head], P \ old)
          BY <1>7, <1>8, <5>1, HeadOldest
        <5>3. OldestOf(P \ old) \in P \ old
          BY <3>2, <5>2, OldestIs DEF IsLeast
        <5> QED
          BY <4>3, <5>3
      <4> QED
        BY <4>1, <4>2, <4>3 DEF Ousted, P
    <3>4. x \notin P
      BY <1>1, <3>2
    <3>5. old \subseteq P
      BY <1>6 DEF P
    <3> QED
      BY <3>1, <3>3, <3>4, <3>5
  <2> QED
    BY <2>1, <2>2, <2>3, <2>4
<1>15. d.stats = [c.stats EXCEPT !["unanswered"] = @ + Cardinality(old), !["collision"] = @ + Cardinality(same),
                                 !["drop"] = @ + Cardinality(out)]
  <2> DEFINE a == Cardinality(old)
             b == Cardinality(same)
             e == Cardinality(out)
  <2>1. c1.stats = Once(c.stats, a)
    BY <1>5, <1>8 DEF Swept, Once
  <2>2. d.stats = Twice(c1.stats, b, e)
    BY <1>9 DEF Admitted
  <2>3. c.stats \in [Counters -> Nat]
    BY TableFields DEF Well
  <2> HIDE DEF a, b, e
  <2>4. d.stats = Thrice(c.stats, a, b, e)
    BY <2>1, <2>2, <2>3, CountersTwo
  <2> QED
    BY <2>4 DEF a, b, e, Thrice
<1>16. QueryDone(c, d, U, W, q, k, now, x, old, same, out)
  BY <1>11, <1>12, <1>13, <1>14, <1>15 DEF QueryDone, P
<1> QED
  BY <1>2, <1>16

\* From c to d one more emission passes response r on, paired with query m, 0 for none.
PassedOn(c, d, r, m) ==
    /\ \A p \in Nat \ {0, r} : /\ PassingIn(d, p) = PassingIn(c, p)
                               /\ \A n \in PassingIn(c, p) : d.emitted[n] = c.emitted[n]
    /\ \E n : PassingIn(d, r) = PassingIn(c, r) \cup {n} /\ d.emitted[n].query = m
    /\ \A i \in Nat : Back(d, i) = Back(c, i) + (IF i = m THEN 1 ELSE 0)

\* An emission with response r and query m does that.
LEMMA EmittedResponse ==
    ASSUME NEW c, NEW d, c.emitted \in Seq(Emission), NEW e \in Emission, d.emitted = Append(c.emitted, e),
           NEW r \in Nat, e.response = r, NEW m \in Nat, e.query = m
    PROVE  PassedOn(c, d, r, m)
<1> DEFINE N == Len(c.emitted) + 1
<1>1. /\ d.emitted[N] = e /\ DOMAIN d.emitted = DOMAIN c.emitted \cup {N}
      /\ \A n \in DOMAIN c.emitted : d.emitted[n] = c.emitted[n]
  BY EmittedOne
<1>2. \A i \in Nat : Back(c, i) \in Nat /\ Back(d, i) = Back(c, i) + (IF i = e.query THEN 1 ELSE 0)
  <2> TAKE i \in Nat
  <2>1. c.emitted \in Seq(Emission) /\ e \in Emission /\ d.emitted = Append(c.emitted, e) /\ i \in Nat
    OBVIOUS
  <2>2. OneMore(c, d, i, e.query)
    BY <2>1, BackOne
  <2> QED
    BY <2>2 DEF OneMore
<1>3. \A i \in Nat : Back(d, i) = Back(c, i) + (IF i = m THEN 1 ELSE 0)
  BY <1>2
<1> HIDE DEF N
<1>4. PassingIn(d, r) = PassingIn(c, r) \cup {N} /\ d.emitted[N].query = m
  BY <1>1 DEF PassingIn
<1>5. \A p \in Nat \ {0, r} : /\ PassingIn(d, p) = PassingIn(c, p)
                              /\ \A n \in PassingIn(c, p) : d.emitted[n] = c.emitted[n]
  BY <1>1 DEF PassingIn
<1> QED
  BY <1>3, <1>4, <1>5 DEF PassedOn

\* The table d after an on_response().
ResponseDone(c, d, U, W, q, r, m) ==
    /\ Well(d, W) /\ Agrees(d, W, q) /\ Pend(d, W) = Pend(c, U) \ {m}
    /\ PassedOn(c, d, r, m)

\* A response without a query.
LEMMA UnmatchedEffect ==
    ASSUME NEW c, NEW U, Well(c, U), NEW q \in History, Agrees(c, U, q), NEW r \in Nat
    PROVE  LET d == Emit(Count(c, "unmatched"), "UNMATCHED", 0, r, FALSE)
           IN  ResponseDone(c, d, U, U, q, r, 0) /\ d.stats = Raised(c.stats, "unmatched")
<1> DEFINE d == Emit(Count(c, "unmatched"), "UNMATCHED", 0, r, FALSE)
           e == [outcome |-> "UNMATCHED", query |-> 0, response |-> r, rtt_valid |-> FALSE]
<1>1. "UNMATCHED" \in Outcomes /\ FALSE \in BOOLEAN /\ 0 \in Nat /\ "unmatched" \in Counters
  BY DEF Outcomes, Counters
<1>2. Noted(c, d, U, "unmatched", "UNMATCHED", 0, r, FALSE)
  BY <1>1, NotedBy
<1> HIDE DEF d
<1>3. Well(d, U) /\ SameData(c, d) /\ d.stats = Raised(c.stats, "unmatched") /\ d.emitted = Append(c.emitted, e)
  BY <1>2 DEF Noted, Raised
<1>4. e \in Emission /\ e.response = r /\ e.query = 0
  BY DEF Emission
<1> HIDE DEF e
<1>5. c.emitted \in Seq(Emission)
  BY TableFields DEF Well
<1>6. PassedOn(c, d, r, 0)
  BY <1>1, <1>3, <1>4, <1>5, EmittedResponse
<1>7. Agrees(d, U, q) /\ Pend(d, U) = Pend(c, U)
  BY <1>3 DEF Agrees, Pend, SameData
<1>8. 0 \notin Pend(c, U)
  BY DEF Pend, Agrees, History
<1> QED
  BY <1>3, <1>6, <1>7, <1>8 DEF ResponseDone, d

\* A response to the pending query of slot idx.
LEMMA MatchedEffect ==
    ASSUME NEW c, NEW c0, NEW U, Well(c0, U), NEW q \in History, Agrees(c0, U, q), NEW r \in Nat, NEW idx \in U,
           NEW v \in BOOLEAN
    PROVE  LET d == Emit(Count(entry_release(c0, idx), "observed"), "OBSERVED", Ctx(c0)[idx], r, v)
           IN  ResponseDone(c0, d, U, U \ {idx}, q, r, Ctx(c0)[idx]) /\ d.stats = Raised(c0.stats, "observed")
<1> DEFINE m == Ctx(c0)[idx]
           d == Emit(Count(entry_release(c0, idx), "observed"), "OBSERVED", m, r, v)
           e == [outcome |-> "OBSERVED", query |-> m, response |-> r, rtt_valid |-> v]
           W == U \ {idx}
<1>1. "OBSERVED" \in Outcomes /\ "observed" \in Counters
  BY DEF Outcomes, Counters
<1>2. Gone(c0, d, U, idx, "observed", r, v, "OBSERVED")
  BY <1>1, GoneBy
<1> HIDE DEF d
<1>3. Well(d, W) /\ SameData(c0, d) /\ d.stats = Raised(c0.stats, "observed")
      /\ d.emitted = Append(c0.emitted, e)
  BY <1>2 DEF Gone, Raised
<1>4. m \in Nat
  BY LinkTypes DEF Well
<1>5. Agrees(d, W, q)
  BY <1>3 DEF Agrees, SameData
<1>6. Pend(d, W) = Pend(c0, U) \ {m}
  <2>1. \A s, u \in U : Ctx(c0)[s] = Ctx(c0)[u] => s = u
    BY CtxDistinct
  <2> QED
    BY <2>1, <1>3 DEF Pend, SameData
<1> HIDE DEF m
<1>7. e \in Emission /\ e.response = r /\ e.query = m
  BY <1>4 DEF Emission
<1> HIDE DEF e
<1>8. c0.emitted \in Seq(Emission)
  BY TableFields DEF Well
<1>9. PassedOn(c0, d, r, m)
  BY <1>3, <1>4, <1>7, <1>8, EmittedResponse
<1> QED
  BY <1>3, <1>5, <1>6, <1>9 DEF ResponseDone, d, m

\* The counters of a match: one more observed, and rtt_invalid raised by n.
Matched(st, n) == [st EXCEPT !["observed"] = @ + 1, !["rtt_invalid"] = @ + n]

\* A match raises rtt_invalid first, when the round trip is no good, and then observed.
LEMMA CountersMatched ==
    ASSUME NEW st \in [Counters -> Nat]
    PROVE  Raised(Raised(st, "rtt_invalid"), "observed") = Matched(st, 1)
           /\ Raised(st, "observed") = Matched(st, 0)
<1>1. \A n \in Counters : st[n] \in Nat
  OBVIOUS
<1>2. st["rtt_invalid"] + 0 = st["rtt_invalid"] /\ DOMAIN st = Counters
  BY <1>1 DEF Counters
<1> QED
  BY <1>2 DEF Raised, Matched, Counters

\* The round trip of a response to query i is not a duration below the timeout.
BadRtt(q, i, now) == now - q[i].time < 0 \/ now - q[i].time > Timeout

\* on_response(): with a pending query of the key, and without one.
LEMMA OnResponseEffect ==
    ASSUME NEW c, NEW U, Well(c, U), NEW q \in History, Agrees(c, U, q), NEW k \in Keys, NEW now \in Times,
           NEW r \in Nat
    PROVE  LET d == OnResponseTable(c, k, now, r)
               same == Kin(q, Pend(c, U), k)
           IN  \/ /\ same = {} /\ d.stats = Raised(c.stats, "unmatched")
                  /\ ResponseDone(c, d, U, U, q, r, 0)
               \/ \E m, W : /\ same = {m} /\ W \in SUBSET Slots
                            /\ d.stats = Matched(c.stats, IF BadRtt(q, m, now) THEN 1 ELSE 0)
                            /\ ResponseDone(c, d, U, W, q, r, m)
<1> DEFINE d == OnResponseTable(c, k, now, r)
           i == entry_find(c, k)
           same == Kin(q, Pend(c, U), k)
<1>1. /\ i = NIL => same = {}
      /\ i # NIL => i \in U /\ same = {Ctx(c)[i]}
  BY KinFound
<1>2. c \in Table /\ U \in SUBSET Slots /\ c.stats \in [Counters -> Nat] /\ now \in Int
  BY TableFields, TimesAssumption DEF Well
<1> HIDE DEF i, same
<1>3. CASE i = NIL
  <2>1. d = Emit(Count(c, "unmatched"), "UNMATCHED", 0, r, FALSE)
    BY <1>3 DEF OnResponseTable, i
  <2>2. ResponseDone(c, d, U, U, q, r, 0) /\ d.stats = Raised(c.stats, "unmatched")
    BY <2>1, UnmatchedEffect
  <2> QED
    BY <1>1, <1>3, <2>2 DEF same
<1>4. CASE i # NIL
  <2> DEFINE m == Ctx(c)[i]
             bad == BadRtt(q, m, now)
             c0 == IF bad THEN Count(c, "rtt_invalid") ELSE c
             W == U \ {i}
             e == Emit(Count(entry_release(c0, i), "observed"), "OBSERVED", m, r, ~bad)
  <2>1. i \in U /\ i \in Slots /\ same = {m} /\ W \in SUBSET Slots
    BY <1>1, <1>2, <1>4
  <2>2. c.entries[i].ctx = m /\ c.entries[i].time = q[m].time
    BY <2>1 DEF Ctx, Time, Agrees
  <2>3. d = e
    BY <1>4, <2>2 DEF OnResponseTable, i, BadRtt
  <2> HIDE DEF d, m
  <2>4. /\ Well(c0, U) /\ SameData(c, c0) /\ c0.emitted = c.emitted
        /\ Raised(c0.stats, "observed") = Matched(c.stats, IF bad THEN 1 ELSE 0)
    <3> DEFINE f == Count(c, "rtt_invalid")
    <3>1. BooksOnly(c, f) /\ f.emitted = c.emitted /\ f.stats = [c.stats EXCEPT !["rtt_invalid"] = @ + 1]
      BY <1>2, CountEffect DEF Counters
    <3> HIDE DEF f
    <3>2. Well(f, U) /\ SameData(c, f)
      BY <3>1, BooksKeep
    <3>3. f.stats = Raised(c.stats, "rtt_invalid")
      BY <3>1 DEF Raised
    <3>4. Raised(f.stats, "observed") = Matched(c.stats, 1) /\ Raised(c.stats, "observed") = Matched(c.stats, 0)
      BY <1>2, <3>3, CountersMatched
    <3>5. SameData(c, c)
      BY DEF SameData
    <3>6. CASE bad
      <4>1. c0 = f /\ (IF bad THEN 1 ELSE 0) = 1
        BY <3>6, Zenon DEF f
      <4> HIDE DEF c0, bad
      <4> QED
        BY <4>1, <3>1, <3>2, <3>4
    <3>7. CASE ~bad
      <4>1. c0 = c /\ (IF bad THEN 1 ELSE 0) = 0
        BY <3>7, Zenon
      <4> HIDE DEF c0, bad
      <4> QED
        BY <4>1, <3>4, <3>5
    <3> QED
      BY <3>6, <3>7
  <2>5. Agrees(c0, U, q) /\ Ctx(c0)[i] = m /\ Pend(c0, U) = Pend(c, U)
    <3> HIDE DEF c0
    <3> QED
      BY <2>4 DEF Agrees, SameData, Pend, m
  <2>6. ResponseDone(c0, e, U, W, q, r, m) /\ e.stats = Raised(c0.stats, "observed")
    <3> DEFINE v == ~bad
    <3>1. v \in BOOLEAN
      OBVIOUS
    <3> HIDE DEF v, c0
    <3>2. LET g == Emit(Count(entry_release(c0, i), "observed"), "OBSERVED", Ctx(c0)[i], r, v)
          IN  ResponseDone(c0, g, U, U \ {i}, q, r, Ctx(c0)[i]) /\ g.stats = Raised(c0.stats, "observed")
      BY <2>1, <2>4, <2>5, <3>1, MatchedEffect
    <3> QED
      BY <2>5, <3>2 DEF v
  <2> HIDE DEF c0, e
  <2>7. ResponseDone(c, e, U, W, q, r, m)
    <3>1. (\A p : PassingIn(c0, p) = PassingIn(c, p)) /\ (\A j : Back(c0, j) = Back(c, j))
          /\ c0.emitted = c.emitted
      BY <2>4 DEF PassingIn, Back, CarryingIn
    <3>2. PassedOn(c, e, r, m)
      BY <2>6, <3>1 DEF ResponseDone, PassedOn
    <3> QED
      BY <2>5, <2>6, <3>2 DEF ResponseDone
  <2>8. e.stats = Matched(c.stats, IF bad THEN 1 ELSE 0)
    BY <2>4, <2>6
  <2> HIDE DEF W
  <2> QED
    BY <2>1, <2>3, <2>7, <2>8 DEF d, same
<1> QED
  BY <1>3, <1>4

\* What the walk of a list finds.
LEMMA OnListIs ==
    ASSUME NEW next \in [Slots -> Index], NEW first \in Index, NEW R \in [Slots -> Int],
           NEW B \in SUBSET Slots, Linked(next, first, R, B)
    PROVE  /\ OnList(next, first) = B
           /\ Walk(next, first)[Cardinality(B)] = NIL /\ Walk(next, first)[Capacity] = NIL
<1> DEFINE w == Walk(next, first)
<1>1. Visits(w, B)
  BY WalkVisits
<1>2. Cardinality(B) \in 0..Capacity /\ Capacity \in Nat
  BY PoolFinite, CapacityAssumption
<1>3. NIL \notin B
  BY DEF NIL, Slots
<1> HIDE DEF w
<1>4. {w[n] : n \in 0..Capacity} \ {NIL} = B
  BY <1>1, <1>3 DEF Visits
<1>5. w[Cardinality(B)] = NIL /\ w[Capacity] = NIL
  BY <1>1, <1>2 DEF Visits
<1> QED
  BY <1>4, <1>5 DEF OnList, w

\* The FIFO of a table holds the entries in use.
UsedIn(c) == OnList(FifoNext(c), c.fifo_head)

\* A walk of the FIFO from its head finds just these.
LEMMA UsedIs ==
    ASSUME NEW c, NEW U, Well(c, U)
    PROVE  UsedIn(c) = U /\ Walk(FifoNext(c), c.fifo_head)[Cardinality(U)] = NIL
<1>1. c \in Table /\ U \in SUBSET Slots /\ Linked(FifoNext(c), c.fifo_head, Neg(Ctx(c)), U)
  BY DEF Well, Shape, FifoOK
<1>2. FifoNext(c) \in [Slots -> Index] /\ c.fifo_head \in Index /\ Ctx(c) \in [Slots -> Int]
  BY <1>1, LinkTypes, TableFields
<1>3. Neg(Ctx(c)) \in [Slots -> Int]
  BY <1>2 DEF Neg
<1> QED
  BY <1>1, <1>2, <1>3, OnListIs DEF UsedIn

\* A new table: every slot is free, the list of the free ones by rising number.
LEMMA NewWell == Well(NewTable, {})
<1> DEFINE R == [s \in Slots |-> -s]
           c == NewTable
<1>1. Capacity \in Nat /\ Capacity >= 1
  BY CapacityAssumption
<1>2. \A s \in Slots : s \in Int /\ s >= 0 /\ s < Capacity
  BY <1>1 DEF Slots
<1>3. 0 \in Slots /\ 0 \in Index /\ NIL \in Index /\ \A s \in Slots : s + 1 < Capacity => s + 1 \in Slots
  BY <1>1 DEF Slots, Index
<1>4. c \in Table
  <2> DEFINE es == [s \in Slots |-> [key |-> NoKey, time |-> 0, ctx |-> 0,
                                    hnext |-> IF s + 1 < Capacity THEN s + 1 ELSE NIL,
                                    fifo_prev |-> NIL, fifo_next |-> NIL]]
             bs == [b \in Buckets |-> NIL]
             st == [n \in Counters |-> 0]
             em == << >>
  <2>1. es \in [Slots -> Entry]
    <3>1. \A s \in Slots : (IF s + 1 < Capacity THEN s + 1 ELSE NIL) \in Index
      BY <1>3 DEF Index
    <3> QED
      BY <1>3, <3>1 DEF Entry
  <2>2. bs \in [Buckets -> Index] /\ st \in [Counters -> Nat] /\ em \in Seq(Emission)
    BY <1>3
  <2>3. c = [entries |-> es, buckets |-> bs, free_head |-> 0, fifo_head |-> NIL, fifo_tail |-> NIL, count |-> 0,
             stats |-> st, emitted |-> em]
    BY DEF NewTable, Buckets
  <2> HIDE DEF es, bs, st, em
  <2> QED
    BY <1>3, <2>1, <2>2, <2>3 DEF Table
<1>5. /\ c.free_head = 0 /\ c.fifo_head = NIL /\ c.fifo_tail = NIL /\ c.count = 0
      /\ \A b \in Buckets : c.buckets[b] = NIL
      /\ \A s \in Slots : Hnext(c)[s] = IF s + 1 < Capacity THEN s + 1 ELSE NIL
  BY DEF NewTable, Hnext, Buckets
<1> HIDE DEF c
<1>6. R \in [Slots -> Int] /\ 1 \in Int /\ \A s \in Slots : R[s] = -s
  BY <1>2
<1> HIDE DEF R
<1>7. FifoOK(c, Ctx(c), {})
  BY <1>5 DEF FifoOK, Linked
<1>8. Linked(Hnext(c), c.free_head, R, Slots \ {})
  BY <1>1, <1>2, <1>3, <1>5, <1>6 DEF Linked, NIL
<1>9. \A b \in Buckets : Linked(Hnext(c), c.buckets[b], R, Chain(c, {}, b))
  BY <1>5 DEF Chain, Linked
<1>10. Cardinality({}) = 0
  BY FS_EmptySet
<1>11. \A s \in Slots : R[s] < 1
  BY <1>2, <1>6
<1>12. Shape(c, {}, R, 1)
  BY <1>5, <1>7, <1>8, <1>9, <1>10, <1>11 DEF Shape
<1> QED
  BY <1>4, <1>6, <1>12 DEF Well, c

\* Each of the first n responses was passed on by one emission, no other by any.
Responded(c, n) ==
    /\ \A r \in 1..n : \E j : PassingIn(c, r) = {j}
    /\ \A r \in Nat : r > n => PassingIn(c, r) = {}

\* The refinement mapping, for a given table.
PendingIn(c) == {c.entries[s].ctx : s \in UsedIn(c)}
BackIn(c) == [i \in 1..MaxQueries |-> Back(c, i)]
MatchesIn(c, n) == [r \in 1..n |-> c.emitted[CHOOSE j \in PassingIn(c, r) : TRUE].query]

\* The mapping now and after a step, in terms of the table.
LEMMA MapNow == pending = PendingIn(t) /\ handedBack = BackIn(t) /\ matches = MatchesIn(t, nresp)
  BY DEF pending, PendingIn, Used, UsedIn, handedBack, BackIn, Back, CarryingIn, Carrying, matches, MatchesIn,
         Passing, PassingIn

\* The same after a step.
LEMMA MapNext == pending' = PendingIn(t') /\ handedBack' = BackIn(t') /\ matches' = MatchesIn(t', nresp')
  BY DEF pending, PendingIn, Used, UsedIn, handedBack, BackIn, Back, CarryingIn, Carrying, matches, MatchesIn,
         Passing, PassingIn, OnList, FifoNext

\* The pending queries are the contexts of the slots in use.
LEMMA PendingIs ==
    ASSUME NEW c, NEW U, Well(c, U)
    PROVE  PendingIn(c) = Pend(c, U)
<1>1. UsedIn(c) = U /\ U \in SUBSET Slots
  BY UsedIs DEF Well
<1> QED
  BY <1>1 DEF PendingIn, Pend, Ctx

\* A function on 1..n as a sequence.
LEMMA FunctionSeq ==
    ASSUME NEW S, NEW n \in Nat, NEW f \in [1..n -> S], NEW v \in S
    PROVE  /\ f \in Seq(S) /\ Len(f) = n
           /\ \A g \in [1..(n + 1) -> S] : (g[n + 1] = v /\ \A i \in 1..n : g[i] = f[i]) => g = Append(f, v)
<1>1. f \in Seq(S) /\ Len(f) = n
  OBVIOUS
<1>2. ASSUME NEW g \in [1..(n + 1) -> S], g[n + 1] = v, \A i \in 1..n : g[i] = f[i]
      PROVE  g = Append(f, v)
  <2> DEFINE p == Append(f, v)
  <2>1. p \in Seq(S) /\ Len(p) = n + 1 /\ \A i \in 1..(n + 1) : p[i] = IF i <= n THEN f[i] ELSE v
    BY <1>1
  <2> HIDE DEF p
  <2>2. p \in [1..(n + 1) -> S]
    <3>1. p \in [1..Len(p) -> S]
      BY <2>1
    <3> QED
      BY <2>1, <3>1
  <2>3. \A i \in 1..(n + 1) : p[i] = g[i]
    BY <1>2, <2>1
  <2> QED
    BY <2>2, <2>3 DEF p
<1> QED
  BY <1>1, <1>2

\* Responses are paired with query numbers.
LEMMA MatchesType ==
    ASSUME NEW c, c.emitted \in Seq(Emission), NEW n \in Nat, Responded(c, n)
    PROVE  MatchesIn(c, n) \in [1..n -> Nat]
<1>1. ASSUME NEW r \in 1..n PROVE c.emitted[CHOOSE j \in PassingIn(c, r) : TRUE].query \in Nat
  <2>1. PICK j : PassingIn(c, r) = {j}
    BY DEF Responded
  <2>2. (CHOOSE i \in PassingIn(c, r) : TRUE) = j /\ j \in DOMAIN c.emitted
    BY <2>1 DEF PassingIn
  <2>3. c.emitted[j] \in Emission
    BY <2>2
  <2> QED
    BY <2>2, <2>3 DEF Emission
<1> QED
  BY <1>1 DEF MatchesIn

\* A call that passes no response on leaves the pairing alone.
LEMMA MatchesSame ==
    ASSUME NEW c, NEW d, NEW n \in Nat, Responded(c, n), SamePassing(c, d)
    PROVE  Responded(d, n) /\ MatchesIn(d, n) = MatchesIn(c, n)
<1>1. Responded(d, n)
  <2>1. (\A r \in 1..n : r \in Nat \ {0}) /\ (\A r \in Nat : r > n => r \in Nat \ {0})
    OBVIOUS
  <2>2. \A r \in Nat \ {0} : PassingIn(d, r) = PassingIn(c, r)
    BY DEF SamePassing
  <2> QED
    BY <2>1, <2>2 DEF Responded
<1>2. ASSUME NEW r \in 1..n
      PROVE  d.emitted[CHOOSE j \in PassingIn(d, r) : TRUE].query = c.emitted[CHOOSE j \in PassingIn(c, r) : TRUE].query
  <2>1. PICK j : PassingIn(c, r) = {j}
    BY DEF Responded
  <2>2. PassingIn(d, r) = {j} /\ d.emitted[j] = c.emitted[j]
    BY <2>1 DEF SamePassing
  <2> QED
    BY <2>1, <2>2
<1> QED
  BY <1>1, <1>2 DEF MatchesIn

\* A call that passes one response on adds one pair.
LEMMA MatchesOne ==
    ASSUME NEW c, NEW d, c.emitted \in Seq(Emission), d.emitted \in Seq(Emission), NEW n \in Nat,
           Responded(c, n),
           NEW m \in Nat, PassedOn(c, d, n + 1, m)
    PROVE  Responded(d, n + 1) /\ MatchesIn(d, n + 1) = Append(MatchesIn(c, n), m) /\ Len(MatchesIn(c, n)) = n
<1>1. PICK j : PassingIn(d, n + 1) = {j} /\ d.emitted[j].query = m
  <2>1. PassingIn(c, n + 1) = {}
    BY DEF Responded
  <2> QED
    BY <2>1 DEF PassedOn
<1>2. \A p \in Nat \ {0, n + 1} : /\ PassingIn(d, p) = PassingIn(c, p)
                                  /\ \A i \in PassingIn(c, p) : d.emitted[i] = c.emitted[i]
  BY DEF PassedOn
<1>3. Responded(d, n + 1)
  <2>1. ASSUME NEW r \in 1..(n + 1) PROVE \E i : PassingIn(d, r) = {i}
    <3>1. CASE r = n + 1
      BY <3>1, <1>1
    <3>2. CASE r # n + 1
      <4>1. r \in 1..n /\ r \in Nat \ {0, n + 1}
        BY <3>2
      <4> QED
        BY <4>1, <1>2 DEF Responded
    <3> QED
      BY <3>1, <3>2
  <2>2. ASSUME NEW r \in Nat, r > n + 1 PROVE PassingIn(d, r) = {}
    <3>1. r > n /\ r \in Nat \ {0, n + 1}
      BY <2>2
    <3> QED
      BY <3>1, <1>2 DEF Responded
  <2> QED
    BY <2>1, <2>2 DEF Responded
<1> DEFINE f == MatchesIn(c, n)
           g == MatchesIn(d, n + 1)
<1>4. f \in [1..n -> Nat] /\ g \in [1..(n + 1) -> Nat]
  BY <1>3, MatchesType
<1>5. g[n + 1] = m
  <2>1. (CHOOSE i \in PassingIn(d, n + 1) : TRUE) = j
    BY <1>1
  <2>2. g[n + 1] = d.emitted[CHOOSE i \in PassingIn(d, n + 1) : TRUE].query
    BY DEF MatchesIn
  <2> QED
    BY <1>1, <2>1, <2>2
<1>6. ASSUME NEW r \in 1..n PROVE g[r] = f[r]
  <2>1. PICK i : PassingIn(c, r) = {i}
    BY DEF Responded
  <2>2. PassingIn(d, r) = {i} /\ d.emitted[i] = c.emitted[i]
    <3>1. r \in Nat \ {0, n + 1}
      OBVIOUS
    <3> QED
      BY <2>1, <3>1, <1>2
  <2>3. r \in 1..(n + 1)
    OBVIOUS
  <2>4. /\ g[r] = d.emitted[CHOOSE l \in PassingIn(d, r) : TRUE].query
        /\ f[r] = c.emitted[CHOOSE l \in PassingIn(c, r) : TRUE].query
    BY <2>3 DEF MatchesIn
  <2>5. (CHOOSE l \in PassingIn(d, r) : TRUE) = i /\ (CHOOSE l \in PassingIn(c, r) : TRUE) = i
    BY <2>1, <2>2
  <2> QED
    BY <2>2, <2>4, <2>5
<1> HIDE DEF f, g
<1>7. g = Append(f, m) /\ Len(f) = n
  BY <1>4, <1>5, <1>6, FunctionSeq
<1> QED
  BY <1>3, <1>7 DEF f, g

\* The inductive invariant: some set of slots is in use and the lists agree on
\* it, the entries are queries of the history, every response was passed on once.
CorrInv ==
    /\ on_table_full \in FullPolicies /\ open \in BOOLEAN
    /\ queries \in History /\ Len(queries) <= MaxQueries /\ nresp \in 0..MaxResponses
    /\ \E U \in SUBSET Slots : Well(t, U) /\ Agrees(t, U, queries) /\ (open \/ U = {})
    /\ Responded(t, nresp)

\* The two modules mean the same by the size of a set.
LEMMA Sizes == \A S : Pending!Cardinality(S) = Cardinality(S)
  BY DEF Pending!Cardinality, Cardinality

\* The expired queries the promise evicts are the ones the table evicts.
LEMMA PrefixIs ==
    ASSUME NEW now, NEW budget
    PROVE  Pending!ExpiredPrefix(now, budget) = Prefix(pending, Late(queries, pending, now), budget)
<1>1. Pending!ExpiredPrefix(now, budget)
        = {i \in pending : /\ \A j \in pending : j <= i => Pending!Expired(j, now)
                           /\ Cardinality({j \in pending : j <= i}) <= budget}
  BY DEF Pending!ExpiredPrefix, Pending!Cardinality, Cardinality
<1>2. \A j \in pending : Pending!Expired(j, now) <=> j \in Late(queries, pending, now)
  BY DEF Pending!Expired, Late
<1>3. {i \in pending : /\ \A j \in pending : j <= i => Pending!Expired(j, now)
                       /\ Cardinality({j \in pending : j <= i}) <= budget}
        = Prefix(pending, Late(queries, pending, now), budget)
  BY <1>2 DEF Prefix
<1> QED
  BY <1>1, <1>3

\* handedBack after the contexts H came back.
Returned(c, d, H) == \A i \in Nat \ {0} : Back(d, i) = Back(c, i) + (IF i \in H THEN 1 ELSE 0)

\* The contexts in H handed back once more.
BackWith(c, H) == [i \in 1..MaxQueries |-> BackIn(c)[i] + (IF i \in H THEN 1 ELSE 0)]

\* What comes back is counted once.
LEMMA HandedIs ==
    ASSUME NEW c, NEW d, NEW H, Returned(c, d, H)
    PROVE  BackIn(d) = BackWith(c, H)
<1>1. \A i \in 1..MaxQueries : i \in Nat \ {0}
  BY BoundsAssumption
<1> QED
  BY <1>1 DEF BackIn, BackWith, Returned

\* A new table satisfies the invariant and is a new table of the promise.
LEMMA InitKeeps == Init => CorrInv /\ Pending!Init
<1> SUFFICES ASSUME Init PROVE CorrInv /\ Pending!Init
  OBVIOUS
<1>1. t = NewTable /\ queries = << >> /\ nresp = 0 /\ open = TRUE /\ on_table_full \in FullPolicies
  BY DEF Init
<1>2. Well(t, {}) /\ {} \in SUBSET Slots
  BY <1>1, NewWell
<1>3. t.emitted = << >> /\ t.stats = [n \in Counters |-> 0]
  BY <1>1 DEF NewTable
<1>4. (\A r : PassingIn(t, r) = {}) /\ (\A i : CarryingIn(t, i) = {})
  BY <1>3 DEF PassingIn, CarryingIn
<1>5. Responded(t, nresp)
  BY <1>1, <1>4 DEF Responded
<1>6. Agrees(t, {}, queries) /\ queries \in History /\ Len(queries) = 0
  BY <1>1 DEF Agrees, History
<1>7. CorrInv
  BY <1>1, <1>2, <1>5, <1>6, BoundsAssumption DEF CorrInv
<1>8. pending = {}
  BY <1>2, PendingIs, MapNow DEF Pend
<1>9. handedBack = [i \in 1..MaxQueries |-> 0]
  <2>1. \A i : Back(t, i) = 0
    BY <1>4, FS_EmptySet DEF Back
  <2> QED
    BY <2>1, MapNow DEF BackIn
<1>10. matches = << >>
  <2>1. MatchesIn(t, 0) \in [1..0 -> Nat]
    <3>1. t.emitted \in Seq(Emission)
      BY <1>2, TableFields DEF Well
    <3> QED
      BY <1>1, <1>5, <3>1, MatchesType
  <2>2. MatchesIn(t, 0) \in Seq(Nat) /\ Len(MatchesIn(t, 0)) = 0
    BY <2>1, FunctionSeq
  <2> QED
    BY <1>1, <2>2, MapNow
<1>11. Pending!Init
  BY <1>1, <1>3, <1>8, <1>9, <1>10 DEF Pending!Init, Pending!Ctx, Pending!Counters, Counters
<1> QED
  BY <1>7, <1>11

\* cf_dns_correlator_on_query().
LEMMA QueryStep ==
    ASSUME CorrInv, NEW k \in Keys, NEW now \in Times, OnQuery(k, now)
    PROVE  CorrInv' /\ Pending!OnQuery(k, now)
<1> DEFINE x == Len(queries) + 1
           old == Prefix(pending, Late(queries, pending, now), EvictMax)
           left == pending \ old
           same == Kin(queries, left, k)
           out == Ousted(left, same, x)
           e == [key |-> k, time |-> now]
<1>1. PICK U \in SUBSET Slots : Well(t, U) /\ Agrees(t, U, queries) /\ (open \/ U = {})
  BY DEF CorrInv
<1>2. /\ open /\ Len(queries) < MaxQueries /\ queries' = Append(queries, e)
      /\ t' = OnQueryTable(t, k, now, x) /\ on_table_full' = on_table_full /\ nresp' = nresp /\ open' = open
  BY DEF OnQuery
<1>3. pending = Pend(t, U)
  BY <1>1, PendingIs, MapNow
<1>4. queries \in History /\ Len(queries) \in Nat /\ nresp \in Nat /\ Responded(t, nresp)
  BY BoundsAssumption DEF CorrInv, History
<1>5. PICK W \in SUBSET Slots : QueryDone(t, t', U, W, queries, k, now, x, old, same, out)
  <2>1. /\ x = Len(queries) + 1
        /\ old = Prefix(Pend(t, U), Late(queries, Pend(t, U), now), EvictMax)
        /\ same = Kin(queries, Pend(t, U) \ old, k)
        /\ out = Ousted(Pend(t, U) \ old, same, x)
    BY <1>3
  <2> HIDE DEF x, old, same, out
  <2> QED
    BY <1>1, <1>2, <1>4, <2>1, OnQueryEffect
<1> HIDE DEF old, out, same
<1>6. /\ Well(t', W) /\ Agrees(t', W, queries')
      /\ Pend(t', W) = (left \cup {x}) \ (same \cup out)
      /\ t'.stats = [t.stats EXCEPT !["unanswered"] = @ + Cardinality(old), !["collision"] = @ + Cardinality(same),
                                    !["drop"] = @ + Cardinality(out)]
      /\ SamePassing(t, t')
  BY <1>2, <1>3, <1>5 DEF QueryDone
<1>7. Responded(t', nresp) /\ MatchesIn(t', nresp) = MatchesIn(t, nresp)
  BY <1>4, <1>6, MatchesSame
<1>8. queries' \in History /\ Len(queries') <= MaxQueries
  <2>1. e \in [key : Keys, time : Times]
    OBVIOUS
  <2> HIDE DEF e
  <2> QED
    BY <1>2, <1>4, <2>1, BoundsAssumption DEF History
<1>9. CorrInv'
  BY <1>2, <1>6, <1>7, <1>8 DEF CorrInv
<1>10. pending' = (left \cup {x}) \ (same \cup out)
  BY <1>6, PendingIs, MapNext
<1>11. matches' = matches
  BY <1>2, <1>7, MapNow, MapNext
<1>12. handedBack' = [i \in 1..MaxQueries |-> handedBack[i] + (IF i \in old \cup same \cup out THEN 1 ELSE 0)]
  <2> DEFINE H == old \cup same \cup out
  <2>1. \A i \in Nat : Back(t', i) = Back(t, i) + (IF i \in H THEN 1 ELSE 0)
    BY <1>5 DEF QueryDone
  <2> HIDE DEF H
  <2>2. Returned(t, t', H)
    BY <2>1 DEF Returned
  <2>3. BackIn(t') = BackWith(t, H)
    BY <2>2, HandedIs
  <2>4. handedBack' = [i \in 1..MaxQueries |-> handedBack[i] + (IF i \in H THEN 1 ELSE 0)]
    BY <2>3, MapNow, MapNext DEF BackWith
  <2> QED
    BY <2>4 DEF H
<1>13. Pending!OnQuery(k, now)
  <2>1. Pending!ExpiredPrefix(now, EvictMax) = old
    BY PrefixIs DEF old
  <2>2. Pending!SameKey(left, k) = same
    BY DEF Pending!SameKey, same, Kin
  <2>3. out = IF ~(same = {} /\ Pending!Cardinality(left) = Capacity) THEN {}
              ELSE IF on_table_full = "drop_oldest" THEN {Pending!Oldest(left)} ELSE {x}
    BY Sizes DEF out, Ousted, OldestOf, Pending!Oldest
  <2>4. t'.stats = [t.stats EXCEPT !["unanswered"] = @ + Pending!Cardinality(old),
                                   !["collision"] = @ + Pending!Cardinality(same),
                                   !["drop"] = @ + Pending!Cardinality(out)]
    BY <1>6, Sizes
  <2>5. Pending!HandBack(old \cup same \cup out)
    BY <1>12 DEF Pending!HandBack, Pending!Ctx
  <2> QED
    BY <1>2, <1>10, <1>11, <2>1, <2>2, <2>3, <2>4, <2>5 DEF Pending!OnQuery
<1> QED
  BY <1>9, <1>13

\* cf_dns_correlator_on_response().
LEMMA ResponseStep ==
    ASSUME CorrInv, NEW k \in Keys, NEW now \in Times, OnResponse(k, now)
    PROVE  CorrInv' /\ Pending!OnResponse(k, now)
<1> DEFINE r == nresp + 1
           same == Kin(queries, pending, k)
<1>1. PICK U \in SUBSET Slots : Well(t, U) /\ Agrees(t, U, queries) /\ (open \/ U = {})
  BY DEF CorrInv
<1>2. /\ open /\ nresp < MaxResponses /\ nresp' = r /\ t' = OnResponseTable(t, k, now, r)
      /\ on_table_full' = on_table_full /\ queries' = queries /\ open' = open
  BY DEF OnResponse
<1>3. pending = Pend(t, U)
  BY <1>1, PendingIs, MapNow
<1>4. queries \in History /\ Len(queries) \in Nat /\ nresp \in Nat /\ r \in Nat /\ Responded(t, nresp)
      /\ t.emitted \in Seq(Emission) /\ r \in 0..MaxResponses
  BY <1>1, <1>2, BoundsAssumption, TableFields DEF CorrInv, History, Well
<1>5. \/ /\ same = {} /\ t'.stats = Raised(t.stats, "unmatched")
         /\ ResponseDone(t, t', U, U, queries, r, 0)
      \/ \E m, W : /\ same = {m} /\ W \in SUBSET Slots
                   /\ t'.stats = Matched(t.stats, IF BadRtt(queries, m, now) THEN 1 ELSE 0)
                   /\ ResponseDone(t, t', U, W, queries, r, m)
  <2> HIDE DEF r
  <2> QED
    BY <1>1, <1>2, <1>3, <1>4, OnResponseEffect
<1> HIDE DEF same
<1>6. ASSUME NEW m \in Nat, NEW W \in SUBSET Slots, ResponseDone(t, t', U, W, queries, r, m)
      PROVE  /\ CorrInv' /\ pending' = pending \ {m} /\ matches' = Append(matches, m) /\ Len(matches) = nresp
             /\ handedBack' = [i \in 1..MaxQueries |-> handedBack[i] + (IF i \in {m} THEN 1 ELSE 0)]
  <2>1. Well(t', W) /\ Agrees(t', W, queries') /\ Pend(t', W) = pending \ {m} /\ PassedOn(t, t', r, m)
    BY <1>2, <1>3, <1>6 DEF ResponseDone
  <2>2. t'.emitted \in Seq(Emission)
    BY <2>1, TableFields DEF Well
  <2>3. /\ Responded(t', r) /\ MatchesIn(t', r) = Append(MatchesIn(t, nresp), m)
           /\ Len(MatchesIn(t, nresp)) = nresp
    BY <1>4, <2>1, <2>2, MatchesOne
  <2>4. CorrInv'
    <3>1. on_table_full \in FullPolicies /\ open \in BOOLEAN /\ Len(queries) <= MaxQueries
      BY DEF CorrInv
    <3> QED
      BY <1>2, <1>4, <2>1, <2>3, <3>1 DEF CorrInv
  <2>5. pending' = pending \ {m}
    BY <2>1, PendingIs, MapNext
  <2>6. Returned(t, t', {m})
    BY <2>1 DEF PassedOn, Returned
  <2>7. BackIn(t') = BackWith(t, {m})
    BY <2>6, HandedIs
  <2>8. handedBack' = [i \in 1..MaxQueries |-> handedBack[i] + (IF i \in {m} THEN 1 ELSE 0)]
    BY <2>7, MapNow, MapNext DEF BackWith
  <2>9. matches' = Append(matches, m) /\ Len(matches) = nresp
    BY <1>2, <2>3, MapNow, MapNext
  <2> QED
    BY <2>4, <2>5, <2>8, <2>9
<1>7. Pending!SameKey(pending, k) = same
  BY DEF Pending!SameKey, same, Kin
<1>8. CASE /\ same = {} /\ t'.stats = Raised(t.stats, "unmatched")
           /\ ResponseDone(t, t', U, U, queries, r, 0)
  <2>1. /\ CorrInv' /\ pending' = pending \ {0} /\ matches' = Append(matches, 0) /\ Len(matches) = nresp
        /\ handedBack' = [i \in 1..MaxQueries |-> handedBack[i] + (IF i \in {0} THEN 1 ELSE 0)]
    BY <1>6, <1>8
  <2>2. pending' = pending
    <3>1. 0 \notin pending
      BY <1>1, <1>3, <1>4 DEF Agrees, Pend
    <3> QED
      BY <2>1, <3>1
  <2>3. handedBack' = handedBack
    <3>1. handedBack = [i \in 1..MaxQueries |-> handedBack[i]] /\ \A i \in 1..MaxQueries : handedBack[i] \in Nat
      <4>1. \A i : Back(t, i) \in Nat
        BY <1>4, BackNat
      <4> QED
        BY <4>1, MapNow DEF BackIn
    <3>2. \A i \in 1..MaxQueries : handedBack[i] + (IF i \in {0} THEN 1 ELSE 0) = handedBack[i]
      BY <3>1
    <3> QED
      BY <2>1, <3>1, <3>2
  <2>4. Pending!OnResponse(k, now)
    BY <1>2, <1>7, <1>8, <2>1, <2>2, <2>3 DEF Pending!OnResponse, Raised
  <2> QED
    BY <2>1, <2>4
<1>9. ASSUME NEW m, NEW W, same = {m}, W \in SUBSET Slots,
             t'.stats = Matched(t.stats, IF BadRtt(queries, m, now) THEN 1 ELSE 0),
             ResponseDone(t, t', U, W, queries, r, m)
      PROVE  CorrInv' /\ Pending!OnResponse(k, now)
  <2>1. m \in Nat
    <3>1. m \in pending
      BY <1>9 DEF same, Kin
    <3> QED
      BY <1>1, <1>3, <1>4, <3>1 DEF Agrees, Pend
  <2>2. /\ CorrInv' /\ pending' = pending \ {m} /\ matches' = Append(matches, m) /\ Len(matches) = nresp
        /\ handedBack' = [i \in 1..MaxQueries |-> handedBack[i] + (IF i \in {m} THEN 1 ELSE 0)]
    BY <1>6, <1>9, <2>1
  <2>3. (CHOOSE i \in Pending!SameKey(pending, k) : TRUE) = m /\ Pending!SameKey(pending, k) # {}
    BY <1>7, <1>9
  <2>4. Pending!HandBack({m})
    BY <2>2 DEF Pending!HandBack, Pending!Ctx
  <2>5. t'.stats = [t.stats EXCEPT
              !["observed"] = @ + 1,
              !["rtt_invalid"] = @ + (IF now - queries[m].time < 0 \/ now - queries[m].time > Timeout THEN 1 ELSE 0)]
    BY <1>9, Zenon DEF Matched, BadRtt
  <2>6. Pending!OnResponse(k, now)
    BY <1>2, <2>2, <2>3, <2>4, <2>5 DEF Pending!OnResponse
  <2> QED
    BY <2>2, <2>6
<1> QED
  BY <1>5, <1>8, <1>9

\* What the two calls that only evict have in common.
LEMMA SweepStep ==
    ASSUME CorrInv, NEW U \in SUBSET Slots, Well(t, U), Agrees(t, U, queries), NEW V, Swept(t, t', U, V),
           UNCHANGED <<on_table_full, queries, nresp>>, open' \in BOOLEAN, open' \/ V = {}
    PROVE  CorrInv' /\ pending' = Pend(t, V) /\ Pending!Discard(pending \ Pend(t, V))
<1> DEFINE S == pending \ Pend(t, V)
<1>1. /\ Well(t', V) /\ V \in SUBSET U /\ SamePassing(t, t')
      /\ t'.stats = [t.stats EXCEPT !["unanswered"] = @ + Cardinality(U \ V)]
      /\ \A i \in Nat : Back(t', i) = Back(t, i) + (IF i \in Pend(t, U \ V) THEN 1 ELSE 0)
  BY DEF Swept
<1>2. pending = Pend(t, U)
  BY PendingIs, MapNow
<1>3. Pend(t, U \ V) = S /\ Cardinality(S) = Cardinality(U \ V) /\ Pend(t', V) = Pend(t, V)
  <2>1. SweptContexts(t, t', U, V)
    BY SweptCounts
  <2> QED
    BY <1>2, <2>1 DEF SweptContexts
<1>4. Agrees(t', V, queries')
  <2>1. Agrees(t', V, queries)
    BY SweptAgrees
  <2> QED
    BY <2>1
<1>5. nresp \in Nat /\ Responded(t, nresp)
  BY BoundsAssumption DEF CorrInv
<1>6. Responded(t', nresp) /\ MatchesIn(t', nresp) = MatchesIn(t, nresp)
  BY <1>1, <1>5, MatchesSame
<1>7. CorrInv'
  BY <1>1, <1>4, <1>6 DEF CorrInv
<1>8. pending' = Pend(t, V) /\ matches' = matches
  BY <1>1, <1>3, <1>6, PendingIs, MapNow, MapNext
<1>9. pending' = pending \ S
  <2>1. Pend(t, V) \subseteq pending
    BY <1>1, <1>2 DEF Pend
  <2> QED
    BY <1>8, <2>1
<1> HIDE DEF S
<1>10. Pending!HandBack(S)
  <2>1. Returned(t, t', S)
    BY <1>1, <1>3 DEF Returned
  <2>2. BackIn(t') = BackWith(t, S)
    BY <2>1, HandedIs
  <2> QED
    BY <2>2, MapNow, MapNext DEF BackWith, Pending!HandBack, Pending!Ctx
<1>11. t'.stats = [t.stats EXCEPT !["unanswered"] = @ + Pending!Cardinality(S)]
  BY <1>1, <1>3, Sizes
<1>12. Pending!Discard(S)
  BY <1>8, <1>9, <1>10, <1>11 DEF Pending!Discard
<1> QED
  BY <1>7, <1>8, <1>12 DEF S

\* cf_dns_correlator_tick().
LEMMA TickStep ==
    ASSUME CorrInv, NEW now \in Times, Tick(now)
    PROVE  /\ CorrInv' /\ Pending!Tick(now)
           /\ pending' = pending \ Prefix(pending, Late(queries, pending, now), Capacity)
<1> DEFINE S == Prefix(pending, Late(queries, pending, now), Capacity)
<1>1. PICK U \in SUBSET Slots : Well(t, U) /\ Agrees(t, U, queries) /\ (open \/ U = {})
  BY DEF CorrInv
<1>2. /\ open /\ t' = evict_expired(t, now, Capacity) /\ UNCHANGED <<on_table_full, queries, nresp>> /\ open' = open
  BY DEF Tick
<1>3. pending = Pend(t, U)
  BY <1>1, PendingIs, MapNow
<1>4. ExpiredIn(t, U, now) = Late(queries, pending, now)
  BY <1>1, <1>3, LateIs
<1>5. After(t, t', U, ExpiredIn(t, U, now), Capacity)
  <2>1. now \in Int /\ Capacity \in Nat
    BY TimesAssumption, CapacityAssumption
  <2> QED
    BY <1>1, <1>2, <2>1, EvictExpiredEffect
<1>6. PICK V \in SUBSET U : Swept(t, t', U, V) /\ Pend(t, V) = pending \ S
  BY <1>3, <1>4, <1>5 DEF After
<1>7. open' \in BOOLEAN /\ open'
  BY <1>2 DEF CorrInv
<1>8. CorrInv' /\ pending' = Pend(t, V) /\ Pending!Discard(pending \ Pend(t, V))
  BY <1>1, <1>2, <1>6, <1>7, SweepStep
<1>9. pending \ Pend(t, V) = S
  BY <1>6 DEF Prefix
<1>10. Pending!Tick(now)
  BY <1>2, <1>8, <1>9, PrefixIs DEF Pending!Tick
<1> QED
  BY <1>6, <1>8, <1>10

\* cf_dns_correlator_free().
LEMMA FreeStep ==
    ASSUME CorrInv, Free
    PROVE  CorrInv' /\ Pending!Free
<1>1. PICK U \in SUBSET Slots : Well(t, U) /\ Agrees(t, U, queries) /\ (open \/ U = {})
  BY DEF CorrInv
<1>2. open /\ t' = Drain(t) /\ UNCHANGED <<on_table_full, queries, nresp>> /\ open' = FALSE
  BY DEF Free
<1>3. Swept(t, t', U, {})
  BY <1>1, <1>2, DrainEffect
<1>4. CorrInv' /\ Pending!Discard(pending \ Pend(t, {}))
  BY <1>1, <1>2, <1>3, SweepStep
<1>5. pending \ Pend(t, {}) = pending
  BY DEF Pend
<1>6. Pending!Free
  BY <1>2, <1>4, <1>5 DEF Pending!Free
<1> QED
  BY <1>4, <1>6

\* Nothing happens.
LEMMA StutterStep ==
    ASSUME CorrInv, UNCHANGED vars
    PROVE  CorrInv' /\ UNCHANGED Pending!vars
<1>1. t' = t /\ on_table_full' = on_table_full /\ queries' = queries /\ nresp' = nresp /\ open' = open
  BY DEF vars
<1>2. CorrInv'
  BY <1>1 DEF CorrInv
<1>3. pending' = pending /\ handedBack' = handedBack /\ matches' = matches
  BY <1>1, MapNow, MapNext
<1> QED
  BY <1>1, <1>2, <1>3 DEF Pending!vars

\* Every call keeps the invariant and is the corresponding call of the promise.
LEMMA EveryStep ==
    ASSUME CorrInv, [Next]_vars
    PROVE  CorrInv' /\ [Pending!Next]_(Pending!vars)
<1>1. ASSUME NEW k \in Keys, NEW now \in Times, OnQuery(k, now) PROVE CorrInv' /\ Pending!Next
  <2>1. CorrInv' /\ Pending!OnQuery(k, now)
    BY <1>1, QueryStep
  <2> QED
    BY <2>1 DEF Pending!Next
<1>2. ASSUME NEW k \in Keys, NEW now \in Times, OnResponse(k, now) PROVE CorrInv' /\ Pending!Next
  <2>1. CorrInv' /\ Pending!OnResponse(k, now)
    BY <1>2, ResponseStep
  <2> QED
    BY <2>1 DEF Pending!Next
<1>3. ASSUME NEW now \in Times, Tick(now) PROVE CorrInv' /\ Pending!Next
  <2>1. CorrInv' /\ Pending!Tick(now)
    BY <1>3, TickStep
  <2> QED
    BY <2>1 DEF Pending!Next
<1>4. ASSUME Free PROVE CorrInv' /\ Pending!Next
  <2>1. CorrInv' /\ Pending!Free
    BY <1>4, FreeStep
  <2> QED
    BY <2>1 DEF Pending!Next
<1>5. ASSUME UNCHANGED vars PROVE CorrInv' /\ UNCHANGED Pending!vars
  BY <1>5, StutterStep
<1> QED
  BY <1>1, <1>2, <1>3, <1>4, <1>5 DEF Next

\* CorrInv is inductive: no call of correlation.c breaks the lists, loses sight of a
\* query or passes a response on twice.
THEOREM Inductive == Spec => []CorrInv
<1>1. Init => CorrInv
  BY InitKeeps
<1>2. CorrInv /\ [Next]_vars => CorrInv'
  BY EveryStep
<1> QED
  BY <1>1, <1>2, PTL DEF Spec

\* For every capacity, bucket count and hash function, every call on the pool, the
\* chains and the lists of correlation.c is the corresponding call of PendingQueries.
THEOREM Refinement == Spec => ImplementsPendingQueries
<1>1. Init => Pending!Init
  BY InitKeeps
<1>2. CorrInv /\ [Next]_vars => [Pending!Next]_(Pending!vars)
  BY EveryStep
<1> QED
  BY <1>1, <1>2, Inductive, PTL DEF Spec, ImplementsPendingQueries, Pending!Spec

\* Every response context given to cf_dns_correlator_on_response() is passed on through
\* exactly one emit(), paired with its query or not.
THEOREM ResponsesPassedOnCorrect == Spec => []ResponsesPassedOn
<1>1. CorrInv => ResponsesPassedOn
  <2> SUFFICES ASSUME CorrInv, NEW r \in 1..nresp PROVE Cardinality(Passing(r)) = 1
    BY DEF ResponsesPassedOn
  <2>1. PICK j : PassingIn(t, r) = {j}
    BY DEF CorrInv, Responded
  <2>2. Passing(r) = {j}
    BY <2>1 DEF Passing, PassingIn
  <2> QED
    BY <2>2, FS_Singleton
<1> QED
  BY <1>1, Inductive, PTL

\* The indices of the table stay in range, and count is the size of the FIFO.
THEOREM TypeCorrect == Spec => []TypeOK
<1>1. CorrInv => TypeOK
  <2> SUFFICES ASSUME CorrInv PROVE TypeOK
    OBVIOUS
  <2>1. PICK U \in SUBSET Slots : Well(t, U)
    BY DEF CorrInv
  <2>2. t \in Table /\ t.count = Cardinality(U)
    BY <2>1 DEF Well, Shape
  <2>3. t.count \in 0..Capacity
    BY <2>2, PoolFinite
  <2> QED
    BY <2>2, <2>3, TableFields DEF TypeOK, Buckets
<1> QED
  BY <1>1, Inductive, PTL

\* correlation.c's three intrusive indices always agree: free list and FIFO divide the
\* pool, every entry in use is on the chain of its own bucket only, no list has a cycle,
\* and the FIFO reads the same from both ends.
THEOREM ListsAgreeCorrect == Spec => []ListsAgree
<1>1. CorrInv => ListsAgree
  <2> SUFFICES ASSUME CorrInv PROVE ListsAgree
    OBVIOUS
  <2>1. PICK U \in SUBSET Slots : Well(t, U)
    BY DEF CorrInv
  <2>2. PICK R \in [Slots -> Int], m \in Int : Shape(t, U, R, m)
    BY <2>1 DEF Well
  <2>3. t \in Table /\ t.count = Cardinality(U) /\ FifoOK(t, Ctx(t), U)
    BY <2>1, <2>2 DEF Well, Shape
  <2>4. Used = U /\ Walk(FifoNext(t), t.fifo_head)[t.count] = NIL
    BY <2>1, <2>3, UsedIs DEF Used, UsedIn
  <2>a. Mirrored(FifoNext(t), FifoPrev(t), t.fifo_head, t.fifo_tail, U)
    <3>1. Ctx(t) \in [Slots -> Int]
      BY <2>3, LinkTypes
    <3> QED
      BY <2>3, <3>1, FifoMirror
  <2>5. Hnext(t) \in [Slots -> Index] /\ t.free_head \in Index /\ \A b \in Buckets : t.buckets[b] \in Index
    BY <2>3, LinkTypes, TableFields
  <2>6. OnList(Hnext(t), t.free_head) = Slots \ U
    <3>1. Slots \ U \in SUBSET Slots /\ Linked(Hnext(t), t.free_head, R, Slots \ U)
      BY <2>2 DEF Shape
    <3> QED
      BY <2>5, <3>1, OnListIs
  <2>7. ASSUME NEW b \in Buckets
        PROVE  /\ OnList(Hnext(t), t.buckets[b]) = {s \in Used : KeyHash(t.entries[s].key) = b}
               /\ Walk(Hnext(t), t.buckets[b])[Capacity] = NIL
    <3>1. Chain(t, U, b) \in SUBSET Slots /\ Linked(Hnext(t), t.buckets[b], R, Chain(t, U, b))
      BY <2>2 DEF Shape, Chain
    <3>2. OnList(Hnext(t), t.buckets[b]) = Chain(t, U, b) /\ Walk(Hnext(t), t.buckets[b])[Capacity] = NIL
      BY <2>5, <3>1, OnListIs
    <3>3. Chain(t, U, b) = {s \in Used : KeyHash(t.entries[s].key) = b}
      BY <2>4 DEF Chain, Key
    <3> QED
      BY <3>2, <3>3
  <2>8. ASSUME NEW s \in Used
        PROVE  IF t.entries[s].fifo_next = NIL THEN t.fifo_tail = s
               ELSE t.entries[t.entries[s].fifo_next].fifo_prev = s
    <3>1. s \in U /\ s \in Slots
      BY <2>4
    <3>2. FifoNext(t)[s] = t.entries[s].fifo_next /\ \A u \in Slots : FifoPrev(t)[u] = t.entries[u].fifo_prev
      BY <3>1 DEF FifoNext, FifoPrev
    <3>3. FifoNext(t)[s] # NIL => FifoNext(t)[s] \in U /\ FifoNext(t)[s] \in Slots
      BY <2>3, <3>1 DEF FifoOK, Linked
    <3> QED
      BY <2>a, <3>1, <3>2, <3>3 DEF Mirrored
  <2>9. IF Used = {} THEN t.fifo_tail = NIL ELSE t.entries[t.fifo_head].fifo_prev = NIL
    <3>1. t.fifo_head = NIL <=> U = {}
      BY <2>1, HeadOldest
    <3>2. t.fifo_head # NIL => t.fifo_head \in U /\ t.fifo_head \in Slots
      BY <2>1, HeadOldest
    <3>3. \A u \in Slots : FifoPrev(t)[u] = t.entries[u].fifo_prev
      BY DEF FifoPrev
    <3> QED
      BY <2>3, <2>4, <2>a, <3>1, <3>2, <3>3 DEF Mirrored, FifoOK, Linked
  <2> QED
    BY <2>3, <2>4, <2>6, <2>7, <2>8, <2>9 DEF ListsAgree, Buckets
<1> QED
  BY <1>1, Inductive, PTL

\* "the FIFO is time-ordered", so what the eviction of a tick stops at, and all that is
\* newer, has not expired.
LEMMA NoneLeft ==
    ASSUME CorrInv, NEW now \in Times, InOrder,
           NEW i \in pending \ Prefix(pending, Late(queries, pending, now), Capacity)
    PROVE  now - queries[i].time <= Timeout
<1>1. PICK U \in SUBSET Slots : Well(t, U) /\ Agrees(t, U, queries)
  BY DEF CorrInv
<1>2. pending = Pend(t, U) /\ pending \in SUBSET Nat /\ IsFiniteSet(pending)
      /\ Cardinality(pending) = Cardinality(U)
  BY <1>1, PendingIs, PendFinite, MapNow
<1>3. pending \subseteq 1..Len(queries) /\ \A j \in 1..Len(queries) : queries[j].time \in Int
  <2>1. pending \subseteq 1..Len(queries)
    BY <1>1, <1>2 DEF Agrees, Pend
  <2>2. \A j \in 1..Len(queries) : queries[j] \in [key : Keys, time : Times]
    <3> DEFINE Q == [key : Keys, time : Times]
    <3>1. queries \in Seq(Q)
      BY DEF CorrInv, History
    <3> HIDE DEF Q
    <3>2. \A j \in 1..Len(queries) : queries[j] \in Q
      BY <3>1
    <3> QED
      BY <3>2 DEF Q
  <2>3. \A j \in 1..Len(queries) : queries[j].time \in Times
    BY <2>2
  <2> QED
    BY <2>1, <2>3, TimesAssumption
<1>4. Cardinality({j \in pending : j <= i}) <= Capacity
  <2> DEFINE A == {j \in pending : j <= i}
  <2>1. A \in SUBSET pending
    OBVIOUS
  <2> HIDE DEF A
  <2>2. Cardinality(A) <= Cardinality(pending) /\ Cardinality(A) \in Nat
    BY <1>2, <2>1, FS_Subset, FS_CardinalityType
  <2>3. Cardinality(U) \in 0..Capacity /\ Capacity \in Nat
    BY PoolFinite, CapacityAssumption
  <2>4. Cardinality(A) <= Capacity
    BY <1>2, <2>2, <2>3
  <2> QED
    BY <2>4 DEF A
<1>5. PICK j \in pending : j <= i /\ j \notin Late(queries, pending, now)
  BY <1>4 DEF Prefix
<1>6. ~ (now - queries[j].time > Timeout)
  BY <1>5 DEF Late
<1>7. DOMAIN queries = 1..Len(queries)
  BY DEF CorrInv, History
<1>8. queries[j].time <= queries[i].time
  BY <1>3, <1>5, <1>7 DEF InOrder
<1>9. now \in Int /\ Timeout \in Int /\ queries[j].time \in Int /\ queries[i].time \in Int
  BY <1>3, TimesAssumption, TimeoutAssumption
<1> QED
  BY <1>6, <1>8, <1>9

\* cf_dns_correlator_tick() leaves no query that has outlived the timeout, as long as
\* query times have not gone back.
THEOREM TickEvictsAllExpiredCorrect == Spec => TickEvictsAllExpired
<1>1. ASSUME CorrInv, NEW now \in Times, Tick(now), InOrder
      PROVE  \A s \in Used' : now - t'.entries[s].time <= Timeout
  <2>1. CorrInv' /\ pending' = pending \ Prefix(pending, Late(queries, pending, now), Capacity)
        /\ queries' = queries
    BY <1>1, TickStep DEF Tick
  <2>2. PICK W \in SUBSET Slots : Well(t', W) /\ Agrees(t', W, queries)
    BY <2>1 DEF CorrInv
  <2>3. UsedIn(t') = W /\ PendingIn(t') = Pend(t', W)
    BY <2>2, UsedIs, PendingIs
  <2>4. Used' = W
    BY <2>3 DEF Used, UsedIn
  <2>5. pending' = Pend(t', W)
    BY <2>3, MapNext
  <2>6. ASSUME NEW s \in W PROVE now - t'.entries[s].time <= Timeout
    <3> DEFINE i == Ctx(t')[s]
    <3>1. i \in pending \ Prefix(pending, Late(queries, pending, now), Capacity)
      BY <2>1, <2>5 DEF Pend
    <3>2. queries[i].time = t'.entries[s].time
      BY <2>2 DEF Agrees, Time
    <3> HIDE DEF i
    <3>3. now - queries[i].time <= Timeout
      BY <1>1, <3>1, NoneLeft
    <3> QED
      BY <3>2, <3>3
  <2> QED
    BY <2>4, <2>6
<1>2. CorrInv /\ [Next]_vars
         => [\A now \in Times : Tick(now) /\ InOrder => \A s \in Used' : now - t'.entries[s].time <= Timeout]_vars
  BY <1>1
<1> QED
  BY <1>2, Inductive, PTL DEF Spec, TickEvictsAllExpired

(* The promises of PendingQueries, inherited.                              *)

\* What PendingQueriesProofs proves of the promise, under the refinement mapping.
PP == INSTANCE PendingQueriesProofs WITH stats <- t.stats

\* Its invariant holds of a new table.
LEMMA InheritInit ==
    ASSUME Pending!Init
    PROVE  PP!IndInv
<1>0. Cardinality({}) = 0
  BY FS_EmptySet
<1>1. PP!Cardinality({}) = 0
  BY <1>0 DEF PP!Cardinality, Cardinality
<1>2. /\ on_table_full \in FullPolicies /\ queries = <<>> /\ pending = {} /\ open = TRUE
      /\ handedBack = [i \in PP!Ctx |-> 0] /\ matches = <<>> /\ t.stats = [c \in PP!Counters |-> 0]
  BY DEF Pending!Init, Pending!Ctx, PP!Ctx, Pending!Counters, PP!Counters
<1>3. PP!TypeOK
  BY <1>2, BoundsAssumption DEF PP!TypeOK, PP!Counters, PP!Query
<1>4. PP!HandedBackOnce /\ PP!NewestWins
  BY <1>2 DEF PP!HandedBackOnce, PP!NewestWins, PP!Ctx
<1>5. PP!Balanced /\ PP!Bounded
  BY <1>1, <1>2, CapacityAssumption DEF PP!Balanced, PP!Bounded, PP!Counters
<1> QED
  BY <1>3, <1>4, <1>5 DEF PP!IndInv

\* It survives cf_dns_correlator_on_query().
LEMMA InheritQuery ==
    ASSUME PP!IndInv, NEW k \in Keys, NEW now \in Times, Pending!OnQuery(k, now)
    PROVE  PP!IndInv'
<1>1. PP!OnQuery(k, now)
  BY DEF Pending!OnQuery, PP!OnQuery, Pending!ExpiredPrefix, PP!ExpiredPrefix, Pending!Expired, PP!Expired,
         Pending!SameKey, PP!SameKey, Pending!Oldest, PP!Oldest, Pending!HandBack, PP!HandBack, Pending!Ctx, PP!Ctx,
         Pending!Cardinality, PP!Cardinality
<1> QED
  BY <1>1, PP!OnQueryKeeps, CapacityAssumption, TimesAssumption, TimeoutAssumption, EvictAssumption,
     FullPoliciesAssumption, BoundsAssumption

\* It survives cf_dns_correlator_on_response().
LEMMA InheritResponse ==
    ASSUME PP!IndInv, NEW k \in Keys, NEW now \in Times, Pending!OnResponse(k, now)
    PROVE  PP!IndInv'
<1>1. PP!OnResponse(k, now)
  BY DEF Pending!OnResponse, PP!OnResponse, Pending!SameKey, PP!SameKey, Pending!HandBack, PP!HandBack,
         Pending!Ctx, PP!Ctx
<1> QED
  BY <1>1, PP!OnResponseKeeps, CapacityAssumption, TimesAssumption, TimeoutAssumption, EvictAssumption,
     FullPoliciesAssumption, BoundsAssumption

\* It survives cf_dns_correlator_tick() and cf_dns_correlator_free().
LEMMA InheritDiscard ==
    ASSUME PP!IndInv, NEW S \in SUBSET pending, Pending!Discard(S), open' \in BOOLEAN, open' \/ S = pending
    PROVE  PP!IndInv'
<1>1. PP!Discard(S)
  BY DEF Pending!Discard, PP!Discard, Pending!HandBack, PP!HandBack, Pending!Ctx, PP!Ctx, Pending!Cardinality,
         PP!Cardinality
<1> QED
  BY <1>1, PP!DiscardKeeps, CapacityAssumption, TimesAssumption, TimeoutAssumption, EvictAssumption,
     FullPoliciesAssumption, BoundsAssumption

\* The linked table keeps every promise of PendingQueries.
THEOREM Inherited == Spec => []PP!IndInv
<1>1. Init => PP!IndInv
  BY InitKeeps, InheritInit
<1>2. CorrInv /\ PP!IndInv /\ [Next]_vars => PP!IndInv'
  <2> SUFFICES ASSUME CorrInv, PP!IndInv, [Next]_vars PROVE PP!IndInv'
    OBVIOUS
  <2>1. ASSUME NEW k \in Keys, NEW now \in Times, OnQuery(k, now) PROVE PP!IndInv'
    <3>1. Pending!OnQuery(k, now)
      BY <2>1, QueryStep
    <3> QED
      BY <3>1, InheritQuery
  <2>2. ASSUME NEW k \in Keys, NEW now \in Times, OnResponse(k, now) PROVE PP!IndInv'
    <3>1. Pending!OnResponse(k, now)
      BY <2>2, ResponseStep
    <3> QED
      BY <3>1, InheritResponse
  <2>3. ASSUME NEW now \in Times, Tick(now) PROVE PP!IndInv'
    <3>1. Pending!Tick(now) /\ open' \in BOOLEAN
      BY <2>3, TickStep DEF CorrInv
    <3>2. Pending!ExpiredPrefix(now, Capacity) \in SUBSET pending
      BY DEF Pending!ExpiredPrefix
    <3>3. open' /\ Pending!Discard(Pending!ExpiredPrefix(now, Capacity))
      BY <2>3, <3>1 DEF Pending!Tick, Tick
    <3> QED
      BY <3>1, <3>2, <3>3, InheritDiscard
  <2>4. CASE Free
    <3>1. Pending!Free
      BY <2>4, FreeStep
    <3>2. open' \in BOOLEAN /\ Pending!Discard(pending) /\ pending \in SUBSET pending
      BY <3>1 DEF Pending!Free
    <3> QED
      BY <3>2, InheritDiscard
  <2>5. CASE UNCHANGED vars
    <3>1. UNCHANGED <<on_table_full, queries, pending, handedBack, matches, t, open>>
      BY <2>5, StutterStep DEF vars, Pending!vars
    <3> QED
      BY <3>1 DEF PP!IndInv, PP!TypeOK, PP!HandedBackOnce, PP!Balanced, PP!NewestWins, PP!Bounded
  <2> QED
    BY <2>1, <2>2, <2>3, <2>4, <2>5 DEF Next
<1> QED
  BY <1>1, <1>2, Inductive, PTL DEF Spec

\* correlation.h's ownership contract holds of the linked table: each query context is
\* handed back through exactly one emit(), never while its query is pending.
THEOREM HandedBackOnceCorrect == Spec => []HandedBackOnce
<1>1. PP!IndInv => HandedBackOnce
  BY DEF PP!IndInv, HandedBackOnce, PP!HandedBackOnce, Pending!HandedBackOnce, PP!Ctx, Pending!Ctx
<1> QED
  BY <1>1, Inherited, PTL

\* The counters of the linked table and its depth account for every query.
THEOREM BalancedCorrect == Spec => []Balanced
<1>1. PP!IndInv => Balanced
  BY DEF PP!IndInv, Balanced, PP!Balanced, Pending!Balanced, PP!Cardinality, Pending!Cardinality
<1> QED
  BY <1>1, Inherited, PTL

\* Only the newest query under a key is in the linked table, so a response never pairs
\* with a query that a retransmission superseded.
THEOREM NewestWinsCorrect == Spec => []NewestWins
<1>1. PP!IndInv => NewestWins
  BY DEF PP!IndInv, NewestWins, PP!NewestWins, Pending!NewestWins
<1> QED
  BY <1>1, Inherited, PTL

=============================================================================
