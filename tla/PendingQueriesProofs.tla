------------------------ MODULE PendingQueriesProofs ------------------------
(***************************************************************************)
(* For every capacity, timeout, eviction budget, policy and stream of      *)
(* queries, responses and ticks: each query context is handed back exactly *)
(* once, the counters balance, and only the newest query under a key can   *)
(* be pending.                                                             *)
(***************************************************************************)
EXTENDS PendingQueries, FiniteSetTheorems, WellFoundedInduction, TLAPS

\* The members up to a smaller member are fewer.
LEMMA UptoSmaller ==
    ASSUME NEW S \in SUBSET Nat, NEW x \in S, NEW y \in S, y < x
    PROVE  /\ {j \in S : j <= y} \subseteq {j \in S : j <= x}
           /\ x \in {j \in S : j <= x} /\ x \notin {j \in S : j <= y}
<1>1. \A j \in S : j \in Nat
  OBVIOUS
<1>2. \A j \in S : j <= y => j <= x
  BY <1>1
<1>3. x <= x /\ ~(x <= y)
  BY <1>1
<1> QED
  BY <1>2, <1>3

\* A nonempty finite set of context numbers has an oldest member: the sets of
\* members up to each member have a minimal one.
LEMMA OldestExists ==
    ASSUME NEW S \in SUBSET Nat, IsFiniteSet(S), S # {}
    PROVE  Oldest(S) \in S
<1> DEFINE Upto(i) == {j \in S : j <= i}
           T == {Upto(i) : i \in S}
<1>1. T \subseteq FiniteSubsetsOf(S) /\ T # {}
  <2>1. ASSUME NEW i \in S PROVE Upto(i) \in FiniteSubsetsOf(S)
    <3>1. Upto(i) \in SUBSET S
      OBVIOUS
    <3>2. IsFiniteSet(Upto(i))
      BY <3>1, FS_Subset
    <3> QED
      BY <3>1, <3>2 DEF FiniteSubsetsOf
  <2>2. T # {}
    <3>1. PICK i \in S : TRUE
      OBVIOUS
    <3>2. Upto(i) \in T
      OBVIOUS
    <3> QED
      BY <3>2
  <2> QED
    BY <2>1, <2>2
<1>2. PICK U \in T : \A V \in T : ~ (<<V, U>> \in StrictSubsetOrdering(S))
  BY <1>1, FS_StrictSubsetOrderingWellFounded, WFMin
<1>3. PICK x \in S : U = Upto(x)
  OBVIOUS
<1>4. ASSUME NEW y \in S PROVE x <= y
  <2>1. ~ (<<Upto(y), U>> \in StrictSubsetOrdering(S))
    <3>1. Upto(y) \in T
      OBVIOUS
    <3> HIDE DEF Upto, T
    <3> QED
      BY <1>2, <3>1
  <2>2. y < x => Upto(y) \subseteq U /\ x \notin Upto(y) /\ x \in U
    BY <1>3, UptoSmaller
  <2>3. y < x => <<Upto(y), U>> \in StrictSubsetOrdering(S)
    BY <2>2 DEF StrictSubsetOrdering
  <2> QED
    BY <2>1, <2>3
<1> QED
  BY <1>4 DEF Oldest

\* Taking a part out of a finite set takes its size off.
LEMMA RemovePart ==
    ASSUME NEW S, IsFiniteSet(S), NEW T \in SUBSET S
    PROVE  /\ IsFiniteSet(S \ T) /\ IsFiniteSet(T)
           /\ Cardinality(S \ T) = Cardinality(S) - Cardinality(T)
           /\ Cardinality(S) \in Nat /\ Cardinality(T) \in Nat /\ Cardinality(S \ T) \in Nat
<1>1. IsFiniteSet(S \ T) /\ IsFiniteSet(T)
  BY FS_Subset
<1>2. /\ (S \ T) \cup T = S
      /\ (S \ T) \cap T = {}
  OBVIOUS
<1>3. Cardinality(S) = Cardinality(S \ T) + Cardinality(T) - Cardinality({})
  BY <1>1, <1>2, FS_Union
<1>4. Cardinality({}) = 0
  BY FS_EmptySet
<1>5. Cardinality(S) \in Nat /\ Cardinality(T) \in Nat /\ Cardinality(S \ T) \in Nat
  BY <1>1, FS_CardinalityType
<1> QED
  BY <1>1, <1>3, <1>4, <1>5

\* Disjoint parts add up.
LEMMA DisjointUnion ==
    ASSUME NEW S, IsFiniteSet(S), NEW T, IsFiniteSet(T), S \cap T = {}
    PROVE  /\ IsFiniteSet(S \cup T)
           /\ Cardinality(S \cup T) = Cardinality(S) + Cardinality(T)
           /\ Cardinality(S) \in Nat /\ Cardinality(T) \in Nat
<1>1. Cardinality(S) \in Nat /\ Cardinality(T) \in Nat
  BY FS_CardinalityType
<1>2. Cardinality({}) = 0
  BY FS_EmptySet
<1>3. S \cap T = {}
  OBVIOUS
<1>4. Cardinality(S \cup T) = Cardinality(S) + Cardinality(T) - Cardinality({})
  BY <1>3, FS_Union
<1> QED
  BY <1>1, <1>2, <1>4, FS_Union

-----------------------------------------------------------------------------

\* The three promises hold together: which queries are pending determines
\* what was handed back and what the counters say.
IndInv == TypeOK /\ HandedBackOnce /\ Balanced /\ NewestWins /\ Bounded

\* The pending set is finite, and so is any part of it.
LEMMA PendingFinite ==
    ASSUME TypeOK
    PROVE  IsFiniteSet(pending) /\ pending \in SUBSET Nat /\ Len(queries) \in Nat
<1>1. Len(queries) \in Nat
  BY DEF TypeOK
<1>2. IsFiniteSet(1..Len(queries))
  BY <1>1, FS_Interval
<1>3. pending \in SUBSET (1..Len(queries))
  BY DEF TypeOK
<1>4. IsFiniteSet(pending)
  BY <1>2, <1>3, FS_Subset
<1>5. 1..Len(queries) \subseteq Nat
  BY <1>1
<1> QED
  BY <1>1, <1>3, <1>4, <1>5

\* Discarding part of the pending set as unanswered keeps the invariant:
\* what cf_dns_correlator_tick() and cf_dns_correlator_free() do.
LEMMA DiscardKeeps ==
    ASSUME IndInv, NEW S \in SUBSET pending, Discard(S),
           open' \in BOOLEAN, open' \/ S = pending
    PROVE  IndInv'
<1> USE DEF IndInv
<1>1. /\ IsFiniteSet(S) /\ Cardinality(pending \ S) = Cardinality(pending) - Cardinality(S)
      /\ Cardinality(S) \in Nat /\ Cardinality(pending) \in Nat
  BY PendingFinite, RemovePart
<1>2. TypeOK'
  BY <1>1 DEF TypeOK, Discard, HandBack, Counters
<1>3. HandedBackOnce'
  <2>1. ASSUME NEW i \in Ctx
        PROVE  handedBack'[i] = IF i <= Len(queries)' /\ i \notin pending' THEN 1 ELSE 0
    <3>1. handedBack'[i] = handedBack[i] + (IF i \in S THEN 1 ELSE 0) /\ queries' = queries
      BY DEF Discard, HandBack
    <3>2. i \in pending => i <= Len(queries)
      BY DEF TypeOK
    <3> QED
      BY <3>1, <3>2 DEF HandedBackOnce, Discard
  <2>2. ~open' => pending' = {}
    BY DEF Discard
  <2> QED
    BY <2>1, <2>2 DEF HandedBackOnce
<1>4. Balanced'
  BY <1>1 DEF TypeOK, Balanced, Discard, Counters
<1>5. NewestWins'
  BY DEF NewestWins, Discard
<1>6. Bounded'
  BY <1>1, CapacityAssumption DEF Bounded, Discard
<1> QED
  BY <1>2, <1>3, <1>4, <1>5, <1>6

\* cf_dns_correlator_on_response() keeps the invariant.
LEMMA OnResponseKeeps ==
    ASSUME IndInv, NEW k \in Keys, NEW now \in Times, OnResponse(k, now)
    PROVE  IndInv'
<1> USE DEF IndInv
<1>1. CASE SameKey(pending, k) = {}
  <2>1. /\ matches' = Append(matches, 0) /\ Len(matches) < MaxResponses
        /\ stats' = [stats EXCEPT !["unmatched"] = @ + 1]
        /\ UNCHANGED <<on_table_full, queries, pending, handedBack, open>>
    BY <1>1 DEF OnResponse
  <2>2. stats' \in [Counters -> Nat] /\ \A c \in Counters \ {"unmatched"} : stats'[c] = stats[c]
    BY <2>1 DEF TypeOK, Counters
  <2>3. TypeOK'
    BY <2>1, <2>2, BoundsAssumption DEF TypeOK
  <2>4. Balanced'
    BY <2>1, <2>2 DEF Balanced, Counters
  <2> QED
    BY <2>1, <2>3, <2>4 DEF HandedBackOnce, NewestWins, Bounded
<1>2. CASE SameKey(pending, k) # {}
  <2> DEFINE i == CHOOSE i \in SameKey(pending, k) : TRUE
             rtt == now - queries[i].time
             bad == IF rtt < 0 \/ rtt > Timeout THEN 1 ELSE 0
  <2>1. i \in pending
    BY <1>2 DEF SameKey
  <2>2. /\ matches' = Append(matches, i)
        /\ pending' = pending \ {i}
        /\ HandBack({i})
        /\ stats' = [stats EXCEPT !["observed"] = @ + 1, !["rtt_invalid"] = @ + bad]
        /\ UNCHANGED <<on_table_full, queries, open>> /\ open /\ Len(matches) < MaxResponses
    BY <1>2 DEF OnResponse
  <2>3. bad \in Nat
    OBVIOUS
  <2> HIDE DEF i, bad
  <2>4. /\ Cardinality(pending \ {i}) = Cardinality(pending) - 1
        /\ Cardinality(pending) \in Nat
    BY <2>1, PendingFinite, FS_RemoveElement, FS_CardinalityType
  <2>9. /\ stats' \in [Counters -> Nat]
        /\ stats'["observed"] = stats["observed"] + 1
        /\ \A c \in Counters \ {"observed", "rtt_invalid"} : stats'[c] = stats[c]
    BY <2>2, <2>3 DEF TypeOK, Counters
  <2>5. TypeOK'
    <3>1. matches' \in Seq(Nat) /\ Len(matches') <= MaxResponses
      BY <2>1, <2>2, BoundsAssumption DEF TypeOK
    <3>2. handedBack' \in [Ctx -> Nat]
      BY <2>2 DEF TypeOK, HandBack
    <3> QED
      BY <2>2, <2>9, <3>1, <3>2 DEF TypeOK
  <2>6. HandedBackOnce'
    BY <2>1, <2>2 DEF TypeOK, HandedBackOnce, HandBack
  <2>7. Balanced'
    <3>1. /\ stats["observed"] \in Nat /\ stats["unanswered"] \in Nat
          /\ stats["collision"] \in Nat /\ stats["drop"] \in Nat
      BY DEF TypeOK, Counters
    <3>2. /\ stats'["observed"] = stats["observed"] + 1
          /\ stats'["unanswered"] = stats["unanswered"]
          /\ stats'["collision"] = stats["collision"]
          /\ stats'["drop"] = stats["drop"]
      BY <2>9 DEF Counters
    <3>3. Cardinality(pending') = Cardinality(pending) - 1 /\ queries' = queries
      BY <2>2, <2>4
    <3> QED
      BY <2>4, <3>1, <3>2, <3>3 DEF Balanced
  <2>8. NewestWins' /\ Bounded'
    BY <2>2, <2>4, CapacityAssumption DEF NewestWins, Bounded
  <2> QED
    BY <2>5, <2>6, <2>7, <2>8
<1> QED
  BY <1>1, <1>2

\* cf_dns_correlator_on_query() keeps the invariant.
LEMMA OnQueryKeeps ==
    ASSUME IndInv, NEW k \in Keys, NEW now \in Times, OnQuery(k, now)
    PROVE  IndInv'
<1> USE DEF IndInv
<1> DEFINE id   == Len(queries) + 1
           old  == ExpiredPrefix(now, EvictMax)
           left == pending \ old
           same == SameKey(left, k)
           full == same = {} /\ Cardinality(left) = Capacity
           out  == IF ~full THEN {}
                   ELSE IF on_table_full = "drop_oldest" THEN {Oldest(left)} ELSE {id}
           gone == old \cup same \cup out
<1>1. /\ open /\ Len(queries) < MaxQueries
      /\ queries' = Append(queries, [key |-> k, time |-> now])
      /\ pending' = (left \cup {id}) \ (same \cup out)
      /\ HandBack(gone)
      /\ stats' = [stats EXCEPT !["unanswered"] = @ + Cardinality(old),
                                !["collision"] = @ + Cardinality(same),
                                !["drop"] = @ + Cardinality(out)]
      /\ UNCHANGED <<on_table_full, matches, open>>
  BY DEF OnQuery
<1>2. /\ IsFiniteSet(pending) /\ pending \in SUBSET Nat /\ id \in Nat /\ id \notin pending
      /\ id \in Ctx
  BY <1>1, PendingFinite, BoundsAssumption DEF TypeOK, Ctx
<1>3. old \subseteq pending /\ same \subseteq left
  BY DEF ExpiredPrefix, SameKey
<1> HIDE DEF old, same
<1>4. /\ IsFiniteSet(left) /\ IsFiniteSet(old) /\ IsFiniteSet(same)
      /\ Cardinality(left) = Cardinality(pending) - Cardinality(old)
      /\ Cardinality(left) \in Nat /\ Cardinality(old) \in Nat /\ Cardinality(pending) \in Nat
  BY <1>2, <1>3, RemovePart, FS_Subset
<1>5. /\ out \subseteq (left \cup {id}) \ same
      /\ out = {} \/ (full /\ \E x : out = {x})
  <2>1. full /\ on_table_full = "drop_oldest" => Oldest(left) \in left
    <3>1. full => left # {}
      BY <1>4, FS_EmptySet, CapacityAssumption
    <3> QED
      BY <1>2, <1>4, <3>1, OldestExists
  <2> QED
    BY <2>1, <1>2, <1>3
<1>6. IsFiniteSet(out) /\ Cardinality(out) \in Nat /\ (full => Cardinality(out) = 1)
  <2>1. full => \E x : out = {x}
    OBVIOUS
  <2> QED
    <3> HIDE DEF out, full
    <3>1. CASE out = {}
      BY <2>1, <3>1, FS_EmptySet
    <3>2. CASE \E x : out = {x}
      <4>1. PICK x : out = {x}
        BY <3>2
      <4>2. IsFiniteSet({x}) /\ Cardinality({x}) = 1
        BY FS_Singleton
      <4> QED
        BY <4>1, <4>2
    <3> QED
      BY <1>5, <3>1, <3>2
<1> HIDE DEF out
<1>7. /\ Cardinality(pending') = Cardinality(left) + 1 - Cardinality(same) - Cardinality(out)
      /\ Cardinality(same) \in Nat
  <2>1. IsFiniteSet(left \cup {id}) /\ Cardinality(left \cup {id}) = Cardinality(left) + 1
    BY <1>2, <1>4, FS_AddElement
  <2>2. same \cap out = {} /\ same \cup out \subseteq left \cup {id}
    BY <1>3, <1>5
  <2>3. IsFiniteSet(same \cup out) /\ Cardinality(same \cup out) = Cardinality(same) + Cardinality(out)
    BY <1>4, <1>6, <2>2, DisjointUnion
  <2>4. Cardinality((left \cup {id}) \ (same \cup out))
           = Cardinality(left \cup {id}) - Cardinality(same \cup out)
    BY <2>1, <2>2, RemovePart
  <2>5. Cardinality(same) \in Nat
    BY <1>4, FS_CardinalityType
  <2> QED
    BY <1>1, <1>4, <1>6, <2>1, <2>3, <2>4, <2>5
<1>8. pending' = (pending \cup {id}) \ gone /\ gone \subseteq pending \cup {id}
  BY <1>1, <1>2, <1>3, <1>5
<1> HIDE DEF gone
<1>9. /\ stats' \in [Counters -> Nat]
      /\ stats'["observed"] = stats["observed"]
      /\ stats'["unanswered"] = stats["unanswered"] + Cardinality(old)
      /\ stats'["collision"] = stats["collision"] + Cardinality(same)
      /\ stats'["drop"] = stats["drop"] + Cardinality(out)
  <2>1. /\ stats \in [Counters -> Nat]
        /\ stats' = [stats EXCEPT !["unanswered"] = @ + Cardinality(old),
                                  !["collision"] = @ + Cardinality(same),
                                  !["drop"] = @ + Cardinality(out)]
        /\ Cardinality(old) \in Nat /\ Cardinality(same) \in Nat /\ Cardinality(out) \in Nat
    BY <1>1, <1>4, <1>6, <1>7 DEF TypeOK
  <2> QED
    BY <2>1 DEF Counters
<1>10. Len(queries') = id /\ queries' \in Seq(Query)
       /\ (\A i \in 1..Len(queries) : queries'[i] = queries[i]) /\ queries'[id].key = k
  BY <1>1 DEF TypeOK, Query
<1>11. TypeOK'
  <2>1. pending' \subseteq 1..Len(queries')
    <3>1. pending \subseteq 1..Len(queries) /\ Len(queries) \in Nat
      BY PendingFinite DEF TypeOK
    <3>2. pending' \subseteq pending \cup {id} /\ Len(queries') = Len(queries) + 1
      BY <1>8, <1>10
    <3>3. 1..Len(queries) \subseteq 1..(Len(queries) + 1) /\ id \in 1..(Len(queries) + 1)
      BY <3>1
    <3> QED
      BY <3>1, <3>2, <3>3
  <2>2. handedBack' \in [Ctx -> Nat]
    BY <1>1 DEF TypeOK, HandBack
  <2> QED
    <3>1. Len(queries') <= MaxQueries
      BY <1>1, <1>10, PendingFinite, BoundsAssumption
    <3>2. UNCHANGED <<on_table_full, matches, open>>
      BY <1>1
    <3> QED
      BY <1>9, <1>10, <2>1, <2>2, <3>1, <3>2 DEF TypeOK
<1>12. HandedBackOnce'
  <2>1. ASSUME NEW i \in Ctx
        PROVE  handedBack'[i] = IF i <= Len(queries') /\ i \notin pending' THEN 1 ELSE 0
    <3>1. handedBack'[i] = handedBack[i] + (IF i \in gone THEN 1 ELSE 0)
      BY <1>1 DEF HandBack
    <3>2. handedBack[i] = IF i <= Len(queries) /\ i \notin pending THEN 1 ELSE 0
      BY DEF HandedBackOnce
    <3>3. i \in Nat /\ (i <= id <=> i <= Len(queries) \/ i = id) /\ (i \in pending => i <= Len(queries))
          /\ ~(id <= Len(queries))
      BY <1>2, PendingFinite DEF TypeOK, Ctx
    <3> QED
      BY <1>2, <1>8, <1>10, <3>1, <3>2, <3>3
  <2> QED
    BY <1>1, <2>1 DEF HandedBackOnce
<1>13. Balanced'
  <2>1. /\ stats["observed"] \in Nat /\ stats["unanswered"] \in Nat
        /\ stats["collision"] \in Nat /\ stats["drop"] \in Nat
    BY DEF TypeOK, Counters
  <2> QED
    <3>1. /\ Cardinality(pending') = Cardinality(pending) - Cardinality(old) + 1
                                       - Cardinality(same) - Cardinality(out)
          /\ Len(queries') = Len(queries) + 1 /\ Len(queries) \in Nat
          /\ Cardinality(pending) \in Nat /\ Cardinality(old) \in Nat
          /\ Cardinality(same) \in Nat /\ Cardinality(out) \in Nat
      BY <1>4, <1>6, <1>7, <1>10, PendingFinite
    <3> QED
      <4>1. /\ stats'["observed"] = stats["observed"]
            /\ stats'["unanswered"] = stats["unanswered"] + Cardinality(old)
            /\ stats'["collision"] = stats["collision"] + Cardinality(same)
            /\ stats'["drop"] = stats["drop"] + Cardinality(out)
        BY <1>9
      <4>2. Len(queries) = stats["observed"] + stats["unanswered"] + stats["collision"]
                             + stats["drop"] + Cardinality(pending)
        BY DEF Balanced
      <4>3. Len(queries') = stats'["observed"] + stats'["unanswered"] + stats'["collision"]
                              + stats'["drop"] + Cardinality(pending')
        <5>1. Len(queries') = (stats["observed"] + stats["unanswered"] + stats["collision"]
                                 + stats["drop"] + Cardinality(pending)) + 1
          BY <3>1, <4>2, Zenon
        <5>2. (stats["observed"] + stats["unanswered"] + stats["collision"]
                 + stats["drop"] + Cardinality(pending)) + 1
              = stats["observed"] + (stats["unanswered"] + Cardinality(old))
                  + (stats["collision"] + Cardinality(same)) + (stats["drop"] + Cardinality(out))
                  + (Cardinality(pending) - Cardinality(old) + 1 - Cardinality(same)
                       - Cardinality(out))
          <6>1. /\ Cardinality(pending) \in Nat /\ Cardinality(old) \in Nat
                /\ Cardinality(same) \in Nat /\ Cardinality(out) \in Nat
            BY <3>1
          <6> QED
            BY <2>1, <6>1
        <5> QED
          BY <3>1, <4>1, <5>1, <5>2, Zenon
      <4> QED
        BY <4>3 DEF Balanced
<1>14. NewestWins'
  <2> SUFFICES ASSUME NEW i \in pending', NEW j \in (i + 1)..Len(queries')
               PROVE  queries'[j].key # queries'[i].key
    BY DEF NewestWins
  <2>1. i \in pending /\ i \in 1..Len(queries) /\ i \notin same /\ i \in left
    <3>1. i # id
      BY <1>2, <1>10
    <3> QED
      BY <1>1, <1>3, <1>8, <3>1 DEF TypeOK
  <2>2. CASE j = id
    BY <1>10, <2>1, <2>2 DEF SameKey, same
  <2>3. CASE j # id
    <3>1. j \in (i + 1)..Len(queries) /\ j \in 1..Len(queries)
      BY <1>2, <1>10, <2>1, <2>3
    <3> QED
      BY <1>10, <2>1, <3>1 DEF NewestWins
  <2> QED
    BY <2>2, <2>3
<1>15. Bounded'
  <2>1. CASE full
    BY <1>4, <1>6, <1>7, <2>1, CapacityAssumption DEF Bounded
  <2>2. CASE same # {}
    <3>1. Cardinality(same) > 0
      BY <1>4, <1>7, <2>2, FS_EmptySet
    <3> QED
      BY <1>4, <1>6, <1>7, <3>1, CapacityAssumption DEF Bounded
  <2>3. CASE Cardinality(left) # Capacity
    BY <1>4, <1>6, <1>7, <2>3, CapacityAssumption DEF Bounded
  <2> QED
    BY <2>1, <2>2, <2>3
<1> QED
  BY <1>11, <1>12, <1>13, <1>14, <1>15

\* IndInv is inductive.
THEOREM Inductive == Spec => []IndInv
<1>1. Init => IndInv
  <2> SUFFICES ASSUME Init PROVE IndInv
    OBVIOUS
  <2>1. Cardinality(pending) = 0 /\ Len(queries) = 0
    BY FS_EmptySet DEF Init
  <2>2. TypeOK
    BY BoundsAssumption DEF Init, TypeOK, Counters, Query
  <2>3. HandedBackOnce /\ NewestWins
    BY DEF Init, HandedBackOnce, NewestWins, Ctx
  <2>4. Balanced /\ Bounded
    BY <2>1, CapacityAssumption DEF Init, Balanced, Bounded, Counters
  <2> QED
    BY <2>2, <2>3, <2>4 DEF IndInv
<1>2. IndInv /\ [Next]_vars => IndInv'
  <2> SUFFICES ASSUME IndInv, [Next]_vars PROVE IndInv'
    OBVIOUS
  <2>1. ASSUME NEW k \in Keys, NEW now \in Times, OnQuery(k, now) PROVE IndInv'
    BY <2>1, OnQueryKeeps
  <2>2. ASSUME NEW k \in Keys, NEW now \in Times, OnResponse(k, now) PROVE IndInv'
    BY <2>2, OnResponseKeeps
  <2>3. ASSUME NEW now \in Times, Tick(now) PROVE IndInv'
    <3>1. ExpiredPrefix(now, Capacity) \in SUBSET pending
      BY DEF ExpiredPrefix
    <3>2. open' \in BOOLEAN /\ open' /\ Discard(ExpiredPrefix(now, Capacity))
      BY <2>3 DEF Tick, IndInv, TypeOK
    <3> QED
      BY <3>1, <3>2, DiscardKeeps
  <2>4. CASE Free
    <3>1. open' \in BOOLEAN /\ Discard(pending) /\ pending \in SUBSET pending
      BY <2>4 DEF Free
    <3> QED
      BY <3>1, DiscardKeeps
  <2>5. CASE UNCHANGED vars
    BY <2>5 DEF vars, IndInv, TypeOK, HandedBackOnce, Balanced, NewestWins, Bounded
  <2> QED
    BY <2>1, <2>2, <2>3, <2>4, <2>5 DEF Next
<1> QED
  BY <1>1, <1>2, PTL DEF Spec

\* correlation.h's ownership contract: every query context comes back through
\* exactly one emit() call, and none is left after cf_dns_correlator_free().
THEOREM HandedBackOnceCorrect == Spec => []HandedBackOnce
<1>1. IndInv => HandedBackOnce
  BY DEF IndInv
<1> QED
  BY <1>1, Inductive, PTL

\* correlation.h's "visible loss": the counters and the depth account for
\* every query the correlator was given.
THEOREM BalancedCorrect == Spec => []Balanced
<1>1. IndInv => Balanced
  BY DEF IndInv
<1> QED
  BY <1>1, Inductive, PTL

\* A pending query is the newest under its key, and the table is bounded.
THEOREM NewestWinsCorrect == Spec => [](NewestWins /\ Bounded)
<1>1. IndInv => NewestWins /\ Bounded
  BY DEF IndInv
<1> QED
  BY <1>1, Inductive, PTL

=============================================================================
