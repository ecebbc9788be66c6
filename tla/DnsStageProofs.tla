-------------------------- MODULE DnsStageProofs ----------------------------
(***************************************************************************)
(* For every capture order and every set of packets the stage and its      *)
(* correlator may see, for every timeout, capacity, ring delay and         *)
(* sampling: a query whose answer was captured in time is observed, every  *)
(* transaction ends in one event, and no counter is lost to the resets of  *)
(* the stats window.                                                       *)
(***************************************************************************)
EXTENDS DnsStage, FiniteSetTheorems, WellFoundedInduction, TLAPS

(* The inductive invariant.                                                *)

\* A packet that waits, with the time it carries.
Frames == [pkt : Templates, time : Times]

\* Types of the stage's variables.
TypeStage ==
    /\ mode \in {"live", "replay"} /\ clock \in Int /\ (mode = "live" => clock \in 0..MaxTime)
    /\ ring \in Seq(Frames) /\ in \in Seq(Frames)
    /\ tickAt = <<>> \/ \E x \in Times : tickAt = <<x>>
    /\ given \in [queries : Seq(Frames), responses : Seq(Frames), before : Seq(Nat)]
    /\ shared \in [StageCounters -> Nat] /\ reported \in [StageCounters -> Nat]
    /\ synced \in [Synced -> Nat]

\* The packets behind what the correlator was given.
History ==
    /\ Len(given.queries) = Len(queries)
    /\ \A i \in 1..Len(queries) : /\ queries[i].key = BuildKey(given.queries[i].pkt)
                                  /\ queries[i].time = given.queries[i].time
    /\ Len(given.responses) = Len(matches) /\ Len(given.before) = Len(matches)
    /\ \A r \in 1..Len(matches) : given.before[r] <= Len(queries)

\* Nothing that is still to be processed was captured before x.
NotBefore(x) ==
    /\ x <= clock
    /\ \A i \in 1..Len(in) : x <= in[i].time
    /\ \A j \in 1..Len(ring) : x <= ring[j].time

\* Live, packets come in the order of their capture, and the ring holds none
\* for longer than RingDelay.
InTime ==
    mode = "live" =>
        /\ \A i, j \in 1..Len(in) : i <= j => in[i].time <= in[j].time
        /\ \A i, j \in 1..Len(ring) : i <= j => ring[i].time <= ring[j].time
        /\ \A i \in 1..Len(in) : in[i].time <= clock /\ \A j \in 1..Len(ring) : in[i].time <= ring[j].time
        /\ \A j \in 1..Len(ring) : ring[j].time <= clock /\ clock - ring[j].time <= RingDelay
        /\ tickAt # <<>> => NotBefore(tickAt[1])

\* Between an empty pop and the tick behind it: what has come since was in the
\* ring at the pop or captured after it, and the clock has not gone far.
Idle ==
    mode = "live" /\ idleAt # <<>> =>
        /\ idleAt[1] \in Int /\ NotBefore(idleAt[1] - RingDelay)
        /\ clock - idleAt[1] <= PollDelay

\* No answer to query i that comes now was captured soon enough.
TooLate(i) == NotBefore(queries[i].time + (Timeout - Lag) + 1)

\* Query i was matched with a response.
Taken(i) == \E s \in 1..Len(matches) : matches[s] = i

\* Why a query is no longer pending.
Departures ==
    mode = "live" /\ open =>
        \A i \in 1..Len(queries) : i \in pending \/ Displaced(i) \/ Taken(i) \/ TooLate(i)

\* What the stage has taken over of the correlator's counters.
Ledger ==
    \A c \in Synced :
        /\ synced[c] <= stats[c] /\ Total(c) = synced[c]
        /\ tickAt = <<>> => synced[c] = stats[c]

\* An event of a response that was given; only routine answered transactions
\* were sampled out.
EventSound(k) ==
    /\ events[k].response \in 0..Len(matches)
    /\ events[k].fate = "sampled_out" =>
          /\ events[k].outcome = "observed" /\ events[k].response # 0
          /\ given.responses[events[k].response].pkt.rcode = 0

\* Every context the correlator handed back is in an event, and so is every
\* response.
Books ==
    /\ \E U : events \in Seq(U)
    /\ \A k \in 1..Len(events) : EventSound(k)
    /\ \A i \in 1..MaxQueries : EventsOfQuery(i) = handedBack[i]
    /\ \A r \in 1..MaxResponses : EventsOfResponse(r) = IF r <= Len(matches) THEN 1 ELSE 0

\* What the stage's own counters count.
Totals ==
    /\ Total("queries_parsed") = Len(queries) /\ Total("responses_parsed") = Len(matches)
    /\ Total("emitted") = WithFate({"emitted", "queue_drop"})
    /\ \A c \in {"queue_drop", "oversize", "encode_failure", "sampled_out"} : Total(c) = WithFate({c})
    /\ Total("emitted") = Total("client_facing") + Total("backend") + Total("recursion_upstream")
                             + Total("unknown")

(* The correlator, whose invariant PendingQueriesProofs establishes.       *)

PP == INSTANCE PendingQueriesProofs

\* The story of the packets and of the correlator, then what the stage counts
\* and emits of it.
Story == TypeStage /\ PP!IndInv /\ History /\ InTime /\ Departures /\ AnsweredIsObserved

\* The inductive invariant: AnsweredIsObserved needs to know why a query left
\* the table and that nothing arrives late; the numbers need what the stage
\* took over from the correlator and which events it made.
StageInv == Story /\ Ledger /\ Books /\ Totals

\* What the correlator's invariant says, in the stage's terms.
Core ==
    /\ queries \in Seq([key : Keys, time : Times]) /\ Len(queries) \in Nat /\ Len(queries) <= MaxQueries
    /\ pending \subseteq 1..Len(queries) /\ IsFiniteSet(pending)
    /\ handedBack \in [1..MaxQueries -> Nat]
    /\ matches \in Seq(Nat) /\ Len(matches) \in Nat /\ Len(matches) <= MaxResponses
    /\ stats \in [Counters -> Nat] /\ open \in BOOLEAN
    /\ \A i \in 1..MaxQueries : handedBack[i] = IF i <= Len(queries) /\ i \notin pending THEN 1 ELSE 0
    /\ \A i \in pending : \A j \in (i + 1)..Len(queries) : queries[j].key # queries[i].key

\* It says so.
LEMMA CoreHolds == PP!IndInv => Core
<1> SUFFICES ASSUME PP!IndInv PROVE Core
  OBVIOUS
<1>1. PP!TypeOK /\ PP!HandedBackOnce /\ PP!NewestWins
  BY DEF PP!IndInv
<1>2. /\ queries \in Seq([key : Keys, time : Times]) /\ Len(queries) <= MaxQueries
      /\ pending \subseteq 1..Len(queries) /\ handedBack \in [1..MaxQueries -> Nat]
      /\ matches \in Seq(Nat) /\ Len(matches) <= MaxResponses
      /\ stats \in [Counters -> Nat] /\ open \in BOOLEAN
  BY <1>1 DEF PP!TypeOK, PP!Query, PP!Ctx, PP!Counters, Counters
<1>3. Len(queries) \in Nat /\ Len(matches) \in Nat
  BY <1>2
<1>4. IsFiniteSet(pending)
  <2>1. IsFiniteSet(1..Len(queries))
    BY <1>3, FS_Interval
  <2> QED
    BY <1>2, <2>1, FS_Subset
<1>5. /\ \A i \in 1..MaxQueries : handedBack[i] = IF i <= Len(queries) /\ i \notin pending THEN 1 ELSE 0
      /\ \A i \in pending : \A j \in (i + 1)..Len(queries) : queries[j].key # queries[i].key
  BY <1>1 DEF PP!HandedBackOnce, PP!NewestWins, PP!Ctx
<1> QED
  BY <1>2, <1>3, <1>4, <1>5 DEF Core

\* So it does after a step.
LEMMA CoreHoldsNext == PP!IndInv' => Core'
  BY CoreHolds, PTL

\* cf_dns_correlator_on_query().
LEMMA CoreQuery ==
    ASSUME PP!IndInv, NEW k \in Keys, NEW now \in Times, P!OnQuery(k, now)
    PROVE  PP!IndInv'
<1>1. PP!OnQuery(k, now)
  BY DEF P!OnQuery, PP!OnQuery, P!ExpiredPrefix, PP!ExpiredPrefix, P!Expired, PP!Expired, P!SameKey, PP!SameKey,
         P!Oldest, PP!Oldest, P!HandBack, PP!HandBack, P!Ctx, PP!Ctx, P!Cardinality, PP!Cardinality
<1> QED
  BY <1>1, PP!OnQueryKeeps, CapacityAssumption, TimesAssumption, TimeoutAssumption, EvictAssumption,
     FullPoliciesAssumption, BoundsAssumption

\* cf_dns_correlator_on_response().
LEMMA CoreResponse ==
    ASSUME PP!IndInv, NEW k \in Keys, NEW now \in Times, P!OnResponse(k, now)
    PROVE  PP!IndInv'
<1>1. PP!OnResponse(k, now)
  BY DEF P!OnResponse, PP!OnResponse, P!SameKey, PP!SameKey, P!HandBack, PP!HandBack, P!Ctx, PP!Ctx
<1> QED
  BY <1>1, PP!OnResponseKeeps, CapacityAssumption, TimesAssumption, TimeoutAssumption, EvictAssumption,
     FullPoliciesAssumption, BoundsAssumption

\* cf_dns_correlator_tick() and cf_dns_correlator_free().
LEMMA CoreDiscard ==
    ASSUME PP!IndInv, NEW S \in SUBSET pending, P!Discard(S), open' \in BOOLEAN, open' \/ S = pending
    PROVE  PP!IndInv'
<1>1. PP!Discard(S)
  BY DEF P!Discard, PP!Discard, P!HandBack, PP!HandBack, P!Ctx, PP!Ctx, P!Cardinality, PP!Cardinality
<1> QED
  BY <1>1, PP!DiscardKeeps, CapacityAssumption, TimesAssumption, TimeoutAssumption, EvictAssumption,
     FullPoliciesAssumption, BoundsAssumption

\* A call that is not made changes nothing.
LEMMA CoreSame ==
    ASSUME PP!IndInv, UNCHANGED correlator
    PROVE  PP!IndInv'
<1>1. UNCHANGED <<on_table_full, queries, pending, handedBack, matches, stats, open>>
  BY DEF correlator
<1> QED
  BY <1>1 DEF PP!IndInv, PP!TypeOK, PP!HandedBackOnce, PP!Balanced, PP!NewestWins, PP!Bounded

\* The correlator as it is made.
LEMMA CoreInit ==
    ASSUME P!Init
    PROVE  PP!IndInv
<1>0. Cardinality({}) = 0
  BY FS_EmptySet
<1>1. PP!Cardinality({}) = 0
  BY <1>0 DEF PP!Cardinality, Cardinality
<1>2. /\ on_table_full \in FullPolicies /\ queries = <<>> /\ pending = {} /\ open = TRUE
      /\ handedBack = [i \in PP!Ctx |-> 0] /\ matches = <<>> /\ stats = [c \in PP!Counters |-> 0]
  BY DEF P!Init, P!Ctx, PP!Ctx, P!Counters, PP!Counters
<1>3. PP!TypeOK
  BY <1>2, BoundsAssumption DEF PP!TypeOK, PP!Counters, PP!Query
<1>4. PP!HandedBackOnce /\ PP!NewestWins
  BY <1>2 DEF PP!HandedBackOnce, PP!NewestWins, PP!Ctx
<1>5. PP!Balanced /\ PP!Bounded
  BY <1>1, <1>2, CapacityAssumption DEF PP!Balanced, PP!Bounded, PP!Counters
<1> QED
  BY <1>3, <1>4, <1>5 DEF PP!IndInv

\* What a call of the correlator does to its counters and to the contexts.
Advances ==
    /\ \A c \in Counters : stats[c] <= stats'[c]
    /\ \A i \in 1..MaxQueries : handedBack'[i] = handedBack[i] \/ handedBack'[i] = handedBack[i] + 1

\* Sizes, as the correlator's module counts them.
LEMMA Sizes ==
    ASSUME NEW S, IsFiniteSet(S)
    PROVE  P!Cardinality(S) \in Nat /\ P!Cardinality(S) = Cardinality(S)
<1>1. Cardinality(S) \in Nat
  BY FS_CardinalityType
<1>2. P!Cardinality(S) = Cardinality(S)
  BY DEF P!Cardinality, Cardinality
<1> QED
  BY <1>1, <1>2

\* A part of the pending queries.
LEMMA PendingPart ==
    ASSUME PP!IndInv, NEW S \in SUBSET pending
    PROVE  P!Cardinality(S) \in Nat
<1>1. IsFiniteSet(S)
  BY CoreHolds, FS_Subset DEF Core
<1> QED
  BY <1>1, Sizes

\* A query leaves the table because it has expired, is superseded, or the table
\* is full.
LEMMA QueryEffect ==
    ASSUME PP!IndInv, NEW k \in Keys, NEW now \in Times, P!OnQuery(k, now)
    PROVE  /\ queries' = Append(queries, [key |-> k, time |-> now])
           /\ open /\ UNCHANGED <<on_table_full, matches, open>>
           /\ Advances
           /\ \A i \in pending \ pending' :
                 now - queries[i].time > Timeout \/ queries[i].key = k \/ stats'["drop"] > 0
           /\ Len(queries) + 1 \in pending' \/ stats'["drop"] > 0
<1> DEFINE id   == Len(queries) + 1
           old  == P!ExpiredPrefix(now, EvictMax)
           left == pending \ old
           same == P!SameKey(left, k)
           full == same = {} /\ P!Cardinality(left) = Capacity
           out  == IF ~full THEN {}
                   ELSE IF on_table_full = "drop_oldest" THEN {P!Oldest(left)} ELSE {id}
           gone == old \cup same \cup out
<1>1. /\ open
      /\ queries' = Append(queries, [key |-> k, time |-> now])
      /\ pending' = (left \cup {id}) \ (same \cup out)
      /\ P!HandBack(gone)
      /\ stats' = [stats EXCEPT !["unanswered"] = @ + P!Cardinality(old),
                                !["collision"] = @ + P!Cardinality(same),
                                !["drop"] = @ + P!Cardinality(out)]
      /\ UNCHANGED <<on_table_full, matches, open>>
  BY DEF P!OnQuery
<1>2. old \subseteq pending /\ same \subseteq pending
  BY DEF P!ExpiredPrefix, P!SameKey
<1>3. /\ \A i \in old : now - queries[i].time > Timeout
      /\ \A i \in same : queries[i].key = k
  <2>1. \A i \in old : i <= i
    BY <1>2, CoreHolds DEF Core
  <2> QED
    BY <2>1 DEF P!ExpiredPrefix, P!Expired, P!SameKey
<1>4. out = {} \/ \E x : out = {x}
  OBVIOUS
<1>5. P!Cardinality(old) \in Nat /\ P!Cardinality(same) \in Nat
  BY <1>2, PendingPart
<1>6. P!Cardinality(out) \in Nat /\ (out # {} => P!Cardinality(out) > 0)
  <2> HIDE DEF out
  <2>1. CASE out = {}
    BY <2>1, FS_EmptySet, Sizes
  <2>2. CASE \E x : out = {x}
    <3>1. PICK x : out = {x}
      BY <2>2
    <3>2. IsFiniteSet({x}) /\ Cardinality({x}) = 1
      BY FS_Singleton
    <3> QED
      BY <3>1, <3>2, Sizes
  <2> QED
    BY <1>4, <2>1, <2>2
<1> DEFINE a == P!Cardinality(old)
           b == P!Cardinality(same)
           d == P!Cardinality(out)
<1>7. stats \in [Counters -> Nat] /\ handedBack \in [1..MaxQueries -> Nat]
  BY CoreHolds DEF Core
<1> HIDE DEF old, same, out, a, b, d, id, gone
<1>8. a \in Nat /\ b \in Nat /\ d \in Nat /\ (out # {} => d > 0)
  BY <1>5, <1>6 DEF a, b, d
<1>9. /\ \A c \in Counters : stats[c] <= stats'[c]
      /\ stats'["drop"] = stats["drop"] + d /\ stats["drop"] \in Nat
  <2>1. stats' = [stats EXCEPT !["unanswered"] = @ + a, !["collision"] = @ + b, !["drop"] = @ + d]
    BY <1>1 DEF a, b, d
  <2> QED
    BY <1>7, <1>8, <2>1 DEF Counters
<1>10. \A i \in 1..MaxQueries : handedBack'[i] = handedBack[i] \/ handedBack'[i] = handedBack[i] + 1
  BY <1>1, <1>7 DEF P!HandBack, P!Ctx
<1>11. out # {} => stats'["drop"] > 0
  BY <1>8, <1>9
<1>12. \A i \in pending \ pending' : i \in old \/ i \in same \/ out # {}
  BY <1>1
<1>13. id \in pending' \/ out # {}
  <2>1. id \notin pending
    BY CoreHolds DEF id, Core
  <2> QED
    BY <1>1, <1>2, <2>1
<1> QED
  BY <1>1, <1>3, <1>9, <1>10, <1>11, <1>12, <1>13 DEF Advances, id

\* A response takes a pending query with its key, if there is one.
LEMMA ResponseEffect ==
    ASSUME PP!IndInv, NEW k \in Keys, NEW now \in Times, P!OnResponse(k, now)
    PROVE  /\ open /\ UNCHANGED <<on_table_full, queries, open>>
           /\ Advances /\ stats'["drop"] = stats["drop"]
           /\ \E i \in Nat :
                 /\ matches' = Append(matches, i) /\ pending' = pending \ {i}
                 /\ IF i = 0 THEN \A j \in pending : queries[j].key # k
                    ELSE i \in pending /\ queries[i].key = k
                 /\ \A j \in 1..MaxQueries : handedBack'[j] # handedBack[j] <=> j = i
<1>0. /\ stats \in [Counters -> Nat] /\ handedBack \in [1..MaxQueries -> Nat]
      /\ pending \subseteq 1..Len(queries) /\ Len(queries) \in Nat /\ Len(queries) <= MaxQueries
      /\ queries \in Seq([key : Keys, time : Times]) /\ MaxQueries \in Nat
  BY CoreHolds, BoundsAssumption DEF Core
<1>1. open /\ UNCHANGED <<on_table_full, queries, open>>
  BY DEF P!OnResponse
<1>2. CASE P!SameKey(pending, k) = {}
  <2>1. /\ matches' = Append(matches, 0) /\ stats' = [stats EXCEPT !["unmatched"] = @ + 1]
        /\ UNCHANGED <<pending, handedBack>>
    BY <1>2 DEF P!OnResponse
  <2>2. Advances /\ stats'["drop"] = stats["drop"]
    BY <1>0, <2>1 DEF Advances, Counters
  <2>3. \A j \in pending : queries[j].key # k
    BY <1>2 DEF P!SameKey
  <2>4. pending' = pending \ {0} /\ \A j \in 1..MaxQueries : j # 0
    BY <1>0, <2>1
  <2> QED
    BY <1>1, <2>1, <2>2, <2>3, <2>4
<1>3. CASE P!SameKey(pending, k) # {}
  <2> DEFINE i == CHOOSE i \in P!SameKey(pending, k) : TRUE
             rtt == now - queries[i].time
             bad == IF rtt < 0 \/ rtt > Timeout THEN 1 ELSE 0
  <2>1. i \in pending /\ queries[i].key = k
    BY <1>3 DEF P!SameKey
  <2>2. /\ matches' = Append(matches, i) /\ pending' = pending \ {i} /\ P!HandBack({i})
        /\ stats' = [stats EXCEPT !["observed"] = @ + 1, !["rtt_invalid"] = @ + bad]
    BY <1>3 DEF P!OnResponse
  <2>3. bad \in Nat
    OBVIOUS
  <2> HIDE DEF i, bad
  <2>4. i \in 1..MaxQueries /\ i \in Nat /\ i # 0
    BY <1>0, <2>1
  <2>5. \A c \in Counters : stats[c] <= stats'[c]
    <3>1. /\ stats'["observed"] = stats["observed"] + 1 /\ stats'["rtt_invalid"] = stats["rtt_invalid"] + bad
          /\ \A c \in Counters \ {"observed", "rtt_invalid"} : stats'[c] = stats[c]
      BY <1>0, <2>2 DEF Counters
    <3>2. \A c \in Counters : stats[c] \in Nat
      BY <1>0
    <3> QED
      BY <2>3, <3>1, <3>2 DEF Counters
  <2>6. stats'["drop"] = stats["drop"]
    BY <1>0, <2>2, <2>3 DEF Counters
  <2>7. \A j \in 1..MaxQueries : handedBack'[j] = handedBack[j] + (IF j = i THEN 1 ELSE 0)
    BY <2>2 DEF P!HandBack, P!Ctx
  <2>8. Advances /\ \A j \in 1..MaxQueries : handedBack'[j] # handedBack[j] <=> j = i
    BY <1>0, <2>5, <2>7 DEF Advances
  <2> QED
    BY <1>1, <2>1, <2>2, <2>4, <2>6, <2>8
<1> QED
  BY <1>2, <1>3

\* Ticks and the end of the engine discard unanswered queries.
LEMMA DiscardEffect ==
    ASSUME PP!IndInv, NEW S \in SUBSET pending, P!Discard(S)
    PROVE  /\ UNCHANGED <<on_table_full, queries, matches>> /\ pending' = pending \ S
           /\ Advances /\ stats'["drop"] = stats["drop"]
<1>0. stats \in [Counters -> Nat] /\ handedBack \in [1..MaxQueries -> Nat]
  BY CoreHolds DEF Core
<1> DEFINE a == P!Cardinality(S)
<1>1. a \in Nat
  BY PendingPart
<1>2. /\ UNCHANGED <<on_table_full, queries, matches>> /\ pending' = pending \ S
      /\ P!HandBack(S) /\ stats' = [stats EXCEPT !["unanswered"] = @ + a]
  BY DEF P!Discard
<1> HIDE DEF a
<1>3. (\A c \in Counters : stats[c] <= stats'[c]) /\ stats'["drop"] = stats["drop"]
  BY <1>0, <1>1, <1>2 DEF Counters
<1>4. \A i \in 1..MaxQueries : handedBack'[i] = handedBack[i] \/ handedBack'[i] = handedBack[i] + 1
  BY <1>0, <1>2 DEF P!HandBack, P!Ctx
<1> QED
  BY <1>2, <1>3, <1>4 DEF Advances

-----------------------------------------------------------------------------
(* Capture times.                                                          *)

\* A captured packet.
LEMMA FrameFacts ==
    ASSUME NEW f \in Frames
    PROVE  f.pkt \in Templates /\ f.time \in Times /\ f.time \in Int
  BY TimesAssumption DEF Frames

\* A queue of packets.
LEMMA QueueFacts ==
    ASSUME NEW s \in Seq(Frames)
    PROVE  /\ Len(s) \in Nat /\ \A i \in 1..Len(s) : s[i] \in Frames /\ s[i].time \in Int
           /\ s # <<>> => /\ 1 \in 1..Len(s) /\ Head(s) = s[1] /\ Head(s) \in Frames
                          /\ Tail(s) \in Seq(Frames) /\ Len(Tail(s)) = Len(s) - 1
                          /\ \A i \in 1..Len(Tail(s)) : i + 1 \in 1..Len(s) /\ Tail(s)[i] = s[i + 1]
<1>1. Len(s) \in Nat /\ \A i \in 1..Len(s) : s[i] \in Frames
  OBVIOUS
<1>2. \A i \in 1..Len(s) : s[i].time \in Int
  BY <1>1, FrameFacts
<1>3. ASSUME s # <<>>
      PROVE  /\ 1 \in 1..Len(s) /\ Head(s) = s[1] /\ Head(s) \in Frames
             /\ Tail(s) \in Seq(Frames) /\ Len(Tail(s)) = Len(s) - 1
             /\ \A i \in 1..Len(Tail(s)) : i + 1 \in 1..Len(s) /\ Tail(s)[i] = s[i + 1]
  BY <1>3
<1> QED
  BY <1>1, <1>2, <1>3

\* A queue of packets with one more.
LEMMA AppendFacts ==
    ASSUME NEW s \in Seq(Frames), NEW f \in Frames
    PROVE  /\ Append(s, f) \in Seq(Frames) /\ Len(Append(s, f)) = Len(s) + 1 /\ Len(s) \in Nat
           /\ \A i \in 1..Len(s) : i \in 1..(Len(s) + 1) /\ Append(s, f)[i] = s[i]
           /\ Append(s, f)[Len(s) + 1] = f
           /\ \A i \in 1..(Len(s) + 1) : i \in 1..Len(s) \/ i = Len(s) + 1
  OBVIOUS

\* How the queues of packets change in a step.
Takes == in # <<>> /\ in' = Tail(in) /\ UNCHANGED <<clock, ring, mode>>

\* No packet moves and no time passes.
Still == UNCHANGED <<clock, ring, in, mode>>

\* Without a packet taken or moved nothing is late.
LEMMA StillInTime ==
    ASSUME TypeStage, InTime, Still, tickAt' = <<>> \/ tickAt' = tickAt
    PROVE  InTime' /\ \A x \in Int : NotBefore(x) => NotBefore(x)'
  BY DEF InTime, NotBefore, Still

\* The next packet is taken: no other is older.
LEMMA TakeInTime ==
    ASSUME TypeStage, InTime, Takes, tickAt' = <<>> \/ tickAt' = <<Head(in).time>>
    PROVE  /\ InTime' /\ \A x \in Int : NotBefore(x) => NotBefore(x)'
           /\ in' \in Seq(Frames)
           /\ mode = "live" => \A x \in Int : x = Head(in).time => NotBefore(x)'
<1>1. /\ in \in Seq(Frames) /\ in # <<>> /\ in' = Tail(in) /\ clock' = clock /\ ring' = ring /\ mode' = mode
      /\ ring \in Seq(Frames) /\ clock \in Int
  BY DEF Takes, TypeStage
<1>2. /\ 1 \in 1..Len(in) /\ Head(in) = in[1] /\ Tail(in) \in Seq(Frames)
      /\ \A i \in 1..Len(in') : i + 1 \in 1..Len(in) /\ in'[i] = in[i + 1] /\ in'[i].time \in Int
      /\ \A i \in 1..Len(in) : in[i].time \in Int /\ i \in Int /\ 1 <= i
  BY <1>1, QueueFacts
<1>3. Len(in') \in Nat /\ Len(ring) \in Nat
  BY <1>1, <1>2, QueueFacts
<1>4. \A x \in Int : NotBefore(x) => NotBefore(x)'
  BY <1>1, <1>2 DEF NotBefore
<1>5. ASSUME mode = "live", NEW x \in Int, x = Head(in).time PROVE NotBefore(x)'
  <2>1. \A i \in 1..Len(in) : in[1].time <= in[i].time
    BY <1>2, <1>5 DEF InTime
  <2>2. in[1].time <= clock /\ \A j \in 1..Len(ring) : in[1].time <= ring[j].time
    BY <1>2, <1>5 DEF InTime
  <2>3. \A i \in 1..Len(in') : in[1].time <= in'[i].time
    BY <1>2, <2>1
  <2>4. x <= clock' /\ (\A j \in 1..Len(ring') : x <= ring'[j].time) /\ \A i \in 1..Len(in') : x <= in'[i].time
    BY <1>1, <1>2, <1>5, <2>2, <2>3
  <2> QED
    BY <2>4 DEF NotBefore
<1>6. InTime'
  <2> SUFFICES ASSUME mode = "live" PROVE InTime'
    BY <1>1 DEF InTime
  <2>1. \A i, j \in 1..Len(in') : i <= j => in'[i].time <= in'[j].time
    <3> SUFFICES ASSUME NEW i \in 1..Len(in'), NEW j \in 1..Len(in'), i <= j
                 PROVE  in'[i].time <= in'[j].time
      OBVIOUS
    <3>1. i + 1 <= j + 1
      BY <1>3
    <3> QED
      BY <1>2, <3>1 DEF InTime
  <2>2. \A i \in 1..Len(in') : in'[i].time <= clock /\ \A j \in 1..Len(ring) : in'[i].time <= ring[j].time
    BY <1>2 DEF InTime
  <2>3. tickAt' # <<>> => tickAt'[1] = Head(in).time /\ Head(in).time \in Int
    BY <1>2
  <2>4. tickAt' # <<>> => NotBefore(tickAt[1])'
    BY <1>5, <2>3 DEF NotBefore
  <2> QED
    BY <1>1, <2>1, <2>2, <2>4 DEF InTime
<1> QED
  BY <1>1, <1>2, <1>4, <1>5, <1>6

\* The rx-reader takes the oldest packet of the ring.
LEMMA HandOverInTime ==
    ASSUME TypeStage, InTime, HandOver
    PROVE  /\ InTime' /\ in' \in Seq(Frames) /\ ring' \in Seq(Frames)
           /\ \A x \in Int : NotBefore(x) => NotBefore(x)'
<1>1. /\ in \in Seq(Frames) /\ ring \in Seq(Frames) /\ ring # <<>> /\ clock \in Int
      /\ in' = Append(in, Head(ring)) /\ ring' = Tail(ring)
      /\ clock' = clock /\ mode' = mode /\ tickAt' = tickAt
  BY DEF HandOver, TypeStage, stage
<1>2. /\ 1 \in 1..Len(ring) /\ Head(ring) = ring[1] /\ Head(ring) \in Frames /\ ring' \in Seq(Frames)
      /\ \A i \in 1..Len(ring') : i + 1 \in 1..Len(ring) /\ ring'[i] = ring[i + 1]
      /\ \A i \in 1..Len(ring) : ring[i].time \in Int /\ i \in Int /\ 1 <= i
      /\ Len(ring') \in Nat
  BY <1>1, QueueFacts
<1>3. /\ in' \in Seq(Frames) /\ Len(in') = Len(in) + 1 /\ Len(in) \in Nat
      /\ \A i \in 1..Len(in') : (i \in 1..Len(in) /\ in'[i] = in[i]) \/ (i = Len(in) + 1 /\ in'[i] = ring[1])
      /\ \A i \in 1..Len(in) : in[i].time \in Int
  BY <1>1, <1>2, AppendFacts, QueueFacts
<1>4. \A x \in Int : NotBefore(x) => NotBefore(x)'
  BY <1>1, <1>2, <1>3 DEF NotBefore
<1>5. InTime'
  <2> SUFFICES ASSUME mode = "live" PROVE InTime'
    BY <1>1 DEF InTime
  <2>0. \A j \in 1..Len(ring) : ring[1].time <= ring[j].time
    BY <1>2 DEF InTime
  <2>1. \A i, j \in 1..Len(in') : i <= j => in'[i].time <= in'[j].time
    <3> SUFFICES ASSUME NEW i \in 1..Len(in'), NEW j \in 1..Len(in'), i <= j
                 PROVE  in'[i].time <= in'[j].time
      OBVIOUS
    <3>1. CASE j \in 1..Len(in)
      <4>1. i \in 1..Len(in)
        BY <1>3, <3>1
      <4> QED
        BY <1>3, <3>1, <4>1 DEF InTime
    <3>2. CASE i \in 1..Len(in) /\ j = Len(in) + 1
      BY <1>2, <1>3, <3>2 DEF InTime
    <3>3. CASE i = Len(in) + 1 /\ j = Len(in) + 1
      BY <1>2, <1>3, <3>3
    <3>4. j \in 1..Len(in) \/ (i \in 1..Len(in) /\ j = Len(in) + 1) \/ (i = Len(in) + 1 /\ j = Len(in) + 1)
      BY <1>3
    <3> QED
      BY <3>1, <3>2, <3>3, <3>4
  <2>2. \A i, j \in 1..Len(ring') : i <= j => ring'[i].time <= ring'[j].time
    <3> SUFFICES ASSUME NEW i \in 1..Len(ring'), NEW j \in 1..Len(ring'), i <= j
                 PROVE  ring'[i].time <= ring'[j].time
      OBVIOUS
    <3>1. i + 1 <= j + 1
      BY <1>2
    <3> QED
      BY <1>2, <3>1 DEF InTime
  <2>3. \A i \in 1..Len(in') : in'[i].time <= clock /\ \A j \in 1..Len(ring') : in'[i].time <= ring'[j].time
    BY <1>2, <1>3, <2>0 DEF InTime
  <2>4. \A j \in 1..Len(ring') : ring'[j].time <= clock /\ clock - ring'[j].time <= RingDelay
    BY <1>2 DEF InTime
  <2>5. tickAt # <<>> => NotBefore(tickAt[1])'
    BY <1>1, <1>4, TimesAssumption DEF InTime, TypeStage
  <2> QED
    BY <1>1, <2>1, <2>2, <2>3, <2>4, <2>5 DEF InTime, NotBefore
<1> QED
  BY <1>2, <1>3, <1>4, <1>5

\* A packet is captured: it is the newest.
LEMMA CaptureInTime ==
    ASSUME TypeStage, InTime, NEW p \in Templates, Capture(p)
    PROVE  InTime' /\ ring' \in Seq(Frames) /\ \A x \in Int : NotBefore(x) => NotBefore(x)'
<1> DEFINE f == Stamped(p, clock)
<1>1. /\ ring \in Seq(Frames) /\ clock \in Int /\ mode = "live" /\ clock \in 0..MaxTime
      /\ in' = in /\ ring' = Append(ring, f) /\ clock' = clock /\ mode' = mode /\ tickAt' = tickAt
      /\ in \in Seq(Frames)
  BY DEF Capture, TypeStage, stage
<1>2. f \in Frames /\ f.time = clock
  BY <1>1, StageTimesAssumption DEF Stamped, Frames
<1> HIDE DEF f
<1>3. /\ ring' \in Seq(Frames) /\ Len(ring') = Len(ring) + 1 /\ Len(ring) \in Nat
      /\ \A i \in 1..Len(ring') : \/ i \in 1..Len(ring) /\ ring'[i] = ring[i]
                                  \/ i = Len(ring) + 1 /\ ring'[i] = f
      /\ \A i \in 1..Len(ring) : ring[i].time \in Int
      /\ \A i \in 1..Len(in) : in[i].time \in Int
  BY <1>1, <1>2, AppendFacts, QueueFacts
<1>4. \A x \in Int : NotBefore(x) => NotBefore(x)'
  BY <1>1, <1>2, <1>3 DEF NotBefore
<1>5. InTime'
  <2>1. \A i, j \in 1..Len(ring') : i <= j => ring'[i].time <= ring'[j].time
    <3> SUFFICES ASSUME NEW i \in 1..Len(ring'), NEW j \in 1..Len(ring'), i <= j
                 PROVE  ring'[i].time <= ring'[j].time
      OBVIOUS
    <3>1. CASE j \in 1..Len(ring)
      <4>1. i \in 1..Len(ring)
        BY <1>3, <3>1
      <4> QED
        BY <1>1, <1>3, <3>1, <4>1 DEF InTime
    <3>2. CASE i \in 1..Len(ring) /\ j = Len(ring) + 1
      BY <1>1, <1>2, <1>3, <3>2 DEF InTime
    <3>3. CASE i = Len(ring) + 1 /\ j = Len(ring) + 1
      BY <1>1, <1>2, <1>3, <3>3
    <3> QED
      BY <1>3, <3>1, <3>2, <3>3
  <2>2. \A j \in 1..Len(ring') : ring'[j].time <= clock /\ clock - ring'[j].time <= RingDelay
    BY <1>1, <1>2, <1>3, StageTimesAssumption DEF InTime
  <2>3. \A i \in 1..Len(in) : in[i].time <= clock /\ \A j \in 1..Len(ring') : in[i].time <= ring'[j].time
    BY <1>1, <1>2, <1>3 DEF InTime
  <2>4. tickAt # <<>> => NotBefore(tickAt[1])'
    BY <1>1, <1>4, TimesAssumption DEF InTime, TypeStage
  <2> QED
    BY <1>1, <2>1, <2>2, <2>3, <2>4 DEF InTime, NotBefore
<1> QED
  BY <1>3, <1>4, <1>5

\* The wall clock goes on, unless the ring's oldest packet has waited too long.
LEMMA AdvanceInTime ==
    ASSUME TypeStage, InTime, Advance
    PROVE  InTime' /\ clock' \in 0..MaxTime /\ \A x \in Int : NotBefore(x) => NotBefore(x)'
<1>1. /\ mode = "live" /\ clock \in 0..MaxTime /\ clock < MaxTime /\ clock' = clock + 1
      /\ in' = in /\ ring' = ring /\ mode' = mode /\ tickAt' = tickAt
      /\ ring # <<>> => clock - Head(ring).time < RingDelay
      /\ in \in Seq(Frames) /\ ring \in Seq(Frames)
  BY DEF Advance, TypeStage, stage
<1>2. clock' \in 0..MaxTime /\ clock \in Int
  BY <1>1, StageTimesAssumption
<1>3. /\ \A i \in 1..Len(in) : in[i].time \in Int
      /\ \A i \in 1..Len(ring) : ring[i].time \in Int /\ i \in Int /\ 1 <= i
      /\ ring # <<>> => 1 \in 1..Len(ring) /\ Head(ring) = ring[1]
  BY <1>1, QueueFacts
<1>4. \A x \in Int : NotBefore(x) => NotBefore(x)'
  BY <1>1, <1>2 DEF NotBefore
<1>5. \A j \in 1..Len(ring) : ring[j].time <= clock' /\ clock' - ring[j].time <= RingDelay
  <2> SUFFICES ASSUME NEW j \in 1..Len(ring)
               PROVE  ring[j].time <= clock + 1 /\ (clock + 1) - ring[j].time <= RingDelay
    BY <1>1
  <2>1. ring # <<>>
    BY <1>1
  <2>2. ring[1].time <= ring[j].time /\ clock - ring[1].time < RingDelay /\ ring[j].time <= clock
    BY <1>1, <1>3, <2>1 DEF InTime
  <2> QED
    BY <1>2, <1>3, <2>1, <2>2, StageTimesAssumption
<1>6. \A i \in 1..Len(in) : in[i].time <= clock'
  BY <1>1, <1>2, <1>3 DEF InTime
<1>7. tickAt # <<>> => NotBefore(tickAt[1])'
  BY <1>1, <1>4, TimesAssumption DEF InTime, TypeStage
<1>8. InTime'
  BY <1>1, <1>5, <1>6, <1>7 DEF InTime, NotBefore
<1> QED
  BY <1>2, <1>4, <1>8

-----------------------------------------------------------------------------
(* Queries and their answers.                                              *)

\* The answer to a query has its key and its leg, when one side is the server.
LEMMA AnswerHasKey ==
    ASSUME NEW a, NEW q, Answers(a, q), ServerSide(q) # <<>>
    PROVE  BuildKey(a) = BuildKey(q) /\ Leg(a) = Leg(q)
<1>1. /\ a.src = q.dst /\ a.sport = q.dport /\ a.dst = q.src /\ a.dport = q.sport /\ a.id = q.id
      /\ a.qtype = q.qtype
  BY DEF Answers
<1>2. CASE q.dport = 53 /\ q.sport # 53
  <2>1. ServerSide(q) = <<q.dst>> /\ ServerSide(a) = <<q.dst>>
    BY <1>1, <1>2 DEF ServerSide
  <2>2. Leg(a) = Leg(q)
    BY <2>1 DEF Leg
  <2> QED
    BY <1>1, <1>2, <2>2 DEF BuildKey
<1>3. CASE q.sport = 53 /\ q.dport # 53
  <2>1. ServerSide(q) = <<q.src>> /\ ServerSide(a) = <<q.src>>
    BY <1>1, <1>3 DEF ServerSide
  <2>2. Leg(a) = Leg(q)
    BY <2>1 DEF Leg
  <2> QED
    BY <1>1, <1>3, <2>2 DEF BuildKey
<1> QED
  BY <1>2, <1>3 DEF ServerSide

\* AnsweredIsObserved, of one response.
Observed(r) ==
    \A i \in 1..given.before[r] :
        (/\ Answers(given.responses[r].pkt, given.queries[i].pkt) /\ ServerSide(given.queries[i].pkt) # <<>>
         /\ given.responses[r].time - given.queries[i].time \in 0..(Timeout - Lag)
         /\ ~Displaced(i)
         /\ \A s \in 1..Len(matches) : s # r => matches[s] # i)
        => matches[r] = i /\ Leg(given.responses[r].pkt) = Leg(given.queries[i].pkt)

\* One response at a time.
LEMMA ObservedEach ==
    ASSUME matches \in Seq(Nat)
    PROVE  AnsweredIsObserved <=> (mode = "live" => \A r \in 1..Len(matches) : Observed(r))
<1>1. DOMAIN matches = 1..Len(matches)
  OBVIOUS
<1> QED
  BY <1>1 DEF AnsweredIsObserved, Observed

\* So it is after a step.
LEMMA ObservedNext ==
    PP!IndInv' => (AnsweredIsObserved' <=> (mode' = "live" => \A r \in 1..Len(matches') : Observed(r)'))
<1> DEFINE Each == AnsweredIsObserved <=> (mode = "live" => \A r \in 1..Len(matches) : Observed(r))
<1>1. PP!IndInv => Each
  BY CoreHolds, ObservedEach DEF Core
<1> HIDE DEF Each
<1>2. PP!IndInv' => Each'
  BY <1>1, PTL
<1> QED
  BY <1>2 DEF Each

\* What was given stays given.
Extends ==
    /\ Len(queries) <= Len(queries') /\ Len(matches) <= Len(matches')
    /\ \A i \in 1..Len(queries) : queries'[i] = queries[i] /\ given'.queries[i] = given.queries[i]
    /\ \A r \in 1..Len(matches) : /\ matches'[r] = matches[r] /\ given'.before[r] = given.before[r]
                                  /\ given'.responses[r] = given.responses[r]
    /\ stats["drop"] <= stats'["drop"] /\ mode' = mode

\* A displaced query stays displaced.
LEMMA DisplacedStays ==
    ASSUME PP!IndInv, PP!IndInv', Extends, NEW i \in 1..Len(queries), Displaced(i)
    PROVE  Displaced(i)'
<1>1. /\ Len(queries) \in Nat /\ Len(queries') \in Nat
      /\ stats["drop"] \in Nat /\ stats'["drop"] \in Nat
  BY CoreHolds, CoreHoldsNext DEF Core, Counters
<1>2. CASE stats["drop"] > 0
  BY <1>1, <1>2 DEF Extends, Displaced
<1>3. ASSUME NEW j \in (i + 1)..Len(queries), queries[j].key = queries[i].key PROVE Displaced(i)'
  <2>1. j \in 1..Len(queries) /\ j \in (i + 1)..Len(queries')
    BY <1>1 DEF Extends
  <2>2. queries'[j].key = queries'[i].key
    BY <1>3, <2>1 DEF Extends
  <2> QED
    BY <2>1, <2>2 DEF Displaced
<1> QED
  BY <1>2, <1>3 DEF Displaced

\* A response that was paired as it should stays so.
LEMMA ObservedStays ==
    ASSUME TypeStage, PP!IndInv, PP!IndInv', History, Extends, NEW r \in 1..Len(matches), Observed(r)
    PROVE  Observed(r)'
<1>1. /\ Len(queries) \in Nat /\ Len(matches) \in Nat /\ Len(matches') \in Nat /\ given.before[r] \in Int
  <2>1. Len(queries) \in Nat /\ Len(matches) \in Nat /\ Len(matches') \in Nat
    BY CoreHolds, CoreHoldsNext DEF Core
  <2>2. given.before \in Seq(Nat) /\ Len(given.before) = Len(matches)
    BY DEF TypeStage, History
  <2> QED
    BY <2>1, <2>2
<1>2. /\ matches'[r] = matches[r] /\ given'.before[r] = given.before[r]
      /\ given'.responses[r] = given.responses[r]
  BY DEF Extends
<1>3. SUFFICES ASSUME NEW i \in 1..given.before[r],
                      Answers(given.responses[r].pkt, given.queries[i].pkt),
                      ServerSide(given.queries[i].pkt) # <<>>,
                      given.responses[r].time - given.queries[i].time \in 0..(Timeout - Lag),
                      ~Displaced(i)',
                      \A s \in 1..Len(matches') : s # r => matches'[s] # i
               PROVE  matches[r] = i /\ Leg(given.responses[r].pkt) = Leg(given.queries[i].pkt)
  <2>1. \A i \in 1..given.before[r] : i \in 1..Len(queries)
    BY <1>1 DEF History
  <2>2. \A i \in 1..given.before[r] : given'.queries[i] = given.queries[i]
    BY <2>1 DEF Extends
  <2> QED
    BY <1>2, <2>2 DEF Observed
<1>4. i \in 1..Len(queries)
  BY <1>1 DEF History
<1>5. ~Displaced(i)
  BY <1>3, <1>4, DisplacedStays
<1>6. \A s \in 1..Len(matches) : s # r => matches[s] # i
  <2>1. \A s \in 1..Len(matches) : s \in 1..Len(matches') /\ matches'[s] = matches[s]
    BY <1>1 DEF Extends
  <2> QED
    BY <1>3, <2>1
<1> QED
  BY <1>3, <1>5, <1>6 DEF Observed

\* What is too late for one time is too late for an earlier one.
LEMMA NotBeforeLower ==
    ASSUME TypeStage, NEW x \in Int, NEW y \in Int, x <= y, NotBefore(y)
    PROVE  NotBefore(x)
<1>1. /\ clock \in Int /\ (\A i \in 1..Len(in) : in[i].time \in Int)
      /\ \A j \in 1..Len(ring) : ring[j].time \in Int
  BY QueueFacts DEF TypeStage
<1> QED
  BY <1>1 DEF NotBefore

\* A time before one that nothing precedes is one too.
Lowers == \A x, y \in Int : x <= y /\ NotBefore(y) => NotBefore(x)

\* Lowers holds of the state after a step too.
LEMMA LowersNext == TypeStage' => Lowers'
<1>1. TypeStage => Lowers
  BY NotBeforeLower DEF Lowers
<1> QED
  BY <1>1, PTL

\* An element of a sequence.
LEMMA ElementOf ==
    ASSUME NEW T, NEW s \in Seq(T), NEW i \in 1..Len(s)
    PROVE  s[i] \in T
  OBVIOUS

\* The time after which an answer to a query comes too late.
LEMMA DeadlineType ==
    ASSUME PP!IndInv, NEW i \in 1..Len(queries)
    PROVE  /\ queries[i].time \in Int
           /\ queries[i].time + (Timeout - Lag) + 1 \in Int
           /\ Timeout \in Int /\ Lag \in Nat
<1>1. queries \in Seq([key : Keys, time : Times])
  BY CoreHolds DEF Core
<1>2. queries[i] \in [key : Keys, time : Times]
  BY <1>1, ElementOf
<1>3. queries[i].time \in Int
  BY <1>2, TimesAssumption
<1>4. Timeout \in Int /\ Lag \in Nat
  BY TimeoutAssumption, StageTimesAssumption DEF Lag
<1> QED
  BY <1>3, <1>4

\* Steps that do not call the correlator.
LEMMA QuietStory ==
    ASSUME Story, UNCHANGED <<correlator, given, mode>>, TypeStage', InTime',
           \A x \in Int : NotBefore(x) => NotBefore(x)'
    PROVE  Story'
<1>1. PP!IndInv /\ History /\ Departures /\ AnsweredIsObserved
  BY DEF Story
<1>2. PP!IndInv'
  BY <1>1, CoreSame
<1>3. UNCHANGED <<queries, pending, matches, stats, open, given, mode>>
  BY DEF correlator
<1>4. History'
  BY <1>1, <1>3 DEF History
<1>5. Departures'
  <2>1. \A i \in 1..Len(queries) : TooLate(i) => TooLate(i)'
    BY <1>1, <1>3, DeadlineType DEF TooLate
  <2> QED
    BY <1>1, <1>3, <2>1 DEF Departures, Displaced, Taken
<1>6. AnsweredIsObserved'
  BY <1>1, <1>3 DEF AnsweredIsObserved, Displaced
<1> QED
  BY <1>2, <1>4, <1>5, <1>6 DEF Story

\* A discarded query: any answer that still comes is too late for it.
LEMMA DiscardStory ==
    ASSUME Story, NEW S \in SUBSET pending, P!Discard(S), open' \in BOOLEAN, open' \/ S = pending, open,
           UNCHANGED <<given, mode>>, TypeStage', InTime',
           \A x \in Int : NotBefore(x) => NotBefore(x)',
           mode = "live" /\ open' => \A i \in S : TooLate(i)'
    PROVE  Story'
<1>1. PP!IndInv /\ History /\ Departures /\ AnsweredIsObserved
  BY DEF Story
<1>2. PP!IndInv'
  BY <1>1, CoreDiscard
<1>3. UNCHANGED <<queries, matches, given, mode>> /\ pending' = pending \ S /\ stats'["drop"] = stats["drop"]
  BY <1>1, DiscardEffect
<1>4. History'
  BY <1>1, <1>3 DEF History
<1>5. Departures'
  <2>1. \A i \in 1..Len(queries) : TooLate(i) => TooLate(i)'
    BY <1>1, <1>3, DeadlineType DEF TooLate
  <2>2. \A i \in 1..Len(queries) : Displaced(i) => Displaced(i)'
    BY <1>3 DEF Displaced
  <2> QED
    BY <1>1, <1>3, <2>1, <2>2 DEF Departures, Taken
<1>6. AnsweredIsObserved'
  BY <1>1, <1>3 DEF AnsweredIsObserved, Displaced
<1> QED
  BY <1>2, <1>4, <1>5, <1>6 DEF Story

\* A query the correlator is given.
GivenQuery(f) ==
    /\ P!OnQuery(BuildKey(f.pkt), f.time) /\ UNCHANGED mode
    /\ given' = [given EXCEPT !.queries = Append(@, f)]

\* What is known of the queries grows by one.
LEMMA QueryExtends ==
    ASSUME TypeStage, PP!IndInv, History, NEW f \in Frames, BuildKey(f.pkt) \in Keys, GivenQuery(f)
    PROVE  /\ Extends /\ History' /\ Len(queries') = Len(queries) + 1 /\ Len(queries) \in Nat
           /\ queries'[Len(queries) + 1] = [key |-> BuildKey(f.pkt), time |-> f.time]
           /\ matches' = matches /\ open /\ open' = open
           /\ PP!IndInv'
<1> DEFINE k == BuildKey(f.pkt)
           q == [key |-> k, time |-> f.time]
<1>1. f.time \in Times /\ f.time \in Int /\ k \in Keys
  BY FrameFacts
<1>2. P!OnQuery(k, f.time)
  BY DEF GivenQuery
<1>3. /\ queries' = Append(queries, q) /\ open /\ UNCHANGED <<on_table_full, matches, open>> /\ Advances
  BY <1>1, <1>2, QueryEffect
<1>4. PP!IndInv'
  BY <1>1, <1>2, CoreQuery
<1>5. queries \in Seq([key : Keys, time : Times]) /\ Len(queries) \in Nat /\ Len(matches) \in Nat
  BY CoreHolds DEF Core
<1>6. /\ given.queries \in Seq(Frames) /\ given.responses \in Seq(Frames) /\ given.before \in Seq(Nat)
      /\ given'.queries = Append(given.queries, f) /\ given'.responses = given.responses
      /\ given'.before = given.before
  BY DEF TypeStage, GivenQuery
<1>7. /\ Len(given'.queries) = Len(given.queries) + 1 /\ Len(given.queries) \in Nat
      /\ \A i \in 1..Len(given.queries) : given'.queries[i] = given.queries[i]
      /\ given'.queries[Len(given.queries) + 1] = f
  BY <1>6, AppendFacts
<1>8. q \in [key : Keys, time : Times] /\ q.key = k /\ q.time = f.time
  BY <1>1
<1> HIDE DEF q, k
<1>9. /\ Len(queries') = Len(queries) + 1 /\ queries'[Len(queries) + 1] = q
      /\ \A i \in 1..Len(queries) : queries'[i] = queries[i]
  BY <1>3, <1>5
<1>10. stats["drop"] <= stats'["drop"]
  BY <1>3 DEF Advances, Counters
<1>11. Extends
  <2>1. \A i \in 1..Len(queries) : given'.queries[i] = given.queries[i]
    BY <1>7 DEF History
  <2>2. mode' = mode /\ Len(queries) <= Len(queries') /\ Len(matches) <= Len(matches')
    BY <1>3, <1>5, <1>9 DEF GivenQuery
  <2> QED
    BY <1>3, <1>6, <1>9, <1>10, <2>1, <2>2 DEF Extends
<1>12. History'
  <2>1. Len(given'.queries) = Len(queries')
    BY <1>7, <1>9 DEF History
  <2>2. ASSUME NEW i \in 1..Len(queries')
        PROVE  /\ queries'[i].key = BuildKey(given'.queries[i].pkt)
               /\ queries'[i].time = given'.queries[i].time
    <3>1. CASE i \in 1..Len(queries)
      BY <1>9, <1>11, <3>1 DEF History, Extends
    <3>2. CASE i = Len(queries) + 1
      <4>1. given'.queries[i] = f
        BY <1>7, <3>2 DEF History
      <4> QED
        BY <1>8, <1>9, <3>2, <4>1 DEF k
    <3> QED
      BY <1>5, <1>9, <3>1, <3>2
  <2>3. /\ Len(given'.responses) = Len(matches') /\ Len(given'.before) = Len(matches')
    BY <1>3, <1>6 DEF History
  <2>4. \A r \in 1..Len(matches') : given'.before[r] <= Len(queries')
    <3>1. \A r \in 1..Len(matches) : given.before[r] \in Nat
      BY <1>5, <1>6 DEF History
    <3> QED
      BY <1>3, <1>5, <1>6, <1>9, <3>1 DEF History
  <2> QED
    BY <2>1, <2>2, <2>3, <2>4 DEF History
<1> QED
  BY <1>3, <1>4, <1>5, <1>9, <1>11, <1>12 DEF q, k

\* The query joins the pending ones; those that leave have a reason to.
LEMMA QueryStory ==
    ASSUME Story, NEW f \in Frames, BuildKey(f.pkt) \in Keys, GivenQuery(f), TypeStage', InTime',
           \A x \in Int : NotBefore(x) => NotBefore(x)',
           mode = "live" => \A x \in Int : x = f.time => NotBefore(x)'
    PROVE  Story'
<1> DEFINE k == BuildKey(f.pkt)
           n == Len(queries)
<1>0. TypeStage /\ PP!IndInv /\ History /\ InTime /\ Departures /\ AnsweredIsObserved
  BY DEF Story
<1>1. f.time \in Times /\ f.time \in Int /\ k \in Keys
  BY FrameFacts
<1>2. P!OnQuery(k, f.time) /\ mode' = mode
  BY DEF GivenQuery
<1>3. /\ Extends /\ History' /\ Len(queries') = n + 1 /\ n \in Nat
      /\ queries'[n + 1] = [key |-> k, time |-> f.time]
      /\ matches' = matches /\ open /\ open' = open /\ PP!IndInv'
  BY <1>0, QueryExtends
<1>4. /\ \A i \in pending \ pending' :
            f.time - queries[i].time > Timeout \/ queries[i].key = k \/ stats'["drop"] > 0
      /\ n + 1 \in pending' \/ stats'["drop"] > 0
  BY <1>0, <1>1, <1>2, QueryEffect
<1>5. Departures'
  <2> SUFFICES ASSUME mode = "live", NEW i \in 1..(n + 1)
               PROVE  i \in pending' \/ Displaced(i)' \/ Taken(i)' \/ TooLate(i)'
    BY <1>2, <1>3 DEF Departures
  <2>1. CASE i = n + 1
    BY <1>4, <2>1 DEF Displaced
  <2>2. CASE i \in 1..n
    <3> DEFINE e == queries[i].time + (Timeout - Lag) + 1
    <3>1. e \in Int /\ queries[i].time \in Int /\ Timeout \in Int /\ Lag \in Nat
      BY <1>0, <2>2, DeadlineType
    <3>2. queries'[i] = queries[i]
      BY <1>3, <2>2 DEF Extends
    <3>3. PICK d \in Int : d = e
      BY <3>1
    <3>4. NotBefore(d)' => TooLate(i)'
      BY <3>2, <3>3 DEF TooLate, NotBefore
    <3>5. TooLate(i) => TooLate(i)'
      BY <3>3, <3>4 DEF TooLate
    <3>6. f.time - queries[i].time > Timeout => TooLate(i)'
      <4> SUFFICES ASSUME f.time - queries[i].time > Timeout PROVE TooLate(i)'
        OBVIOUS
      <4>1. PICK y \in Int : y = f.time
        BY <1>1
      <4>2. d <= y
        BY <3>1, <3>3, <4>1
      <4>3. NotBefore(y)'
        BY <4>1
      <4>4. Lowers'
        BY LowersNext
      <4> QED
        BY <3>4, <4>2, <4>3, <4>4 DEF Lowers
    <3>7. queries[i].key = k => Displaced(i)'
      <4> SUFFICES ASSUME queries[i].key = k PROVE Displaced(i)'
        OBVIOUS
      <4>1. n + 1 \in (i + 1)..Len(queries')
        BY <1>3, <2>2
      <4>2. queries'[n + 1].key = queries'[i].key
        BY <1>3, <3>2
      <4> QED
        BY <4>1, <4>2 DEF Displaced
    <3>8. Displaced(i) => Displaced(i)'
      BY <1>0, <1>3, <2>2, DisplacedStays
    <3>9. Taken(i) => Taken(i)'
      BY <1>3 DEF Taken
    <3>10. i \in pending \/ Displaced(i) \/ Taken(i) \/ TooLate(i)
      BY <1>0, <1>3, <2>2 DEF Departures
    <3>11. stats'["drop"] > 0 => Displaced(i)'
      BY DEF Displaced
    <3> QED
      BY <1>4, <3>5, <3>6, <3>7, <3>8, <3>9, <3>10, <3>11
  <2> QED
    BY <1>3, <2>1, <2>2
<1>6. AnsweredIsObserved'
  <2>1. mode = "live" => \A r \in 1..Len(matches) : Observed(r)
    BY <1>0, CoreHolds, ObservedEach DEF Core
  <2>2. mode = "live" => \A r \in 1..Len(matches) : Observed(r)'
    BY <1>0, <1>3, <2>1, ObservedStays
  <2>3. mode' = "live" => \A r \in 1..Len(matches') : Observed(r)'
    BY <1>2, <1>3, <2>2
  <2> QED
    BY <1>3, <2>3, ObservedNext
<1> QED
  BY <1>0, <1>3, <1>5, <1>6 DEF Story

\* A response the correlator is given.
GivenResponse(f) ==
    /\ P!OnResponse(BuildKey(f.pkt), f.time) /\ UNCHANGED mode
    /\ given' = [given EXCEPT !.responses = Append(@, f), !.before = Append(@, Len(queries))]

\* What is known of the responses grows by one.
LEMMA ResponseExtends ==
    ASSUME TypeStage, PP!IndInv, History, NEW f \in Frames, BuildKey(f.pkt) \in Keys, GivenResponse(f)
    PROVE  /\ Extends /\ History' /\ queries' = queries /\ open /\ open' = open
           /\ Len(matches') = Len(matches) + 1 /\ Len(matches) \in Nat /\ Len(queries) \in Nat
           /\ given'.queries = given.queries /\ given'.responses[Len(matches) + 1] = f
           /\ given'.before[Len(matches) + 1] = Len(queries)
           /\ \E i \in Nat : /\ matches'[Len(matches) + 1] = i /\ pending' = pending \ {i}
                             /\ IF i = 0 THEN \A j \in pending : queries[j].key # BuildKey(f.pkt)
                                ELSE i \in pending /\ queries[i].key = BuildKey(f.pkt)
           /\ PP!IndInv'
<1> DEFINE k == BuildKey(f.pkt)
           m == Len(matches)
<1>1. f.time \in Times /\ f.time \in Int /\ k \in Keys
  BY FrameFacts
<1>2. P!OnResponse(k, f.time)
  BY DEF GivenResponse
<1>3. open /\ UNCHANGED <<on_table_full, queries, open>> /\ Advances /\ stats'["drop"] = stats["drop"]
  BY <1>1, <1>2, ResponseEffect
<1>4. PICK i \in Nat : /\ matches' = Append(matches, i) /\ pending' = pending \ {i}
                       /\ IF i = 0 THEN \A j \in pending : queries[j].key # k
                          ELSE i \in pending /\ queries[i].key = k
  BY <1>1, <1>2, ResponseEffect
<1>5. PP!IndInv'
  BY <1>1, <1>2, CoreResponse
<1>6. matches \in Seq(Nat) /\ m \in Nat /\ Len(queries) \in Nat /\ stats["drop"] \in Nat
  BY CoreHolds DEF Core, Counters
<1>7. /\ given.queries \in Seq(Frames) /\ given.responses \in Seq(Frames) /\ given.before \in Seq(Nat)
      /\ given'.queries = given.queries /\ given'.responses = Append(given.responses, f)
      /\ given'.before = Append(given.before, Len(queries))
  BY DEF TypeStage, GivenResponse
<1>8. Len(given.responses) = m /\ Len(given.before) = m /\ Len(given.queries) = Len(queries)
  BY DEF History
<1>9. /\ Len(given'.responses) = m + 1 /\ given'.responses[m + 1] = f
      /\ \A r \in 1..m : given'.responses[r] = given.responses[r]
  <2>1. /\ Len(given'.responses) = Len(given.responses) + 1 /\ given'.responses[Len(given.responses) + 1] = f
        /\ \A r \in 1..Len(given.responses) : given'.responses[r] = given.responses[r]
    BY <1>7, AppendFacts
  <2> QED
    BY <1>8, <2>1
<1>10. /\ Len(given'.before) = m + 1 /\ given'.before[m + 1] = Len(queries)
       /\ \A r \in 1..m : given'.before[r] = given.before[r]
  BY <1>6, <1>7, <1>8
<1>11. /\ Len(matches') = m + 1 /\ matches'[m + 1] = i
       /\ \A r \in 1..m : matches'[r] = matches[r]
  BY <1>4, <1>6
<1> HIDE DEF m, k
<1>12. Extends
  <2>1. mode' = mode
    BY DEF GivenResponse
  <2>2. m <= Len(matches') /\ Len(queries) <= Len(queries') /\ stats["drop"] <= stats'["drop"]
    BY <1>3, <1>6, <1>11
  <2> QED
    BY <1>3, <1>7, <1>9, <1>10, <1>11, <2>1, <2>2 DEF Extends, m
<1>13. History'
  <2>1. \A r \in 1..(m + 1) : r \in 1..m \/ r = m + 1
    BY <1>6
  <2>2. \A r \in 1..m : given.before[r] <= Len(queries)
    BY DEF History, m
  <2>3. \A r \in 1..(m + 1) : given'.before[r] <= Len(queries')
    <3> SUFFICES ASSUME NEW r \in 1..(m + 1) PROVE given'.before[r] <= Len(queries')
      OBVIOUS
    <3>0. Len(queries') = Len(queries)
      BY <1>3
    <3>1. CASE r \in 1..m
      <4>1. given'.before[r] = given.before[r] /\ given.before[r] <= Len(queries)
        BY <1>10, <2>2, <3>1
      <4> QED
        BY <3>0, <4>1
    <3>2. CASE r = m + 1
      <4>1. given'.before[r] = Len(queries) /\ Len(queries) <= Len(queries)
        BY <1>6, <1>10, <3>2
      <4> QED
        BY <3>0, <4>1
    <3> QED
      BY <2>1, <3>1, <3>2
  <2> QED
    BY <1>3, <1>7, <1>9, <1>10, <1>11, <2>3 DEF History
<1> QED
  BY <1>3, <1>4, <1>5, <1>6, <1>7, <1>9, <1>10, <1>11, <1>12, <1>13 DEF m, k

\* The response finds the query it answers, if that is still pending.
LEMMA ResponseStory ==
    ASSUME Story, in # <<>>, NEW f \in Frames, f = Head(in), BuildKey(f.pkt) \in Keys, GivenResponse(f),
           TypeStage', InTime', \A x \in Int : NotBefore(x) => NotBefore(x)'
    PROVE  Story'
<1> DEFINE k == BuildKey(f.pkt)
           n == Len(queries)
           m == Len(matches)
<1>1. PICK r \in Nat : r = Len(matches) + 1
  BY CoreHolds DEF Core, Story
<1>2. TypeStage /\ PP!IndInv /\ History /\ InTime /\ Departures /\ AnsweredIsObserved /\ mode' = mode
  BY DEF Story, GivenResponse
<1>3. /\ Extends /\ History' /\ queries' = queries /\ open /\ open' = open
      /\ Len(matches') = m + 1 /\ m \in Nat /\ n \in Nat
      /\ given'.queries = given.queries /\ given'.responses[r] = f /\ given'.before[r] = n
      /\ PP!IndInv'
  BY <1>2, <1>1, ResponseExtends
<1>4. PICK i \in Nat : /\ matches'[r] = i /\ pending' = pending \ {i}
                       /\ IF i = 0 THEN \A j \in pending : queries[j].key # k
                          ELSE i \in pending /\ queries[i].key = k
  BY <1>2, <1>1, ResponseExtends
<1>5. r \in 1..Len(matches') /\ \A s \in 1..m : s \in 1..Len(matches') /\ matches'[s] = matches[s] /\ s # r
  BY <1>3, <1>1 DEF Extends
<1>6. Departures'
  <2> SUFFICES ASSUME mode = "live", NEW j \in 1..n
               PROVE  j \in pending' \/ Displaced(j)' \/ Taken(j)' \/ TooLate(j)'
    BY <1>2, <1>3 DEF Departures
  <2>1. TooLate(j) => TooLate(j)'
    BY <1>2, <1>3, DeadlineType DEF TooLate
  <2>2. Displaced(j) => Displaced(j)'
    BY <1>2, <1>3, DisplacedStays
  <2>3. Taken(j) => Taken(j)'
    BY <1>5 DEF Taken
  <2>4. j \in pending => j \in pending' \/ Taken(j)'
    BY <1>4, <1>5 DEF Taken
  <2> QED
    BY <1>2, <1>3, <2>1, <2>2, <2>3, <2>4 DEF Departures
<1>7. ASSUME mode = "live" PROVE Observed(r)'
  <2>1. SUFFICES ASSUME NEW j \in 1..n, Answers(f.pkt, given.queries[j].pkt),
                        ServerSide(given.queries[j].pkt) # <<>>,
                        f.time - given.queries[j].time \in 0..(Timeout - Lag),
                        ~Displaced(j)',
                        \A s \in 1..Len(matches') : s # r => matches'[s] # j
                 PROVE  matches'[r] = j /\ Leg(f.pkt) = Leg(given.queries[j].pkt)
    BY <1>3 DEF Observed
  <2>2. BuildKey(f.pkt) = BuildKey(given.queries[j].pkt) /\ Leg(f.pkt) = Leg(given.queries[j].pkt)
    BY <2>1, AnswerHasKey
  <2>3. queries[j].key = k /\ queries[j].time = given.queries[j].time
    BY <1>2, <2>2 DEF History
  <2>4. ~Displaced(j)
    BY <1>2, <1>3, <2>1, DisplacedStays
  <2>5. ~Taken(j)
    BY <1>5, <2>1 DEF Taken
  <2>6. ~TooLate(j)
    <3>1. /\ queries[j].time \in Int /\ queries[j].time + (Timeout - Lag) + 1 \in Int
          /\ Timeout \in Int /\ Lag \in Nat
      BY <1>2, DeadlineType
    <3>2. 1 \in 1..Len(in) /\ f = in[1] /\ f.time \in Int
      BY <1>2, QueueFacts, FrameFacts DEF TypeStage
    <3>3. f.time - queries[j].time <= Timeout - Lag
      BY <2>1, <2>3, <3>1, <3>2
    <3>4. ~(queries[j].time + (Timeout - Lag) + 1 <= f.time)
      BY <3>1, <3>2, <3>3
    <3> QED
      BY <3>2, <3>4 DEF TooLate, NotBefore
  <2>7. j \in pending
    BY <1>2, <1>3, <1>7, <2>4, <2>5, <2>6 DEF Departures
  <2>8. i \in pending /\ queries[i].key = k
    BY <1>4, <2>3, <2>7
  <2>9. /\ pending \subseteq 1..n
        /\ \A a \in pending : \A b \in (a + 1)..n : queries[b].key # queries[a].key
    BY <1>2, CoreHolds DEF Core
  <2>10. ~(i < j) /\ ~(j < i)
    <3>1. i < j => j \in (i + 1)..n
      BY <1>3, <2>8, <2>9
    <3>2. j < i => i \in (j + 1)..n
      BY <1>3, <2>8, <2>9
    <3> QED
      BY <2>3, <2>7, <2>8, <2>9, <3>1, <3>2
  <2>11. i = j
    BY <1>3, <2>10
  <2> QED
    BY <1>4, <2>2, <2>11
<1>8. AnsweredIsObserved'
  <2>1. mode = "live" => \A s \in 1..m : Observed(s)
    BY <1>2, CoreHolds, ObservedEach DEF Core
  <2>2. mode = "live" => \A s \in 1..m : Observed(s)'
    BY <1>2, <1>3, <2>1, ObservedStays
  <2>3. \A s \in 1..Len(matches') : s \in 1..m \/ s = r
    BY <1>3, <1>1
  <2>4. mode' = "live" => \A s \in 1..Len(matches') : Observed(s)'
    BY <1>2, <1>7, <2>2, <2>3 DEF Observed
  <2> QED
    BY <1>3, <2>4, ObservedNext
<1> QED
  BY <1>2, <1>3, <1>6, <1>8 DEF Story

-----------------------------------------------------------------------------
(* Emission.                                                               *)

\* The rcode an event is decided by.
Rcode(g, q, r) == (IF r # 0 THEN g.responses[r] ELSE g.queries[q]).pkt.rcode

\* A leg is one of the four roles.
LEMMA LegIsRole == ASSUME NEW p PROVE Leg(p) \in Roles
  BY DEF Leg, Roles

\* What dns_stage_emit() makes of a transaction: only routine answered ones are
\* sampled out.
LEMMA EventFacts ==
    ASSUME NEW g, NEW q, NEW r, NEW fate
    PROVE  /\ Event(g, q, r, fate).query = q /\ Event(g, q, r, fate).response = r
           /\ Event(g, q, r, fate).role \in Roles
           /\ \/ Event(g, q, r, fate).fate = fate
              \/ /\ Event(g, q, r, fate).fate = "sampled_out"
                 /\ Event(g, q, r, fate).outcome = "observed" /\ r # 0 /\ q # 0 /\ Rcode(g, q, r) = 0
<1> DEFINE primary == (IF q # 0 THEN g.queries[q] ELSE g.responses[r]).pkt
           outcome == IF r = 0 THEN "unanswered" ELSE IF q = 0 THEN "unmatched" ELSE "observed"
           key == BuildKey(primary)
           service == IF Leg(primary) = "unknown" THEN "" ELSE ServiceRole(key.server[1])
           leg == Leg(primary)
           what == IF Decide(outcome, Rcode(g, q, r), primary.qtype, key) THEN fate ELSE "sampled_out"
<1>1. Event(g, q, r, fate) = [outcome |-> outcome, query |-> q, response |-> r, role |-> leg,
                              service_role |-> service, fate |-> what]
  BY DEF Event, Rcode
<1>2. what = fate \/ (what = "sampled_out" /\ ~Decide(outcome, Rcode(g, q, r), primary.qtype, key))
  BY Zenon
<1>3. ~Decide(outcome, Rcode(g, q, r), primary.qtype, key)
         => outcome \notin {"unanswered", "unmatched"} /\ Rcode(g, q, r) = 0
  BY Zenon DEF Decide
<1>4. outcome \in {"unanswered", "unmatched", "observed"}
  OBVIOUS
<1>5. outcome = "observed" => r # 0 /\ q # 0
  OBVIOUS
<1>6. leg \in Roles
  BY LegIsRole
<1> HIDE DEF outcome, service, leg, what
<1>7. /\ Event(g, q, r, fate).query = q /\ Event(g, q, r, fate).response = r
      /\ Event(g, q, r, fate).role = leg /\ Event(g, q, r, fate).fate = what
      /\ Event(g, q, r, fate).outcome = outcome
  BY <1>1
<1> QED
  BY <1>2, <1>3, <1>4, <1>5, <1>6, <1>7

\* The events made of the transactions handed over, with contexts g.
Made(es, handed, g) == \E fate \in [handed -> Fates] : es = {Event(g, h[1], h[2], fate[h]) : h \in handed}

\* Each of them is of one transaction.
LEMMA MadeFacts ==
    ASSUME NEW handed, NEW g, NEW es, Made(es, handed, g)
    PROVE  /\ \A e \in es : \E h \in handed : \E fate \in Fates : e = Event(g, h[1], h[2], fate)
           /\ \A h \in handed : \E e \in es : \E fate \in Fates : e = Event(g, h[1], h[2], fate)
           /\ IsFiniteSet(handed) => IsFiniteSet(es)
<1>1. PICK fate \in [handed -> Fates] : es = {Event(g, h[1], h[2], fate[h]) : h \in handed}
  BY DEF Made
<1>2. \A h \in handed : fate[h] \in Fates
  OBVIOUS
<1>3. \A e \in es : \E h \in handed : e = Event(g, h[1], h[2], fate[h])
  BY <1>1
<1>4. \A h \in handed : Event(g, h[1], h[2], fate[h]) \in es
  BY <1>1
<1>5. IsFiniteSet(handed) => IsFiniteSet(es)
  <2> DEFINE f == [h \in handed |-> Event(g, h[1], h[2], fate[h])]
  <2>1. f \in [handed -> es] /\ \A e \in es : \E h \in handed : f[h] = e
    BY <1>3, <1>4
  <2> HIDE DEF f
  <2>2. f \in Surjection(handed, es)
    BY <2>1 DEF Surjection
  <2> QED
    BY <2>2, FS_Surjection
<1> QED
  BY <1>2, <1>3, <1>4, <1>5

\* The numbers of events that counters count.
LEMMA CountedFacts ==
    ASSUME NEW es, IsFiniteSet(es), \A e \in es : e.fate \in Fates \cup {"sampled_out"}
    PROVE  /\ \A c \in StageCounters : Counted(es, c) \in Nat
           /\ \A c \in Synced \cup Unusable \cup {"queries_parsed", "responses_parsed"} : Counted(es, c) = 0
<1> DEFINE pushed == {e \in es : e.fate \in {"emitted", "queue_drop"}}
           Counts(c) == IF c \in Roles THEN Cardinality({e \in pushed : e.role = c})
                        ELSE IF c = "emitted" THEN Cardinality(pushed)
                        ELSE Cardinality({e \in es : e.fate = c})
<1>1. \A T \in SUBSET es : Cardinality(T) \in Nat
  BY FS_Subset, FS_CardinalityType
<1>2. ASSUME NEW c \in StageCounters PROVE Counted(es, c) \in Nat
  <2>1. /\ {e \in pushed : e.role = c} \in SUBSET es /\ pushed \in SUBSET es
        /\ {e \in es : e.fate = c} \in SUBSET es
    OBVIOUS
  <2>2. /\ Cardinality({e \in pushed : e.role = c}) \in Nat /\ Cardinality(pushed) \in Nat
        /\ Cardinality({e \in es : e.fate = c}) \in Nat
    BY <1>1, <2>1
  <2> QED
    BY <2>2 DEF Counted
<1>3. ASSUME NEW c \in Synced \cup Unusable \cup {"queries_parsed", "responses_parsed"}
      PROVE  Counted(es, c) = 0
  <2>1. c \notin Roles /\ c # "emitted" /\ c \notin Fates \cup {"sampled_out"}
    BY FatesAssumption DEF Synced, Unusable, Roles
  <2>2. {e \in es : e.fate = c} = {}
    BY <2>1
  <2> QED
    BY <2>1, <2>2, FS_EmptySet DEF Counted
<1> QED
  BY <1>2, <1>3

\* What the emit() calls leave behind.
Emitted(es, s, last) ==
    /\ events' = events \o Listed(es)
    /\ \A c \in StageCounters \ Synced : shared'[c] = s[c] + Counted(es, c)
    /\ shared' \in [StageCounters -> Nat] /\ synced' \in [Synced -> Nat]
    /\ \A c \in Synced : \/ /\ last /\ shared'[c] = s[c] + stats'[c] - synced[c] /\ synced'[c] = stats'[c]
                         \/ ~last /\ shared'[c] = s[c] /\ synced'[c] = synced[c]

\* EmitAll has that effect, for events made of what was handed over.
LEMMA EmitEffect ==
    ASSUME NEW handed, IsFiniteSet(handed), NEW g, NEW s \in [StageCounters -> Nat], NEW last \in BOOLEAN,
           EmitAll(handed, g, s, last), synced \in [Synced -> Nat],
           \A c \in Synced : stats'[c] \in Nat /\ synced[c] <= stats'[c]
    PROVE  \E es : Made(es, handed, g) /\ Emitted(es, s, last)
<1>1. PICK es : /\ Made(es, handed, g)
                /\ events' = events \o Listed(es)
                /\ shared' = IF last THEN SyncStats([c \in StageCounters |-> s[c] + Counted(es, c)])
                             ELSE [c \in StageCounters |-> s[c] + Counted(es, c)]
                /\ synced' = IF last THEN [c \in Synced |-> stats'[c]] ELSE synced
  BY Zenon DEF EmitAll, Made
<1>2. IsFiniteSet(es) /\ \A e \in es : e.fate \in Fates \cup {"sampled_out"}
  BY <1>1, MadeFacts, EventFacts
<1>3. /\ \A c \in StageCounters : Counted(es, c) \in Nat
      /\ \A c \in Synced : Counted(es, c) = 0
  BY <1>2, CountedFacts
<1>4. Synced \subseteq StageCounters
  BY DEF StageCounters
<1>5. \A c \in StageCounters : s[c] \in Nat
  OBVIOUS
<1>6. CASE last
  <2>1. /\ shared' = [c \in StageCounters |-> IF c \in Synced THEN s[c] + Counted(es, c) + stats'[c] - synced[c]
                                              ELSE s[c] + Counted(es, c)]
        /\ synced' = [c \in Synced |-> stats'[c]]
    BY <1>1, <1>6 DEF SyncStats
  <2>2. \A c \in Synced : /\ shared'[c] = s[c] + Counted(es, c) + stats'[c] - synced[c]
                          /\ synced'[c] = stats'[c] /\ synced[c] \in Nat
    BY <1>4, <2>1
  <2>3. \A c \in Synced : shared'[c] = s[c] + stats'[c] - synced[c] /\ shared'[c] \in Nat
    BY <1>3, <1>4, <1>5, <2>2
  <2>4. \A c \in StageCounters \ Synced : shared'[c] = s[c] + Counted(es, c) /\ shared'[c] \in Nat
    BY <1>3, <1>5, <2>1
  <2>5. shared' \in [StageCounters -> Nat] /\ synced' \in [Synced -> Nat]
    BY <2>1, <2>3, <2>4
  <2> QED
    BY <1>1, <1>6, <2>2, <2>3, <2>4, <2>5 DEF Emitted
<1>7. CASE ~last
  <2>1. shared' = [c \in StageCounters |-> s[c] + Counted(es, c)] /\ synced' = synced
    BY <1>1, <1>7
  <2>2. \A c \in StageCounters : shared'[c] = s[c] + Counted(es, c) /\ shared'[c] \in Nat
    BY <1>3, <1>5, <2>1
  <2>3. \A c \in Synced : shared'[c] = s[c]
    BY <1>3, <1>4, <1>5, <2>2
  <2>4. shared' \in [StageCounters -> Nat]
    BY <2>1, <2>2
  <2> QED
    BY <1>1, <1>7, <2>1, <2>2, <2>3, <2>4 DEF Emitted
<1> QED
  BY <1>6, <1>7

\* The correlator's calls hand back finitely many contexts.
LEMMA ChangedFinite ==
    ASSUME PP!IndInv
    PROVE  /\ IsFiniteSet({i \in DOMAIN handedBack : handedBack'[i] # handedBack[i]})
           /\ DOMAIN handedBack = 1..MaxQueries
<1>1. DOMAIN handedBack = 1..MaxQueries
  BY CoreHolds DEF Core
<1>2. IsFiniteSet(1..MaxQueries)
  BY FS_Interval, BoundsAssumption
<1>3. {i \in DOMAIN handedBack : handedBack'[i] # handedBack[i]} \in SUBSET (1..MaxQueries)
  BY <1>1
<1> QED
  BY <1>1, <1>2, <1>3, FS_Subset

\* A query, a tick or the end of the engine: unanswered queries.
LEMMA HandedQueries ==
    ASSUME PP!IndInv
    PROVE  /\ Handed({}) = {<<i, 0>> : i \in {i \in 1..MaxQueries : handedBack'[i] # handedBack[i]}}
           /\ IsFiniteSet(Handed({}))
<1> DEFINE qs == {i \in 1..MaxQueries : handedBack'[i] # handedBack[i]}
           T == {<<i, 0>> : i \in qs}
           f == [i \in qs |-> <<i, 0>>]
<1>1. DOMAIN handedBack = 1..MaxQueries /\ IsFiniteSet(qs)
  BY ChangedFinite
<1>2. Handed({}) = T
  BY <1>1 DEF Handed
<1>3. f \in [qs -> T] /\ \A t \in T : \E i \in qs : f[i] = t
  OBVIOUS
<1>4. IsFiniteSet(T)
  <2> HIDE DEF f, qs, T
  <2>1. f \in Surjection(qs, T)
    BY <1>3 DEF Surjection
  <2> QED
    BY <1>1, <2>1, FS_Surjection
<1> QED
  BY <1>2, <1>4

\* A response: the transaction it completes.
LEMMA HandedResponse ==
    ASSUME PP!IndInv, NEW r, NEW i \in Nat, i \in 0..MaxQueries,
           \A j \in 1..MaxQueries : handedBack'[j] # handedBack[j] <=> j = i
    PROVE  Handed({r}) = {<<i, r>>} /\ IsFiniteSet(Handed({r}))
<1> DEFINE qs == {j \in DOMAIN handedBack : handedBack'[j] # handedBack[j]}
           q == IF qs = {} THEN 0 ELSE CHOOSE j \in qs : TRUE
<1>1. DOMAIN handedBack = 1..MaxQueries
  BY ChangedFinite
<1>2. Handed({r}) = {<<q, r>>}
  <2>1. {r} # {}
    OBVIOUS
  <2>2. Handed({r}) = {<<q, t>> : t \in {r}}
    BY <2>1 DEF Handed
  <2> HIDE DEF q
  <2> QED
    BY <2>2
<1>3. q = i
  <2>1. CASE i = 0
    <3>1. qs = {}
      BY <1>1, <2>1, BoundsAssumption
    <3> QED
      BY <2>1, <3>1
  <2>2. CASE i # 0
    <3>1. i \in 1..MaxQueries
      BY <2>2, BoundsAssumption
    <3>2. qs = {i}
      BY <1>1, <3>1
    <3> HIDE DEF qs
    <3> QED
      BY <3>2
  <2> QED
    BY <2>1, <2>2
<1>4. Handed({r}) = {<<i, r>>}
  BY <1>2, <1>3
<1>5. IsFiniteSet({<<i, r>>})
  BY FS_Singleton
<1> QED
  BY <1>4, <1>5

\* dns_stage_sync_stats() takes over what the correlator counted since, and the
\* calls before it leave those counters alone.
LEMMA LedgerEmit ==
    ASSUME TypeStage, Ledger, PP!IndInv, PP!IndInv', Advances, NEW es, NEW s, NEW last \in BOOLEAN,
           Emitted(es, s, last), \A c \in Synced : s[c] = shared[c], reported' = reported,
           tickAt' = <<>> => last
    PROVE  Ledger'
<1> SUFFICES ASSUME NEW c \in Synced
             PROVE  /\ synced'[c] <= stats'[c] /\ shared'[c] + reported'[c] = synced'[c]
                    /\ tickAt' = <<>> => synced'[c] = stats'[c]
  BY DEF Ledger, Total
<1>1. c \in StageCounters /\ c \in Counters
  BY DEF Synced, StageCounters, Counters
<1>2. /\ shared[c] \in Nat /\ reported[c] \in Nat /\ synced[c] \in Nat
      /\ stats[c] \in Nat /\ stats'[c] \in Nat
  BY <1>1, CoreHolds, CoreHoldsNext DEF Core, TypeStage
<1>3. stats[c] <= stats'[c]
  BY <1>1 DEF Advances
<1>4. synced[c] <= stats[c] /\ shared[c] + reported[c] = synced[c]
  BY DEF Ledger, Total
<1>5. \/ /\ last /\ shared'[c] = shared[c] + stats'[c] - synced[c] /\ synced'[c] = stats'[c]
      \/ ~last /\ shared'[c] = shared[c] /\ synced'[c] = synced[c]
  BY DEF Emitted
<1> QED
  BY <1>2, <1>3, <1>4, <1>5

\* A report moves the counters to what was reported.
LEMMA ReportMoves ==
    ASSUME TypeStage, Report
    PROVE  /\ shared' \in [StageCounters -> Nat] /\ reported' \in [StageCounters -> Nat]
           /\ \A c \in StageCounters : Total(c)' = Total(c)
<1>1. /\ reported' = [c \in StageCounters |-> reported[c] + shared[c]]
      /\ shared' = [c \in StageCounters |-> 0]
  BY DEF Report
<1>2. \A c \in StageCounters : shared[c] \in Nat /\ reported[c] \in Nat
  BY DEF TypeStage
<1>3. \A c \in StageCounters : shared'[c] + reported'[c] = shared[c] + reported[c]
  BY <1>1, <1>2
<1>4. shared' \in [StageCounters -> Nat] /\ reported' \in [StageCounters -> Nat]
  BY <1>1, <1>2
<1> QED
  BY <1>3, <1>4 DEF Total

-----------------------------------------------------------------------------
(* Lists of events.                                                        *)

\* Events of different queries, numbered.
Separate(es) ==
    /\ IsFiniteSet(es) /\ \A e \in es : e.query \in Nat
    /\ \A e, d \in es : e.query = d.query => e = d

\* Of several events one has the oldest query.
LEMMA FirstEvent ==
    ASSUME NEW es, Separate(es), NEW S \in SUBSET es, S # {}
    PROVE  \E x \in S : \A y \in S : x.query <= y.query
<1> DEFINE Upto(x) == {y \in S : y.query <= x.query}
           T == {Upto(x) : x \in S}
<1>0. \A x \in S : x.query \in Nat
  BY DEF Separate
<1>1. T \subseteq FiniteSubsetsOf(S) /\ T # {}
  <2>1. \A x \in S : Upto(x) \in SUBSET S
    OBVIOUS
  <2>2. IsFiniteSet(S)
    BY FS_Subset DEF Separate
  <2>3. \A U \in SUBSET S : IsFiniteSet(U)
    BY <2>2, FS_Subset
  <2> QED
    BY <2>1, <2>3 DEF FiniteSubsetsOf
<1>2. IsWellFoundedOn(StrictSubsetOrdering(S), FiniteSubsetsOf(S))
  BY FS_StrictSubsetOrderingWellFounded
<1>3. PICK U \in T : \A V \in T : ~ (<<V, U>> \in StrictSubsetOrdering(S))
  <2> HIDE DEF T
  <2> QED
    BY <1>1, <1>2, WFMin
<1>4. PICK x \in S : U = Upto(x)
  OBVIOUS
<1>5. ASSUME NEW y \in S, y.query < x.query PROVE FALSE
  <2>1. Upto(y) \in T
    OBVIOUS
  <2>2. Upto(y) \subseteq Upto(x) /\ x \notin Upto(y) /\ x \in Upto(x)
    <3>1. \A z \in S : z.query <= y.query => z.query <= x.query
      BY <1>0, <1>5
    <3>2. x.query <= x.query /\ ~(x.query <= y.query)
      BY <1>0, <1>5
    <3> QED
      BY <3>1, <3>2
  <2>3. <<Upto(y), U>> \in StrictSubsetOrdering(S)
    <3> HIDE DEF Upto
    <3> QED
      BY <1>4, <2>2 DEF StrictSubsetOrdering, Upto
  <2> HIDE DEF Upto, T
  <2> QED
    BY <1>3, <2>1, <2>3
<1> QED
  BY <1>0, <1>5

\* In the order of their queries, up to the n-th.
Increasing(s, n) == \A i, j \in 1..n : i < j => s[i].query < s[j].query

\* Events can be put in that order: a minimal set that could not would have a
\* first event, and the others could.
LEMMA CanBeListed ==
    ASSUME NEW es, Separate(es)
    PROVE  \E s \in [1..Cardinality(es) -> es] : Increasing(s, Cardinality(es))
<1> DEFINE Fine(T) == \E s \in [1..Cardinality(T) -> T] : Increasing(s, Cardinality(T))
           Bad == {T \in SUBSET es : ~Fine(T)}
<1> SUFFICES ASSUME es \in Bad PROVE FALSE
  OBVIOUS
<1>0. \A T \in SUBSET es : IsFiniteSet(T)
  BY FS_Subset DEF Separate
<1>1. Bad \subseteq FiniteSubsetsOf(es)
  BY <1>0 DEF FiniteSubsetsOf
<1>2. IsWellFoundedOn(StrictSubsetOrdering(es), FiniteSubsetsOf(es))
  BY FS_StrictSubsetOrderingWellFounded
<1>3. PICK T \in Bad : \A V \in Bad : ~ (<<V, T>> \in StrictSubsetOrdering(es))
  <2> HIDE DEF Bad
  <2> QED
    BY <1>1, <1>2, WFMin
<1> DEFINE n == Cardinality(T)
<1>4. T \in SUBSET es /\ n \in Nat /\ ~Fine(T)
  <2>1. T \in SUBSET es /\ ~Fine(T)
    OBVIOUS
  <2> QED
    BY <1>0, <2>1, FS_CardinalityType
<1>5. T # {}
  <2> SUFFICES ASSUME T = {} PROVE FALSE
    OBVIOUS
  <2>1. n = 0
    BY FS_EmptySet
  <2>2. <<>> \in [1..n -> T] /\ Increasing(<<>>, n)
    BY <2>1 DEF Increasing
  <2> QED
    BY <1>4, <2>2
<1>6. PICK x \in T : \A y \in T : x.query <= y.query
  BY <1>4, <1>5, FirstEvent
<1> DEFINE V == T \ {x}
<1>7. V \in SUBSET es /\ Cardinality(V) = n - 1 /\ n > 0
  <2>1. IsFiniteSet(T) /\ n # 0
    BY <1>0, <1>4, <1>5, FS_EmptySet
  <2>2. Cardinality(V) = IF x \in T THEN n - 1 ELSE n
    BY <2>1, FS_RemoveElement
  <2>3. Cardinality(V) = n - 1
    BY <1>6, <2>2
  <2>4. n > 0
    <3> HIDE DEF n
    <3> QED
      BY <1>4, <2>1
  <2> QED
    BY <1>4, <2>3, <2>4
<1>8. Fine(V)
  <2>1. <<V, T>> \in StrictSubsetOrdering(es)
    BY <1>4, <1>6 DEF StrictSubsetOrdering
  <2>2. V \notin Bad
    <3> HIDE DEF Bad, V
    <3> QED
      BY <1>3, <2>1
  <2> QED
    BY <1>7, <2>2
<1>9. PICK s \in [1..(n - 1) -> V] : Increasing(s, n - 1)
  BY <1>7, <1>8
<1> DEFINE t == [i \in 1..n |-> IF i = 1 THEN x ELSE s[i - 1]]
<1>10. t \in [1..n -> T]
  <2>1. \A i \in 1..n : i # 1 => i - 1 \in 1..(n - 1)
    BY <1>4
  <2>2. \A i \in 1..n : i # 1 => s[i - 1] \in T
    BY <2>1
  <2> QED
    BY <2>2
<1>11. Increasing(t, n)
  <2> SUFFICES ASSUME NEW i \in 1..n, NEW j \in 1..n, i < j PROVE t[i].query < t[j].query
    BY DEF Increasing
  <2>1. j - 1 \in 1..(n - 1) /\ t[j] = s[j - 1] /\ s[j - 1] \in V
    BY <1>4
  <2>2. CASE i = 1
    <3>1. t[i] = x /\ s[j - 1] \in T /\ x # s[j - 1] /\ x \in es /\ s[j - 1] \in es
      BY <2>1, <2>2, <1>4
    <3>2. x.query \in Nat /\ s[j - 1].query \in Nat /\ x.query # s[j - 1].query
      BY <3>1 DEF Separate
    <3>3. x.query <= s[j - 1].query
      BY <1>6, <3>1
    <3>4. x.query < s[j - 1].query
      BY <3>2, <3>3
    <3> HIDE DEF t, V
    <3> QED
      BY <2>1, <3>1, <3>4
  <2>3. CASE i # 1
    <3>1. i - 1 \in 1..(n - 1) /\ t[i] = s[i - 1] /\ i - 1 < j - 1
      BY <1>4, <2>3
    <3>2. s[i - 1].query < s[j - 1].query
      BY <1>9, <2>1, <3>1 DEF Increasing
    <3> HIDE DEF t, V
    <3> QED
      BY <2>1, <3>1, <3>2
  <2> QED
    BY <2>2, <2>3
<1> QED
  BY <1>4, <1>10, <1>11

\* The list of events has each of them once.
LEMMA ListedFacts ==
    ASSUME NEW es, Separate(es)
    PROVE  /\ Listed(es) \in Bijection(1..Cardinality(es), es) /\ Cardinality(es) \in Nat
           /\ Listed(es) \in Seq(es) /\ Len(Listed(es)) = Cardinality(es)
<1> DEFINE n == Cardinality(es)
           s == Listed(es)
<1>1. IsFiniteSet(es) /\ n \in Nat
  BY FS_CardinalityType DEF Separate
<1>2. PICK t \in [1..n -> es] : \A i, j \in DOMAIN t : i < j => t[i].query < t[j].query
  BY CanBeListed DEF Increasing
<1>3. s \in [1..n -> es] /\ \A i, j \in DOMAIN s : i < j => s[i].query < s[j].query
  BY <1>2 DEF Listed
<1> HIDE DEF s
<1>4. \A i, j \in 1..n : s[i] = s[j] => i = j
  <2> SUFFICES ASSUME NEW i \in 1..n, NEW j \in 1..n, s[i] = s[j], i # j PROVE FALSE
    OBVIOUS
  <2>1. s[i].query \in Nat /\ s[j].query = s[i].query
    BY <1>3 DEF Separate
  <2>2. i < j \/ j < i
    BY <1>1
  <2> QED
    BY <1>3, <2>1, <2>2
<1>5. s \in Injection(1..n, es)
  BY <1>3, <1>4 DEF Injection, IsInjective
<1>6. Cardinality(1..n) = n
  BY <1>1, FS_Interval
<1>7. s \in Surjection(1..n, es)
  BY <1>1, <1>5, <1>6, FS_Injection
<1>8. s \in Seq(es) /\ Len(s) = n
  <2> HIDE DEF n
  <2> QED
    BY <1>1, <1>3
<1> QED
  BY <1>1, <1>5, <1>7, <1>8 DEF Bijection, s

\* How many of the elements of a sequence are in T.
Tally(s, T) == Cardinality({k \in DOMAIN s : s[k] \in T})

\* The list of the events es is appended to s.
Joined(t, s, es) == t = s \o Listed(es)

\* A list that is appended follows what was there.
LEMMA ListAppended ==
    ASSUME NEW U, NEW s \in Seq(U), NEW es, Separate(es), NEW t, Joined(t, s, es)
    PROVE  /\ t \in Seq(U \cup es)
           /\ \A k \in 1..Len(t) : (k \in 1..Len(s) /\ t[k] = s[k]) \/ t[k] \in es
<1> DEFINE l == Listed(es)
           m == Len(s)
           n == Cardinality(es)
<1>1. l \in [1..n -> es] /\ n \in Nat /\ l \in Seq(es) /\ Len(l) = n /\ m \in Nat
  BY ListedFacts DEF Bijection, Injection
<1> HIDE DEF l, n
<1>2. /\ t \in Seq(U \cup es) /\ Len(t) = m + n
      /\ \A k \in 1..(m + n) : t[k] = IF k <= m THEN s[k] ELSE l[k - m]
  <2>1. s \in Seq(U \cup es) /\ l \in Seq(U \cup es)
    BY <1>1
  <2>2. t = s \o l
    BY DEF l, Joined
  <2>3. t \in Seq(U \cup es) /\ Len(t) = m + n
    <3> DEFINE W == U \cup es
    <3>1. s \in Seq(W) /\ l \in Seq(W)
      BY <2>1
    <3> HIDE DEF W
    <3>2. t \in Seq(W) /\ Len(t) = Len(s) + Len(l)
      BY <2>2, <3>1
    <3> QED
      BY <1>1, <3>2 DEF W
  <2>4. ASSUME NEW k \in 1..(m + n) PROVE t[k] = IF k <= m THEN s[k] ELSE l[k - m]
    BY <1>1, <2>1, <2>2
  <2> QED
    BY <2>3, <2>4
<1>3. ASSUME NEW k \in 1..(m + n) PROVE (k \in 1..m /\ t[k] = s[k]) \/ t[k] \in es
  <2>1. CASE k <= m
    BY <1>1, <1>2, <2>1
  <2>2. CASE ~(k <= m)
    <3>1. k - m \in 1..n
      BY <1>1, <2>2
    <3> QED
      BY <1>1, <1>2, <2>2, <3>1
  <2> QED
    BY <2>1, <2>2
<1> QED
  BY <1>2, <1>3

\* A list that is appended adds the events of it that are in T.
LEMMA TallyOf ==
    ASSUME NEW U, NEW s \in Seq(U), NEW es, Separate(es), NEW t, Joined(t, s, es), NEW T
    PROVE  Tally(t, T) = Tally(s, T) + Cardinality(es \cap T) /\ Tally(s, T) \in Nat
<1> DEFINE l == Listed(es)
           m == Len(s)
           n == Cardinality(es)
           A == {k \in 1..m : s[k] \in T}
           B == {k \in (m + 1)..(m + n) : l[k - m] \in T}
           E == es \cap T
<1>1. /\ l \in [1..n -> es] /\ n \in Nat /\ l \in Seq(es) /\ Len(l) = n /\ m \in Nat
      /\ \A i, j \in 1..n : l[i] = l[j] => i = j
      /\ \A e \in es : \E i \in 1..n : l[i] = e
  BY ListedFacts DEF Bijection, Injection, IsInjective, Surjection
<1> HIDE DEF l, n
<1>2. /\ t \in Seq(U \cup es) /\ Len(t) = m + n /\ DOMAIN t = 1..(m + n)
      /\ \A k \in 1..(m + n) : t[k] = IF k <= m THEN s[k] ELSE l[k - m]
  <2>1. s \in Seq(U \cup es) /\ l \in Seq(U \cup es)
    BY <1>1
  <2> QED
    BY <1>1, <2>1 DEF l, Joined
<1>3. \A k \in (m + 1)..(m + n) : k - m \in 1..n /\ k \in 1..(m + n) /\ ~(k <= m)
  BY <1>1
<1>4. \A k \in 1..(m + n) : k \in 1..m \/ k \in (m + 1)..(m + n)
  BY <1>1
<1>5. \A k \in 1..m : k \in 1..(m + n) /\ k <= m
  BY <1>1
<1>6. {k \in DOMAIN t : t[k] \in T} = A \cup B
  <2>1. \A k \in 1..m : t[k] = s[k]
    BY <1>2, <1>5
  <2>2. \A k \in (m + 1)..(m + n) : t[k] = l[k - m]
    BY <1>2, <1>3
  <2> QED
    BY <1>2, <1>3, <1>4, <1>5, <2>1, <2>2
<1>7. A \cap B = {}
  BY <1>3, <1>5
<1>8. IsFiniteSet(A) /\ IsFiniteSet(B)
  <2>1. IsFiniteSet(1..m) /\ IsFiniteSet((m + 1)..(m + n))
    BY <1>1, FS_Interval
  <2> QED
    BY <2>1, FS_Subset
<1>9. Cardinality(B) = Cardinality(E) /\ IsFiniteSet(E)
  <2> DEFINE f == [k \in B |-> l[k - m]]
  <2>1. \A k \in B : f[k] = l[k - m] /\ k - m \in 1..n /\ k \in Int /\ f[k] \in E
    BY <1>1, <1>3
  <2>2. f \in [B -> E]
    BY <2>1
  <2>3. \A j, k \in B : f[j] = f[k] => j = k
    <3> SUFFICES ASSUME NEW j \in B, NEW k \in B, f[j] = f[k] PROVE j = k
      OBVIOUS
    <3>1. j - m = k - m
      BY <1>1, <2>1
    <3> QED
      BY <1>1, <2>1, <3>1
  <2>4. \A e \in E : \E k \in B : f[k] = e
    <3> SUFFICES ASSUME NEW e \in E PROVE \E k \in B : f[k] = e
      OBVIOUS
    <3>1. PICK i \in 1..n : l[i] = e
      BY <1>1
    <3>2. m + i \in (m + 1)..(m + n) /\ (m + i) - m = i
      BY <1>1
    <3>3. m + i \in B
      BY <3>1, <3>2
    <3> QED
      BY <2>1, <3>1, <3>2, <3>3
  <2> HIDE DEF f, B, E
  <2>5. f \in Bijection(B, E)
    BY <2>2, <2>3, <2>4 DEF Bijection, Injection, IsInjective, Surjection
  <2>6. ExistsBijection(B, E)
    BY <2>5 DEF ExistsBijection
  <2> QED
    BY <1>8, <2>6, FS_Bijection
<1>10. Cardinality(A) \in Nat /\ Cardinality(B) \in Nat /\ Cardinality(E) \in Nat
  BY <1>8, <1>9, FS_CardinalityType
<1>11. Cardinality(A \cup B) = Cardinality(A) + Cardinality(B)
  <2> HIDE DEF A, B
  <2>1. Cardinality(A \cup B) = Cardinality(A) + Cardinality(B) - Cardinality(A \cap B)
    BY <1>8, FS_Union
  <2>2. Cardinality(A \cap B) = 0
    BY <1>7, FS_EmptySet
  <2> QED
    BY <1>10, <2>1, <2>2
<1>12. {k \in DOMAIN s : s[k] \in T} = A
  OBVIOUS
<1> HIDE DEF A, B, E
<1>13. Tally(t, T) = Tally(s, T) + Cardinality(E) /\ Tally(s, T) \in Nat
  BY <1>6, <1>9, <1>10, <1>11, <1>12 DEF Tally
<1> QED
  BY <1>13 DEF E

\* Events that are appended add to every number of events.
LEMMA AppendedCounts ==
    ASSUME NEW U, events \in Seq(U), NEW es, Separate(es), Joined(events', events, es)
    PROVE  /\ \A i : /\ EventsOfQuery(i)' = EventsOfQuery(i) + Cardinality({e \in es : e.query = i})
                     /\ EventsOfQuery(i) \in Nat
           /\ \A r : /\ EventsOfResponse(r)' = EventsOfResponse(r) + Cardinality({e \in es : e.response = r})
                     /\ EventsOfResponse(r) \in Nat
           /\ \A S : WithFate(S)' = WithFate(S) + Cardinality({e \in es : e.fate \in S}) /\ WithFate(S) \in Nat
<1> DEFINE W == U \cup es
<1>1. /\ \A k \in DOMAIN events : events[k] \in W
      /\ \A k \in DOMAIN events' : events'[k] \in W
  <2>1. events' \in Seq(U \cup es)
    BY ListAppended
  <2>2. \A k \in DOMAIN events' : events'[k] \in W
    BY <2>1
  <2>3. \A k \in DOMAIN events : events[k] \in W
    OBVIOUS
  <2> QED
    BY <2>2, <2>3
<1>2. ASSUME NEW T
      PROVE  Tally(events', T) = Tally(events, T) + Cardinality(es \cap T) /\ Tally(events, T) \in Nat
  BY TallyOf
<1>3. ASSUME NEW i
      PROVE  /\ EventsOfQuery(i)' = EventsOfQuery(i) + Cardinality({e \in es : e.query = i})
             /\ EventsOfQuery(i) \in Nat
  <2> DEFINE T == {e \in W : e.query = i}
  <2>1. /\ {k \in DOMAIN events : events[k].query = i} = {k \in DOMAIN events : events[k] \in T}
        /\ {k \in DOMAIN events' : events'[k].query = i} = {k \in DOMAIN events' : events'[k] \in T}
        /\ es \cap T = {e \in es : e.query = i}
    BY <1>1
  <2>2. EventsOfQuery(i)' = Tally(events', T) /\ EventsOfQuery(i) = Tally(events, T)
    BY <2>1 DEF EventsOfQuery, Tally
  <2> HIDE DEF T
  <2> QED
    BY <1>2, <2>1, <2>2
<1>4. ASSUME NEW r
      PROVE  /\ EventsOfResponse(r)' = EventsOfResponse(r) + Cardinality({e \in es : e.response = r})
             /\ EventsOfResponse(r) \in Nat
  <2> DEFINE T == {e \in W : e.response = r}
  <2>1. /\ {k \in DOMAIN events : events[k].response = r} = {k \in DOMAIN events : events[k] \in T}
        /\ {k \in DOMAIN events' : events'[k].response = r} = {k \in DOMAIN events' : events'[k] \in T}
        /\ es \cap T = {e \in es : e.response = r}
    BY <1>1
  <2>2. EventsOfResponse(r)' = Tally(events', T) /\ EventsOfResponse(r) = Tally(events, T)
    BY <2>1 DEF EventsOfResponse, Tally
  <2> HIDE DEF T
  <2> QED
    BY <1>2, <2>1, <2>2
<1>5. ASSUME NEW S
      PROVE  WithFate(S)' = WithFate(S) + Cardinality({e \in es : e.fate \in S}) /\ WithFate(S) \in Nat
  <2> DEFINE T == {e \in W : e.fate \in S}
  <2>1. /\ {k \in DOMAIN events : events[k].fate \in S} = {k \in DOMAIN events : events[k] \in T}
        /\ {k \in DOMAIN events' : events'[k].fate \in S} = {k \in DOMAIN events' : events'[k] \in T}
        /\ es \cap T = {e \in es : e.fate \in S}
    BY <1>1
  <2>2. WithFate(S)' = Tally(events', T) /\ WithFate(S) = Tally(events, T)
    BY <2>1 DEF WithFate, Tally
  <2> HIDE DEF T
  <2> QED
    BY <1>2, <2>1, <2>2
<1> QED
  BY <1>3, <1>4, <1>5

\* Every pushed event is on one leg.
LEMMA RolesAddUp ==
    ASSUME NEW es, IsFiniteSet(es), \A e \in es : e.role \in Roles
    PROVE  Counted(es, "emitted") = Counted(es, "client_facing") + Counted(es, "backend")
                                      + Counted(es, "recursion_upstream") + Counted(es, "unknown")
<1> DEFINE p == {e \in es : e.fate \in {"emitted", "queue_drop"}}
           On(c) == {e \in p : e.role = c}
           A == On("client_facing")
           B == On("backend")
           C == On("recursion_upstream")
           D == On("unknown")
<1>1. p = ((A \cup B) \cup C) \cup D
  BY DEF Roles
<1>2. A \cap B = {} /\ (A \cup B) \cap C = {} /\ ((A \cup B) \cup C) \cap D = {}
  OBVIOUS
<1>3. IsFiniteSet(A) /\ IsFiniteSet(B) /\ IsFiniteSet(C) /\ IsFiniteSet(D)
  BY FS_Subset
<1>4. /\ Counted(es, "client_facing") = Cardinality(A) /\ Counted(es, "backend") = Cardinality(B)
      /\ Counted(es, "recursion_upstream") = Cardinality(C) /\ Counted(es, "unknown") = Cardinality(D)
      /\ Counted(es, "emitted") = Cardinality(p)
  BY DEF Counted, Roles
<1> HIDE DEF A, B, C, D, p
<1>5. Cardinality({}) = 0
  BY FS_EmptySet
<1>6. IsFiniteSet(A \cup B) /\ Cardinality(A \cup B) = Cardinality(A) + Cardinality(B) - Cardinality(A \cap B)
  BY <1>3, FS_Union
<1>7. /\ IsFiniteSet((A \cup B) \cup C)
      /\ Cardinality((A \cup B) \cup C)
           = Cardinality(A \cup B) + Cardinality(C) - Cardinality((A \cup B) \cap C)
  BY <1>3, <1>6, FS_Union
<1>8. Cardinality(((A \cup B) \cup C) \cup D)
        = Cardinality((A \cup B) \cup C) + Cardinality(D) - Cardinality(((A \cup B) \cup C) \cap D)
  BY <1>3, <1>7, FS_Union
<1>9. Cardinality(A) \in Nat /\ Cardinality(B) \in Nat /\ Cardinality(C) \in Nat /\ Cardinality(D) \in Nat
  BY <1>3, FS_CardinalityType
<1>10. /\ Cardinality(A \cap B) = 0 /\ Cardinality((A \cup B) \cap C) = 0
      /\ Cardinality(((A \cup B) \cup C) \cap D) = 0
  BY <1>2, <1>5
<1>11. Cardinality(A \cup B) = Cardinality(A) + Cardinality(B)
  BY <1>6, <1>9, <1>10
<1>12. Cardinality((A \cup B) \cup C) = Cardinality(A) + Cardinality(B) + Cardinality(C)
  BY <1>7, <1>9, <1>11, <1>10
<1>13. Cardinality(p) = Cardinality(A) + Cardinality(B) + Cardinality(C) + Cardinality(D)
  BY <1>1, <1>8, <1>9, <1>12, <1>10
<1> QED
  BY <1>4, <1>13

\* Two counters and their sum: one of them is added to.
LEMMA SumMoves ==
    ASSUME NEW a \in Nat, NEW b \in Nat, NEW d \in Nat, NEW x, NEW y, x = a + d, y = b
    PROVE  x + y = (a + b) + d
  OBVIOUS

\* One of them and the sum grow by the same.
LEMMA SumFollows ==
    ASSUME NEW a \in Nat, NEW b \in Nat, NEW x \in Nat, NEW m \in Nat, NEW n1 \in Nat,
           a + b = m, x - a = n1 - m
    PROVE  x + b = n1
  OBVIOUS

\* The counters s count the queries and responses of this call.
ParsedInto(s) ==
    /\ s["queries_parsed"] - shared["queries_parsed"] = Len(queries') - Len(queries)
    /\ s["responses_parsed"] - shared["responses_parsed"] = Len(matches') - Len(matches)

\* The counters and the events a call of the stage adds agree.
LEMMA TotalsEmit ==
    ASSUME TypeStage, Books, Totals, NEW es, Separate(es), NEW s \in [StageCounters -> Nat], NEW last,
           Emitted(es, s, last),
           \A e \in es : e.fate \in Fates \cup {"sampled_out"} /\ e.role \in Roles, reported' = reported,
           ParsedInto(s),
           \A c \in StageCounters \ {"queries_parsed", "responses_parsed"} : s[c] = shared[c],
           Len(queries) \in Nat, Len(queries') \in Nat, Len(matches) \in Nat, Len(matches') \in Nat
    PROVE  Totals'
<1>0. PICK U : events \in Seq(U)
  BY DEF Books
<1>1. \A S : WithFate(S)' = WithFate(S) + Cardinality({e \in es : e.fate \in S}) /\ WithFate(S) \in Nat
  BY <1>0, AppendedCounts DEF Emitted, Joined
<1>2. \A c \in StageCounters : shared[c] \in Nat /\ reported[c] \in Nat /\ s[c] \in Nat
  BY DEF TypeStage
<1>3. /\ \A c \in StageCounters : Counted(es, c) \in Nat
      /\ Counted(es, "queries_parsed") = 0 /\ Counted(es, "responses_parsed") = 0
  BY CountedFacts DEF Separate
<1>4. \A c \in StageCounters \ Synced : shared'[c] = s[c] + Counted(es, c)
  BY DEF Emitted
<1>5. \A c \in StageCounters \ (Synced \cup {"queries_parsed", "responses_parsed"}) :
          Total(c)' = Total(c) + Counted(es, c)
  <2>1. \A c \in StageCounters \ (Synced \cup {"queries_parsed", "responses_parsed"}) :
            /\ shared'[c] = shared[c] + Counted(es, c) /\ Counted(es, c) \in Nat
            /\ shared[c] \in Nat /\ reported[c] \in Nat /\ reported'[c] = reported[c]
    BY <1>2, <1>3, <1>4
  <2>2. ASSUME NEW c \in StageCounters \ (Synced \cup {"queries_parsed", "responses_parsed"})
        PROVE  shared'[c] + reported'[c] = (shared[c] + reported[c]) + Counted(es, c)
    BY <2>1, SumMoves
  <2> QED
    BY <2>2 DEF Total
<1>6. \A c \in StageCounters : Total(c) \in Nat
  BY <1>2 DEF Total
<1>7. Total("queries_parsed")' = Len(queries') /\ Total("responses_parsed")' = Len(matches')
  <2>1. /\ "queries_parsed" \in StageCounters \ Synced /\ "responses_parsed" \in StageCounters \ Synced
    BY DEF StageCounters, Synced
  <2>2. /\ shared'["queries_parsed"] = s["queries_parsed"]
        /\ shared'["responses_parsed"] = s["responses_parsed"]
    BY <1>2, <1>3, <1>4, <2>1
  <2>3. /\ shared["queries_parsed"] + reported["queries_parsed"] = Len(queries)
        /\ shared["responses_parsed"] + reported["responses_parsed"] = Len(matches)
    BY DEF Totals, Total
  <2>4. /\ shared["queries_parsed"] \in Nat /\ reported["queries_parsed"] \in Nat /\ s["queries_parsed"] \in Nat
        /\ reported'["queries_parsed"] = reported["queries_parsed"]
    BY <1>2, <2>1
  <2>5. /\ shared["responses_parsed"] \in Nat /\ reported["responses_parsed"] \in Nat
        /\ s["responses_parsed"] \in Nat /\ reported'["responses_parsed"] = reported["responses_parsed"]
    BY <1>2, <2>1
  <2>6. shared'["queries_parsed"] + reported'["queries_parsed"] = Len(queries')
    <3>1. s["queries_parsed"] + reported["queries_parsed"] = Len(queries')
      BY <2>3, <2>4, SumFollows DEF ParsedInto
    <3> QED
      BY <2>2, <2>4, <3>1
  <2>7. shared'["responses_parsed"] + reported'["responses_parsed"] = Len(matches')
    <3>1. s["responses_parsed"] + reported["responses_parsed"] = Len(matches')
      BY <2>3, <2>5, SumFollows DEF ParsedInto
    <3> QED
      BY <2>2, <2>5, <3>1
  <2> QED
    BY <2>6, <2>7 DEF Total
<1>8. Total("emitted")' = WithFate({"emitted", "queue_drop"})'
  <2>1. "emitted" \in StageCounters \ (Synced \cup {"queries_parsed", "responses_parsed"})
    BY DEF StageCounters, Synced
  <2>2. Counted(es, "emitted") = Cardinality({e \in es : e.fate \in {"emitted", "queue_drop"}})
    BY DEF Counted, Roles
  <2>3. Total("emitted") = WithFate({"emitted", "queue_drop"})
    BY DEF Totals
  <2> QED
    BY <1>1, <1>5, <2>1, <2>2, <2>3
<1>9. ASSUME NEW c \in {"queue_drop", "oversize", "encode_failure", "sampled_out"}
      PROVE  Total(c)' = WithFate({c})'
  <2>1. c \in StageCounters \ (Synced \cup {"queries_parsed", "responses_parsed"})
    BY DEF StageCounters, Synced
  <2>2. {e \in es : e.fate \in {c}} = {e \in es : e.fate = c}
    OBVIOUS
  <2>3. Counted(es, c) = Cardinality({e \in es : e.fate \in {c}})
    BY <2>2 DEF Counted, Roles
  <2>4. Total(c) = WithFate({c})
    BY DEF Totals
  <2> QED
    BY <1>1, <1>5, <2>1, <2>3, <2>4
<1>10. Total("emitted")' = Total("client_facing")' + Total("backend")' + Total("recursion_upstream")'
                             + Total("unknown")'
  <2>1. {"emitted", "client_facing", "backend", "recursion_upstream", "unknown"}
           \subseteq StageCounters \ (Synced \cup {"queries_parsed", "responses_parsed"})
    BY DEF StageCounters, Synced, Roles
  <2> DEFINE a == Total("emitted")
             b == Total("client_facing")
             c == Total("backend")
             d == Total("recursion_upstream")
             e == Total("unknown")
             f == Counted(es, "emitted")
             g == Counted(es, "client_facing")
             h == Counted(es, "backend")
             i == Counted(es, "recursion_upstream")
             j == Counted(es, "unknown")
  <2>2. f = g + h + i + j
    BY RolesAddUp DEF Separate
  <2>3. a = b + c + d + e
    BY DEF Totals
  <2>4. \A x \in {"emitted", "client_facing", "backend", "recursion_upstream", "unknown"} :
           Total(x)' = Total(x) + Counted(es, x) /\ Total(x) \in Nat /\ Counted(es, x) \in Nat
    BY <1>3, <1>5, <1>6, <2>1
  <2>5. /\ Total("emitted")' = a + f /\ Total("client_facing")' = b + g /\ Total("backend")' = c + h
        /\ Total("recursion_upstream")' = d + i /\ Total("unknown")' = e + j
    BY <2>4
  <2>6. /\ a \in Nat /\ b \in Nat /\ c \in Nat /\ d \in Nat /\ e \in Nat
        /\ f \in Nat /\ g \in Nat /\ h \in Nat /\ i \in Nat /\ j \in Nat
    BY <2>4
  <2> HIDE DEF a, b, c, d, e, f, g, h, i, j
  <2>7. a + f = (b + g) + (c + h) + (d + i) + (e + j)
    BY <2>2, <2>3, <2>6
  <2> QED
    BY <2>5, <2>7
<1> QED
  BY <1>7, <1>8, <1>9, <1>10 DEF Totals

\* Every context a call hands back, and the response it is about, is in one of
\* the events it adds.
LEMMA BooksEmit ==
    ASSUME Books, NEW es, Separate(es), NEW s, NEW last, Emitted(es, s, last),
           Len(matches) \in Nat, Len(matches') \in Nat, Len(matches) <= Len(matches'),
           \A r \in 1..Len(matches) : given'.responses[r] = given.responses[r],
           \A e \in es : /\ e.response \in 0..Len(matches')
                         /\ e.fate = "sampled_out" =>
                               /\ e.outcome = "observed" /\ e.response # 0
                               /\ given'.responses[e.response].pkt.rcode = 0,
           \A i \in 1..MaxQueries : handedBack'[i] = handedBack[i] + Cardinality({e \in es : e.query = i}),
           \A r \in 1..MaxResponses : Cardinality({e \in es : e.response = r})
                                        = IF Len(matches) < r /\ r <= Len(matches') THEN 1 ELSE 0
    PROVE  Books'
<1>0. PICK U : events \in Seq(U)
  BY DEF Books
<1>1. Joined(events', events, es)
  BY DEF Emitted, Joined
<1>2. events' \in Seq(U \cup es)
  BY <1>0, <1>1, ListAppended
<1>3. \A k \in 1..Len(events') : (k \in 1..Len(events) /\ events'[k] = events[k]) \/ events'[k] \in es
  BY <1>0, <1>1, ListAppended
<1>4. ASSUME NEW k \in 1..Len(events') PROVE EventSound(k)'
  <2>1. CASE events'[k] \in es
    BY <2>1 DEF EventSound
  <2>2. CASE k \in 1..Len(events) /\ events'[k] = events[k]
    <3>1. EventSound(k)
      BY <2>2 DEF Books
    <3> DEFINE r == events[k].response
    <3>2. r \in 0..Len(matches) /\ r \in 0..Len(matches') /\ (r # 0 => r \in 1..Len(matches))
      BY <3>1 DEF EventSound
    <3>3. r # 0 => given'.responses[r] = given.responses[r]
      BY <3>2
    <3> HIDE DEF r
    <3>4. /\ events[k].fate = "sampled_out" =>
                events[k].outcome = "observed" /\ r # 0 /\ given.responses[r].pkt.rcode = 0
      BY <3>1 DEF EventSound, r
    <3>5. events'[k].response = r
      BY <2>2 DEF r
    <3> QED
      BY <2>2, <3>2, <3>3, <3>4, <3>5 DEF EventSound
  <2> QED
    BY <1>3, <2>1, <2>2
<1>5. \A i \in 1..MaxQueries : EventsOfQuery(i)' = handedBack'[i]
  <2>1. \A i : EventsOfQuery(i)' = EventsOfQuery(i) + Cardinality({e \in es : e.query = i})
    BY <1>0, <1>1, AppendedCounts
  <2>2. \A i \in 1..MaxQueries : EventsOfQuery(i) = handedBack[i]
    BY DEF Books
  <2> QED
    BY <2>1, <2>2
<1>6. \A r \in 1..MaxResponses : EventsOfResponse(r)' = IF r <= Len(matches') THEN 1 ELSE 0
  <2>1. \A r : EventsOfResponse(r)' = EventsOfResponse(r) + Cardinality({e \in es : e.response = r})
    BY <1>0, <1>1, AppendedCounts
  <2>2. \A r \in 1..MaxResponses : EventsOfResponse(r) = IF r <= Len(matches) THEN 1 ELSE 0
    BY DEF Books
  <2> SUFFICES ASSUME NEW r \in 1..MaxResponses
               PROVE  EventsOfResponse(r)' = IF r <= Len(matches') THEN 1 ELSE 0
    OBVIOUS
  <2>3. /\ EventsOfResponse(r)' = EventsOfResponse(r) + Cardinality({e \in es : e.response = r})
        /\ EventsOfResponse(r) = IF r <= Len(matches) THEN 1 ELSE 0
        /\ Cardinality({e \in es : e.response = r}) = IF Len(matches) < r /\ r <= Len(matches') THEN 1 ELSE 0
    BY <2>1, <2>2
  <2>4. r \in Int
    BY BoundsAssumption
  <2>5. CASE r <= Len(matches)
    BY <2>3, <2>4, <2>5
  <2>6. CASE Len(matches) < r
    BY <2>3, <2>4, <2>6
  <2> QED
    BY <2>4, <2>5, <2>6
<1> QED
  BY <1>2, <1>4, <1>5, <1>6 DEF Books

-----------------------------------------------------------------------------
(* What a call adds.                                                       *)

\* One event per transaction.
LEMMA MadeOne ==
    ASSUME NEW g, NEW q, NEW r, NEW h, h = <<q, r>>, NEW es, Made(es, {h}, g)
    PROVE  \E fate \in Fates : es = {Event(g, q, r, fate)}
<1>1. PICK fate \in [{h} -> Fates] : es = {Event(g, x[1], x[2], fate[x]) : x \in {h}}
  BY DEF Made
<1>2. h[1] = q /\ h[2] = r
  OBVIOUS
<1>3. fate[h] \in Fates /\ es = {Event(g, h[1], h[2], fate[h])}
  BY <1>1
<1> QED
  BY <1>2, <1>3

\* Unanswered queries: each context that came back is in one event.
LEMMA QueriesAdded ==
    ASSUME PP!IndInv, Advances, NEW g, NEW es, Made(es, Handed({}), g)
    PROVE  /\ Separate(es)
           /\ \A e \in es : /\ e.fate \in Fates \cup {"sampled_out"} /\ e.role \in Roles
                            /\ e.response = 0 /\ e.fate # "sampled_out"
           /\ \A i \in 1..MaxQueries : handedBack'[i] = handedBack[i] + Cardinality({e \in es : e.query = i})
<1> DEFINE qs == {i \in 1..MaxQueries : handedBack'[i] # handedBack[i]}
           H == {<<i, 0>> : i \in qs}
<1>1. IsFiniteSet(H) /\ Made(es, H, g)
  BY HandedQueries
<1>2. PICK fate \in [H -> Fates] : es = {Event(g, h[1], h[2], fate[h]) : h \in H}
  BY <1>1 DEF Made
<1> DEFINE Ev(i) == Event(g, i, 0, fate[<<i, 0>>])
<1>3. /\ \A i \in qs : Ev(i) \in es /\ fate[<<i, 0>>] \in Fates
      /\ \A e \in es : \E i \in qs : e = Ev(i)
  <2> HIDE DEF qs
  <2>1. \A h \in H : fate[h] \in Fates
    OBVIOUS
  <2>2. \A i \in qs : <<i, 0>> \in H /\ <<i, 0>>[1] = i /\ <<i, 0>>[2] = 0
    OBVIOUS
  <2>3. \A h \in H : \E i \in qs : h = <<i, 0>>
    OBVIOUS
  <2> HIDE DEF H
  <2>4. \A e \in es : \E h \in H : e = Event(g, h[1], h[2], fate[h])
    BY <1>2, Zenon
  <2>5. \A h \in H : Event(g, h[1], h[2], fate[h]) \in es
    BY <1>2, Zenon
  <2>6. \A i \in qs : Ev(i) \in es
    BY <2>2, <2>5
  <2>7. \A e \in es : \E i \in qs : e = Ev(i)
    BY <2>2, <2>3, <2>4
  <2> QED
    BY <2>1, <2>2, <2>6, <2>7
<1>4. \A i \in qs : /\ Ev(i).query = i /\ Ev(i).response = 0 /\ Ev(i).role \in Roles
                    /\ Ev(i).fate = fate[<<i, 0>>]
  BY EventFacts
<1>5. IsFiniteSet(es)
  BY <1>1, MadeFacts
<1>6. \A i \in qs : i \in Nat
  BY BoundsAssumption
<1> HIDE DEF Ev
<1>7. ASSUME NEW e \in es
      PROVE  /\ e.query \in qs /\ e = Ev(e.query) /\ e.response = 0 /\ e.role \in Roles
             /\ e.fate = fate[<<e.query, 0>>]
  <2> HIDE DEF qs
  <2>1. PICK i \in qs : e = Ev(i)
    BY <1>3
  <2>2. e.query = i /\ e.response = 0 /\ e.role \in Roles /\ e.fate = fate[<<i, 0>>]
    BY <1>4, <2>1
  <2> QED
    BY <2>1, <2>2
<1>8. Separate(es)
  <2> HIDE DEF qs
  <2>2. ASSUME NEW e \in es PROVE e.query \in qs /\ e = Ev(e.query)
    BY <1>7
  <2>1. \A e \in es : e.query \in Nat
    BY <1>6, <2>2
  <2>3. \A e, d \in es : e.query = d.query => e = d
    BY <2>2
  <2> QED
    BY <1>5, <2>1, <2>3 DEF Separate
<1>9. \A e \in es : /\ e.fate \in Fates \cup {"sampled_out"} /\ e.role \in Roles
                    /\ e.response = 0 /\ e.fate # "sampled_out"
  <2> HIDE DEF qs
  <2>1. "sampled_out" \notin Fates
    BY FatesAssumption
  <2>2. \A e \in es : e.fate \in Fates
    BY <1>3, <1>7
  <2> QED
    BY <1>7, <2>1, <2>2
<1>10. ASSUME NEW i \in 1..MaxQueries
      PROVE  handedBack'[i] = handedBack[i] + Cardinality({e \in es : e.query = i})
  <2>0. handedBack[i] \in Nat
    BY CoreHolds DEF Core
  <2>1. CASE i \in qs
    <3>1. {e \in es : e.query = i} = {Ev(i)}
      <4> HIDE DEF qs
      <4> QED
        BY <1>3, <1>4, <1>7, <2>1
    <3>2. Cardinality({e \in es : e.query = i}) = 1
      BY <3>1, FS_Singleton
    <3>3. handedBack'[i] = handedBack[i] + 1
      BY <2>1 DEF Advances
    <3> QED
      BY <3>2, <3>3
  <2>2. CASE i \notin qs
    <3>1. {e \in es : e.query = i} = {}
      <4> HIDE DEF qs
      <4> QED
        BY <1>7, <2>2
    <3>2. Cardinality({e \in es : e.query = i}) = 0
      BY <3>1, FS_EmptySet
    <3>3. handedBack'[i] = handedBack[i]
      BY <2>2
    <3> QED
      BY <2>0, <3>2, <3>3
  <2> QED
    BY <2>1, <2>2
<1> QED
  BY <1>8, <1>9, <1>10

\* A call hands back context i and no other, none for 0.
Only(i) == \A j \in 1..MaxQueries : handedBack'[j] # handedBack[j] <=> j = i

\* Events of response r.
OfResponse(es, r, g) ==
    \A e \in es : /\ e.fate \in Fates \cup {"sampled_out"} /\ e.role \in Roles /\ e.response = r
                  /\ e.fate = "sampled_out" => e.outcome = "observed" /\ g.responses[r].pkt.rcode = 0

\* An event for every context a call hands back.
InEvents(es) ==
    \A j \in 1..MaxQueries : handedBack'[j] = handedBack[j] + Cardinality({e \in es : e.query = j})

\* A response: its event has the context of the query it was paired with.
LEMMA ResponseAdded ==
    ASSUME PP!IndInv, Advances, NEW g, NEW es, NEW r \in Nat \ {0}, NEW i \in 0..MaxQueries,
           NEW h, h = Handed({r}), Made(es, h, g), Only(i)
    PROVE  /\ Separate(es)
           /\ OfResponse(es, r, g) /\ InEvents(es)
           /\ IsFiniteSet(es) /\ Cardinality(es) = 1
<1>0. i \in Nat /\ \A j \in 1..MaxQueries : handedBack'[j] # handedBack[j] <=> j = i
  BY BoundsAssumption DEF Only
<1> DEFINE x == <<i, r>>
<1>1. Made(es, {x}, g)
  BY <1>0, HandedResponse
<1>2. PICK fate \in Fates : es = {Event(g, i, r, fate)}
  <2>1. x = <<i, r>>
    OBVIOUS
  <2> HIDE DEF x
  <2> QED
    BY <1>1, <2>1, MadeOne
<1> DEFINE ev == Event(g, i, r, fate)
<1>3. /\ ev.query = i /\ ev.response = r /\ ev.role \in Roles
      /\ ev.fate = fate \/ (ev.fate = "sampled_out" /\ ev.outcome = "observed" /\ Rcode(g, i, r) = 0)
  BY EventFacts
<1>4. Rcode(g, i, r) = g.responses[r].pkt.rcode
  BY DEF Rcode
<1> HIDE DEF ev
<1>5. es = {ev}
  BY <1>2 DEF ev
<1>6. Separate(es)
  BY <1>0, <1>3, <1>5, FS_Singleton DEF Separate
<1>7. \A e \in es : /\ e.fate \in Fates \cup {"sampled_out"} /\ e.role \in Roles /\ e.response = r
                    /\ e.fate = "sampled_out" => /\ e.outcome = "observed"
                                                 /\ g.responses[r].pkt.rcode = 0
  BY <1>3, <1>4, <1>5, FatesAssumption
<1>8. Cardinality({ev}) = 1 /\ Cardinality({}) = 0
  BY FS_Singleton, FS_EmptySet
<1>9. ASSUME NEW j \in 1..MaxQueries
      PROVE  handedBack'[j] = handedBack[j] + Cardinality({e \in es : e.query = j})
  <2>0. handedBack[j] \in Nat
    BY CoreHolds DEF Core
  <2>1. CASE j = i
    <3>1. {e \in es : e.query = j} = {ev}
      BY <1>3, <1>5, <2>1
    <3>2. handedBack'[j] = handedBack[j] + 1
      BY <1>0, <2>1 DEF Advances
    <3> QED
      BY <1>8, <3>1, <3>2
  <2>2. CASE j # i
    <3>1. {e \in es : e.query = j} = {}
      BY <1>3, <1>5, <2>2
    <3>2. handedBack'[j] = handedBack[j]
      BY <1>0, <2>2
    <3>3. Cardinality({e \in es : e.query = j}) = 0
      BY <1>8, <3>1
    <3> QED
      BY <2>0, <3>2, <3>3
  <2> QED
    BY <2>1, <2>2
<1>10. IsFiniteSet(es) /\ Cardinality(es) = 1
  BY <1>5, FS_Singleton
<1> QED
  BY <1>6, <1>7, <1>9, <1>10 DEF OfResponse, InEvents

-----------------------------------------------------------------------------
(* The steps.                                                              *)

\* The correlator's counters before and after one of its calls, and what was
\* taken over of them.
LEMMA SyncedBehind ==
    ASSUME TypeStage, Ledger, PP!IndInv, PP!IndInv', Advances
    PROVE  /\ synced \in [Synced -> Nat] /\ shared \in [StageCounters -> Nat]
           /\ \A c \in Synced : stats'[c] \in Nat /\ synced[c] <= stats'[c]
<1>1. synced \in [Synced -> Nat] /\ shared \in [StageCounters -> Nat]
  BY DEF TypeStage
<1>2. ASSUME NEW c \in Synced PROVE stats'[c] \in Nat /\ synced[c] <= stats'[c]
  <2>1. c \in Counters
    BY DEF Synced, Counters
  <2>2. stats[c] \in Nat /\ stats'[c] \in Nat /\ synced[c] \in Nat
    BY <1>1, <2>1, CoreHolds, CoreHoldsNext DEF Core
  <2>3. stats[c] <= stats'[c] /\ synced[c] <= stats[c]
    BY <2>1 DEF Advances, Ledger
  <2> QED
    BY <2>2, <2>3
<1> QED
  BY <1>1, <1>2

\* Steps without a transaction.
LEMMA QuietBooks ==
    ASSUME Ledger, Books, Totals, UNCHANGED <<correlator, given, events, synced, tickAt>>,
           \A c \in StageCounters \ Unusable : Total(c)' = Total(c)
    PROVE  Ledger' /\ Books' /\ Totals'
<1>1. UNCHANGED <<queries, handedBack, matches, stats, given, events, synced, tickAt>>
  BY DEF correlator
<1>2. Books'
  BY <1>1 DEF Books, EventSound, EventsOfQuery, EventsOfResponse
<1>3. Ledger'
  <2>1. \A c \in Synced : c \in StageCounters \ Unusable
    BY DEF Synced, StageCounters, Unusable
  <2>2. \A c \in Synced : Total(c)' = Total(c)
    BY <2>1
  <2> QED
    BY <1>1, <2>2 DEF Ledger
<1>4. Totals'
  <2>1. /\ Total("queries_parsed")' = Total("queries_parsed")
        /\ Total("responses_parsed")' = Total("responses_parsed") /\ Total("emitted")' = Total("emitted")
    BY DEF StageCounters, Unusable
  <2>2. \A c \in {"queue_drop", "oversize", "encode_failure", "sampled_out"} : Total(c)' = Total(c)
    BY DEF StageCounters, Unusable
  <2>3. /\ Total("client_facing")' = Total("client_facing") /\ Total("backend")' = Total("backend")
        /\ Total("recursion_upstream")' = Total("recursion_upstream") /\ Total("unknown")' = Total("unknown")
    BY DEF StageCounters, Unusable, Roles
  <2>4. \A S : WithFate(S)' = WithFate(S)
    BY <1>1 DEF WithFate
  <2> QED
    BY <1>1, <2>1, <2>2, <2>3, <2>4 DEF Totals
<1> QED
  BY <1>2, <1>3, <1>4

\* dns_stage_process_packet() without a usable packet.
LEMMA UnusableKeeps == ASSUME StageInv, ProcessUnusable PROVE StageInv'
<1>0. /\ Story /\ Ledger /\ Books /\ Totals /\ TypeStage /\ InTime
  BY DEF StageInv, Story
<1>1. /\ in # <<>> /\ in' = Tail(in) /\ UNCHANGED <<correlator, given, events, synced, reported, tickAt>>
      /\ UNCHANGED <<mode, clock, ring>> /\ tickAt = <<>>
  BY DEF ProcessUnusable, world
<1>2. PICK c \in Unusable : shared' = [shared EXCEPT ![c] = @ + 1]
  <2>1. Head(in).pkt \in Templates
    BY <1>0, <1>1, QueueFacts, FrameFacts DEF TypeStage
  <2>2. Head(in).pkt.class # "ok" => Head(in).pkt.class \in Unusable
    BY <2>1, TemplatesAssumption
  <2>3. "packets_skipped" \in Unusable
    BY DEF Unusable
  <2> QED
    BY <2>2, <2>3 DEF ProcessUnusable, Bump
<1>3. Takes /\ (tickAt' = <<>> \/ tickAt' = <<Head(in).time>>)
  BY <1>1 DEF Takes
<1>4. InTime' /\ in' \in Seq(Frames) /\ \A x \in Int : NotBefore(x) => NotBefore(x)'
  BY <1>0, <1>3, TakeInTime
<1>5. shared' \in [StageCounters -> Nat] /\ \A d \in StageCounters \ Unusable : Total(d)' = Total(d)
  <2>1. shared \in [StageCounters -> Nat] /\ c \in StageCounters
    BY <1>0 DEF TypeStage, StageCounters
  <2>2. \A d \in StageCounters \ Unusable : shared'[d] = shared[d] /\ reported'[d] = reported[d]
    BY <1>1, <1>2, <2>1
  <2>3. shared' \in [StageCounters -> Nat]
    BY <1>2, <2>1
  <2> QED
    BY <2>2, <2>3 DEF Total
<1>6. TypeStage'
  BY <1>0, <1>1, <1>4, <1>5 DEF TypeStage
<1>7. Story'
  BY <1>0, <1>1, <1>4, <1>6, QuietStory
<1>8. Ledger' /\ Books' /\ Totals'
  BY <1>0, <1>1, <1>5, QuietBooks
<1> QED
  BY <1>7, <1>8 DEF StageInv

\* cf_dns_correlator_tick() and cf_dns_correlator_free(), and what the stage
\* emits for them.
LEMMA DiscardCall ==
    ASSUME StageInv, NEW S \in SUBSET pending, P!Discard(S), open, open' \in BOOLEAN, open' \/ S = pending,
           EmitAll(Handed({}), given, shared, TRUE), UNCHANGED <<world, in, given, reported>>,
           tickAt' = <<>> \/ tickAt' = tickAt,
           mode = "live" /\ open' => \A i \in S : TooLate(i)
    PROVE  StageInv'
<1>0. /\ Story /\ Ledger /\ Books /\ Totals /\ TypeStage /\ InTime /\ PP!IndInv
  BY DEF StageInv, Story
<1>1. UNCHANGED <<mode, clock, ring, in, given, reported>>
  BY DEF world
<1>2. PP!IndInv' /\ Advances /\ UNCHANGED <<queries, matches>>
  BY <1>0, CoreDiscard, DiscardEffect
<1>3. /\ synced \in [Synced -> Nat] /\ shared \in [StageCounters -> Nat]
      /\ \A c \in Synced : stats'[c] \in Nat /\ synced[c] <= stats'[c]
  BY <1>0, <1>2, SyncedBehind
<1>4. IsFiniteSet(Handed({}))
  BY <1>0, HandedQueries
<1>5. PICK es : Made(es, Handed({}), given) /\ Emitted(es, shared, TRUE)
  BY <1>3, <1>4, EmitEffect
<1>6. /\ Separate(es)
      /\ \A e \in es : /\ e.fate \in Fates \cup {"sampled_out"} /\ e.role \in Roles
                       /\ e.response = 0 /\ e.fate # "sampled_out"
      /\ \A i \in 1..MaxQueries : handedBack'[i] = handedBack[i] + Cardinality({e \in es : e.query = i})
  BY <1>0, <1>2, <1>5, QueriesAdded
<1>7. Len(queries) \in Nat /\ Len(matches) \in Nat
  BY <1>0, CoreHolds DEF Core
<1>8. TypeStage'
  BY <1>0, <1>1, <1>5 DEF TypeStage, Emitted
<1>9. InTime' /\ \A x \in Int : NotBefore(x) => NotBefore(x)'
  BY <1>0, <1>1, StillInTime DEF Still
<1>10. mode = "live" /\ open' => \A i \in S : TooLate(i)'
  BY <1>1, <1>2 DEF TooLate, NotBefore
<1>11. Story'
  BY <1>0, <1>1, <1>8, <1>9, <1>10, DiscardStory
<1>12. Ledger'
  BY <1>0, <1>1, <1>2, <1>5, LedgerEmit
<1>13. Totals'
  <2>1. /\ shared["queries_parsed"] - shared["queries_parsed"] = Len(queries') - Len(queries)
        /\ shared["responses_parsed"] - shared["responses_parsed"] = Len(matches') - Len(matches)
        /\ Len(queries') \in Nat /\ Len(matches') \in Nat
    <3>1. shared["queries_parsed"] \in Nat /\ shared["responses_parsed"] \in Nat
      BY <1>3 DEF StageCounters
    <3> QED
      BY <1>2, <1>7, <3>1
  <2> QED
    BY <1>0, <1>1, <1>3, <1>5, <1>6, <1>7, <2>1, TotalsEmit DEF ParsedInto
<1>14. Books'
  <2>1. \A r \in 1..MaxResponses : Cardinality({e \in es : e.response = r})
                                     = IF Len(matches) < r /\ r <= Len(matches') THEN 1 ELSE 0
    <3> SUFFICES ASSUME NEW r \in 1..MaxResponses
                 PROVE  Cardinality({e \in es : e.response = r})
                          = IF Len(matches) < r /\ r <= Len(matches') THEN 1 ELSE 0
      OBVIOUS
    <3>1. r # 0 /\ r \in Int
      BY BoundsAssumption
    <3>2. {e \in es : e.response = r} = {}
      BY <1>6, <3>1
    <3>3. Cardinality({e \in es : e.response = r}) = 0
      BY <3>2, FS_EmptySet
    <3>4. ~(Len(matches) < r /\ r <= Len(matches'))
      BY <1>2, <1>7, <3>1
    <3> QED
      BY <3>3, <3>4
  <2>2. /\ Len(matches') \in Nat /\ Len(matches) <= Len(matches')
        /\ \A r \in 1..Len(matches) : given'.responses[r] = given.responses[r]
        /\ \A e \in es : e.response \in 0..Len(matches')
    BY <1>1, <1>2, <1>6, <1>7
  <2> QED
    BY <1>0, <1>5, <1>6, <1>7, <2>1, <2>2, BooksEmit
<1> QED
  BY <1>11, <1>12, <1>13, <1>14 DEF StageInv

\* A tick discards queries whose answers, should they come, are too late, given
\* that what is still to come was captured no earlier than Lag before it.
LEMMA ExpiredTooLate ==
    ASSUME TypeStage, PP!IndInv, NEW now \in Int, NEW i \in P!ExpiredPrefix(now, Capacity),
           NotBefore(now - Lag)
    PROVE  TooLate(i)
<1>1. i \in pending /\ i \in 1..Len(queries)
  BY CoreHolds DEF P!ExpiredPrefix, Core
<1>2. now - queries[i].time > Timeout
  <2>1. i <= i
    BY <1>1, CoreHolds DEF Core
  <2> QED
    BY <1>1, <2>1 DEF P!ExpiredPrefix, P!Expired
<1> DEFINE d == queries[i].time + (Timeout - Lag) + 1
<1>3. d \in Int /\ queries[i].time \in Int /\ Timeout \in Int /\ Lag \in Nat
  BY <1>1, DeadlineType
<1>4. d <= now - Lag /\ now - Lag \in Int
  BY <1>2, <1>3
<1> HIDE DEF d
<1>5. NotBefore(d)
  BY <1>3, <1>4, NotBeforeLower
<1> QED
  BY <1>5 DEF TooLate, d

\* The tick at the end of the TickEvery-th packet.
LEMMA PeriodicKeeps == ASSUME StageInv, PeriodicTick PROVE StageInv'
<1>0. TypeStage /\ InTime /\ PP!IndInv
  BY DEF StageInv, Story
<1> DEFINE S == P!ExpiredPrefix(tickAt[1], Capacity)
<1>1. /\ tickAt # <<>> /\ open /\ P!Discard(S) /\ open' = open
      /\ EmitAll(Handed({}), given, shared, TRUE) /\ tickAt' = <<>>
      /\ UNCHANGED <<world, in, given, reported>>
  BY DEF PeriodicTick, P!Tick
<1>2. S \in SUBSET pending
  BY DEF P!ExpiredPrefix
<1>3. tickAt[1] \in Int
  BY <1>0, <1>1, TimesAssumption DEF TypeStage
<1>4. mode = "live" => \A i \in S : TooLate(i)
  <2> SUFFICES ASSUME mode = "live", NEW i \in S PROVE TooLate(i)
    OBVIOUS
  <2>1. NotBefore(tickAt[1])
    BY <1>0, <1>1 DEF InTime
  <2>2. Lag \in Nat /\ tickAt[1] - Lag \in Int /\ tickAt[1] - Lag <= tickAt[1]
    BY <1>3, StageTimesAssumption DEF Lag
  <2>3. NotBefore(tickAt[1] - Lag)
    BY <1>0, <1>3, <2>1, <2>2, NotBeforeLower
  <2> QED
    BY <1>0, <1>3, <2>3, ExpiredTooLate
<1>5. open' \in BOOLEAN /\ open'
  BY <1>0, <1>1, CoreHolds DEF Core
<1> HIDE DEF S
<1> QED
  BY <1>1, <1>2, <1>4, <1>5, DiscardCall

\* The tick of an idle stage: whatever is queued or captured by now was captured
\* no longer than RingDelay before the empty pop.
LEMMA IdleKeeps == ASSUME StageInv, Idle, IdleTick PROVE StageInv'
<1>0. TypeStage /\ InTime /\ PP!IndInv
  BY DEF StageInv, Story
<1> DEFINE S == P!ExpiredPrefix(clock, Capacity)
<1>1. /\ idleAt # <<>> /\ open /\ P!Discard(S) /\ open' = open /\ tickAt' = tickAt
      /\ EmitAll(Handed({}), given, shared, TRUE)
      /\ UNCHANGED <<world, in, given, reported>>
  BY DEF IdleTick, P!Tick
<1>2. S \in SUBSET pending
  BY DEF P!ExpiredPrefix
<1>3. clock \in Int /\ RingDelay \in Nat /\ PollDelay \in Nat
  BY <1>0, StageTimesAssumption DEF TypeStage
<1>4. mode = "live" => \A i \in S : TooLate(i)
  <2> SUFFICES ASSUME mode = "live", NEW i \in S PROVE TooLate(i)
    OBVIOUS
  <2>1. idleAt[1] \in Int /\ NotBefore(idleAt[1] - RingDelay) /\ clock - idleAt[1] <= PollDelay
    BY <1>1 DEF Idle
  <2>2. /\ clock - Lag \in Int /\ idleAt[1] - RingDelay \in Int
        /\ clock - Lag <= idleAt[1] - RingDelay
    BY <1>3, <2>1 DEF Lag
  <2>3. NotBefore(clock - Lag)
    BY <1>0, <2>1, <2>2, NotBeforeLower
  <2> QED
    BY <1>0, <1>3, <2>3, ExpiredTooLate
<1>5. open' \in BOOLEAN /\ open'
  BY <1>0, <1>1, CoreHolds DEF Core
<1> HIDE DEF S
<1> QED
  BY <1>1, <1>2, <1>4, <1>5, DiscardCall

\* The end of the engine.
LEMMA FreeKeeps == ASSUME StageInv, FreeStage PROVE StageInv'
<1>1. /\ open /\ P!Discard(pending) /\ open' = FALSE
      /\ EmitAll(Handed({}), given, shared, TRUE) /\ tickAt' = <<>>
      /\ UNCHANGED <<world, in, given, reported>>
  BY DEF FreeStage, P!Free
<1>2. pending \in SUBSET pending /\ open' \in BOOLEAN
  BY <1>1
<1> QED
  BY <1>1, <1>2, DiscardCall

\* dns_stage_process_packet() with a usable packet: a query or a response.
LEMMA PacketCases ==
    ASSUME TypeStage, ProcessPacket
    PROVE  /\ in # <<>> /\ in' = Tail(in) /\ UNCHANGED <<mode, clock, ring, reported>>
           /\ Head(in) \in Frames /\ BuildKey(Head(in).pkt) \in Keys
           /\ \E last \in BOOLEAN :
                 /\ tickAt' = <<>> => last
                 /\ tickAt' = <<>> \/ tickAt' = <<Head(in).time>>
                 /\ \/ GivenQuery(Head(in)) /\ EmitAll(Handed({}), given', Bump("queries_parsed"), last)
                    \/ /\ GivenResponse(Head(in))
                       /\ EmitAll(Handed({Len(matches')}), given', Bump("responses_parsed"), last)
<1> DEFINE p == Head(in).pkt
           time == Head(in).time
           last == (processed + 1) % TickEvery # 0
<1>1. in # <<>> /\ in' = Tail(in) /\ UNCHANGED <<mode, clock, ring, reported>> /\ p.class = "ok"
  BY DEF ProcessPacket, world
<1>2. Head(in) \in Frames /\ p \in Templates
  BY <1>1, QueueFacts, FrameFacts DEF TypeStage
<1>3. p.qr \in BOOLEAN /\ BuildKey(p) \in Keys
  BY <1>1, <1>2, TemplatesAssumption
<1>4. /\ given' = IF p.qr THEN [given EXCEPT !.responses = Append(@, Head(in)),
                                                  !.before = Append(@, Len(queries))]
                  ELSE [given EXCEPT !.queries = Append(@, Head(in))]
      /\ IF p.qr THEN P!OnResponse(BuildKey(p), time) ELSE P!OnQuery(BuildKey(p), time)
      /\ EmitAll(Handed(IF p.qr THEN {Len(matches')} ELSE {}), given',
                 Bump(IF p.qr THEN "responses_parsed" ELSE "queries_parsed"), last)
      /\ processed' = (processed + 1) % TickEvery
      /\ tickAt' = IF processed' = 0 THEN <<time>> ELSE <<>>
  BY Zenon DEF ProcessPacket
<1>5. last \in BOOLEAN /\ (tickAt' = <<>> => last) /\ (tickAt' = <<>> \/ tickAt' = <<time>>)
  BY <1>4
<1>6. p.qr \/ ~p.qr
  OBVIOUS
<1> HIDE DEF last
<1>7. CASE p.qr
  <2>1. /\ given' = [given EXCEPT !.responses = Append(@, Head(in)), !.before = Append(@, Len(queries))]
        /\ P!OnResponse(BuildKey(p), time)
        /\ EmitAll(Handed({Len(matches')}), given', Bump("responses_parsed"), last)
    BY <1>4, <1>7, Zenon
  <2>2. GivenResponse(Head(in))
    BY <1>1, <2>1 DEF GivenResponse
  <2> QED
    BY <1>1, <1>2, <1>3, <1>5, <2>1, <2>2
<1>8. CASE ~p.qr
  <2>1. /\ given' = [given EXCEPT !.queries = Append(@, Head(in))]
        /\ P!OnQuery(BuildKey(p), time)
        /\ EmitAll(Handed({}), given', Bump("queries_parsed"), last)
    BY <1>4, <1>8, Zenon
  <2>2. GivenQuery(Head(in))
    BY <1>1, <2>1 DEF GivenQuery
  <2> QED
    BY <1>1, <1>2, <1>3, <1>5, <2>1, <2>2
<1> QED
  BY <1>6, <1>7, <1>8

\* Counting one packet more.
LEMMA BumpFacts ==
    ASSUME shared \in [StageCounters -> Nat], NEW c \in {"queries_parsed", "responses_parsed"}
    PROVE  /\ Bump(c) \in [StageCounters -> Nat] /\ Bump(c)[c] = shared[c] + 1
           /\ shared[c] \in Nat /\ \A d \in Synced : Bump(c)[d] = shared[d]
           /\ \A d \in StageCounters : d # c => Bump(c)[d] = shared[d]
<1>1. c \in StageCounters /\ c \notin Synced
  BY DEF StageCounters, Synced
<1>2. Synced \subseteq StageCounters
  BY DEF StageCounters
<1> QED
  BY <1>1, <1>2 DEF Bump

\* The call with a query.
LEMMA QueryCall ==
    ASSUME StageInv, in # <<>>, in' = Tail(in), UNCHANGED <<mode, clock, ring, reported>>,
           NEW f \in Frames, f = Head(in), BuildKey(f.pkt) \in Keys, NEW last \in BOOLEAN,
           tickAt' = <<>> => last, tickAt' = <<>> \/ tickAt' = <<f.time>>, GivenQuery(f),
           EmitAll(Handed({}), given', Bump("queries_parsed"), last)
    PROVE  StageInv'
<1> DEFINE s == Bump("queries_parsed")
<1>0. Story /\ Ledger /\ Books /\ Totals /\ TypeStage /\ InTime /\ PP!IndInv /\ History
  BY DEF StageInv, Story
<1>1. /\ Extends /\ Len(queries') = Len(queries) + 1 /\ Len(queries) \in Nat /\ matches' = matches /\ PP!IndInv'
  BY <1>0, QueryExtends
<1>2. Advances
  BY <1>0, FrameFacts, QueryEffect DEF GivenQuery
<1>3. /\ synced \in [Synced -> Nat] /\ shared \in [StageCounters -> Nat]
      /\ \A c \in Synced : stats'[c] \in Nat /\ synced[c] <= stats'[c]
  BY <1>0, <1>1, <1>2, SyncedBehind
<1>4. /\ s \in [StageCounters -> Nat] /\ s["queries_parsed"] = shared["queries_parsed"] + 1
      /\ shared["queries_parsed"] \in Nat /\ \A d \in Synced : s[d] = shared[d]
      /\ \A d \in StageCounters : d # "queries_parsed" => s[d] = shared[d]
  BY <1>3, BumpFacts
<1> HIDE DEF s
<1>5. PICK es : Made(es, Handed({}), given') /\ Emitted(es, s, last)
  <2>1. IsFiniteSet(Handed({})) /\ EmitAll(Handed({}), given', s, last)
    BY <1>0, HandedQueries DEF s
  <2> QED
    BY <1>3, <1>4, <2>1, EmitEffect
<1>6. /\ Separate(es)
      /\ \A e \in es : /\ e.fate \in Fates \cup {"sampled_out"} /\ e.role \in Roles
                       /\ e.response = 0 /\ e.fate # "sampled_out"
      /\ \A i \in 1..MaxQueries : handedBack'[i] = handedBack[i] + Cardinality({e \in es : e.query = i})
  BY <1>0, <1>2, <1>5, QueriesAdded
<1>7. Len(matches) \in Nat /\ Len(queries') \in Nat /\ Len(matches') \in Nat
  BY <1>0, <1>1, CoreHolds DEF Core
<1>8. Takes
  BY DEF Takes
<1>9. /\ InTime' /\ in' \in Seq(Frames) /\ (\A x \in Int : NotBefore(x) => NotBefore(x)')
      /\ mode = "live" => \A x \in Int : x = f.time => NotBefore(x)'
  BY <1>0, <1>8, TakeInTime
<1>10. TypeStage'
  <2>1. given' \in [queries : Seq(Frames), responses : Seq(Frames), before : Seq(Nat)]
    <3> DEFINE x == Append(given.queries, f)
    <3>1. /\ given \in [queries : Seq(Frames), responses : Seq(Frames), before : Seq(Nat)]
          /\ given.queries \in Seq(Frames)
      BY <1>0 DEF TypeStage
    <3>2. x \in Seq(Frames) /\ given' = [given EXCEPT !.queries = x]
      BY <3>1, AppendFacts DEF GivenQuery
    <3> HIDE DEF x
    <3> QED
      BY <3>1, <3>2
  <2>2. tickAt' = <<>> \/ \E x \in Times : tickAt' = <<x>>
    BY FrameFacts
  <2>3. shared' \in [StageCounters -> Nat] /\ synced' \in [Synced -> Nat]
    BY <1>5 DEF Emitted
  <2> QED
    BY <1>0, <1>9, <2>1, <2>2, <2>3 DEF TypeStage
<1>11. Story'
  BY <1>0, <1>9, <1>10, QueryStory
<1>12. Ledger'
  BY <1>0, <1>1, <1>2, <1>4, <1>5, LedgerEmit
<1>13. Totals'
  <2>1. s["queries_parsed"] - shared["queries_parsed"] = Len(queries') - Len(queries)
    BY <1>1, <1>4
  <2>2. s["responses_parsed"] - shared["responses_parsed"] = Len(matches') - Len(matches)
    <3>1. s["responses_parsed"] = shared["responses_parsed"] /\ shared["responses_parsed"] \in Nat
      BY <1>3, <1>4 DEF StageCounters
    <3> QED
      BY <1>1, <1>7, <3>1
  <2> QED
    BY <1>0, <1>1, <1>4, <1>5, <1>6, <1>7, <2>1, <2>2, TotalsEmit DEF ParsedInto
<1>14. Books'
  <2>1. \A r \in 1..MaxResponses : Cardinality({e \in es : e.response = r})
                                     = IF Len(matches) < r /\ r <= Len(matches') THEN 1 ELSE 0
    <3> SUFFICES ASSUME NEW r \in 1..MaxResponses
                 PROVE  Cardinality({e \in es : e.response = r})
                          = IF Len(matches) < r /\ r <= Len(matches') THEN 1 ELSE 0
      OBVIOUS
    <3>1. r # 0 /\ r \in Int
      BY BoundsAssumption
    <3>2. {e \in es : e.response = r} = {}
      BY <1>6, <3>1
    <3>3. Cardinality({e \in es : e.response = r}) = 0
      BY <3>2, FS_EmptySet
    <3>4. ~(Len(matches) < r /\ r <= Len(matches'))
      BY <1>1, <1>7, <3>1
    <3> QED
      BY <3>3, <3>4
  <2>2. /\ Len(matches) <= Len(matches')
        /\ \A r \in 1..Len(matches) : given'.responses[r] = given.responses[r]
        /\ \A e \in es : e.response \in 0..Len(matches')
    BY <1>1, <1>6, <1>7 DEF Extends
  <2> QED
    BY <1>0, <1>5, <1>6, <1>7, <2>1, <2>2, BooksEmit
<1> QED
  BY <1>11, <1>12, <1>13, <1>14 DEF StageInv

\* The call with a response.
LEMMA ResponseCall ==
    ASSUME StageInv, in # <<>>, in' = Tail(in), UNCHANGED <<mode, clock, ring, reported>>,
           NEW f \in Frames, f = Head(in), BuildKey(f.pkt) \in Keys, NEW last \in BOOLEAN,
           tickAt' = <<>> => last, tickAt' = <<>> \/ tickAt' = <<f.time>>, GivenResponse(f),
           EmitAll(Handed({Len(matches')}), given', Bump("responses_parsed"), last)
    PROVE  StageInv'
<1> DEFINE s == Bump("responses_parsed")
<1>0. Story /\ Ledger /\ Books /\ Totals /\ TypeStage /\ InTime /\ PP!IndInv /\ History
  BY DEF StageInv, Story
<1>1. /\ Extends /\ queries' = queries /\ Len(matches') = Len(matches) + 1 /\ Len(matches) \in Nat
      /\ Len(queries) \in Nat /\ PP!IndInv'
  BY <1>0, ResponseExtends
<1>2. Advances
  BY <1>0, FrameFacts, ResponseEffect DEF GivenResponse
<1>3. PICK i \in 0..MaxQueries : \A j \in 1..MaxQueries : handedBack'[j] # handedBack[j] <=> j = i
  <2>1. PICK i \in Nat : /\ IF i = 0 THEN \A j \in pending : queries[j].key # BuildKey(f.pkt)
                            ELSE i \in pending /\ queries[i].key = BuildKey(f.pkt)
                         /\ \A j \in 1..MaxQueries : handedBack'[j] # handedBack[j] <=> j = i
    BY <1>0, FrameFacts, ResponseEffect DEF GivenResponse
  <2>2. pending \subseteq 1..Len(queries) /\ Len(queries) <= MaxQueries /\ MaxQueries \in Nat
    BY <1>0, CoreHolds, BoundsAssumption DEF Core
  <2>3. i \in 0..MaxQueries
    BY <1>1, <2>1, <2>2
  <2> QED
    BY <2>1, <2>3
<1>4. /\ synced \in [Synced -> Nat] /\ shared \in [StageCounters -> Nat]
      /\ \A c \in Synced : stats'[c] \in Nat /\ synced[c] <= stats'[c]
  BY <1>0, <1>1, <1>2, SyncedBehind
<1>5. /\ s \in [StageCounters -> Nat] /\ s["responses_parsed"] = shared["responses_parsed"] + 1
      /\ shared["responses_parsed"] \in Nat /\ \A d \in Synced : s[d] = shared[d]
      /\ \A d \in StageCounters : d # "responses_parsed" => s[d] = shared[d]
  BY <1>4, BumpFacts
<1> HIDE DEF s
<1>6. PICK r \in Nat \ {0} : r = Len(matches') /\ r = Len(matches) + 1
  BY <1>1
<1>7. PICK h, es : h = Handed({r}) /\ Made(es, h, given') /\ Emitted(es, s, last)
  <2>1. i \in Nat
    BY BoundsAssumption
  <2>2. IsFiniteSet(Handed({r}))
    BY <1>0, <1>3, <2>1, HandedResponse
  <2>3. EmitAll(Handed({r}), given', s, last)
    BY <1>6 DEF s
  <2> QED
    BY <1>4, <1>5, <2>2, <2>3, EmitEffect
<1>8. /\ Separate(es)
      /\ \A e \in es : /\ e.fate \in Fates \cup {"sampled_out"} /\ e.role \in Roles /\ e.response = r
                       /\ e.fate = "sampled_out" => /\ e.outcome = "observed"
                                                    /\ given'.responses[r].pkt.rcode = 0
      /\ \A j \in 1..MaxQueries : handedBack'[j] = handedBack[j] + Cardinality({e \in es : e.query = j})
      /\ Cardinality(es) = 1
  <2>1. Only(i)
    BY <1>3 DEF Only
  <2>2. Separate(es) /\ OfResponse(es, r, given') /\ InEvents(es) /\ Cardinality(es) = 1
    BY <1>0, <1>2, <1>7, <2>1, ResponseAdded
  <2>3. \A e \in es : /\ e.fate \in Fates \cup {"sampled_out"} /\ e.role \in Roles /\ e.response = r
                      /\ e.fate = "sampled_out" => /\ e.outcome = "observed"
                                                   /\ given'.responses[r].pkt.rcode = 0
    BY <2>2 DEF OfResponse
  <2>4. \A j \in 1..MaxQueries : handedBack'[j] = handedBack[j] + Cardinality({e \in es : e.query = j})
    BY <2>2 DEF InEvents
  <2> QED
    BY <2>2, <2>3, <2>4
<1>9. Len(queries') \in Nat /\ Len(matches') \in Nat
  BY <1>1
<1>10. Takes
  BY DEF Takes
<1>11. InTime' /\ in' \in Seq(Frames) /\ \A x \in Int : NotBefore(x) => NotBefore(x)'
  BY <1>0, <1>10, TakeInTime
<1>12. TypeStage'
  <2>1. given' \in [queries : Seq(Frames), responses : Seq(Frames), before : Seq(Nat)]
    <3> DEFINE x == Append(given.responses, f)
               y == Append(given.before, Len(queries))
    <3>1. /\ given \in [queries : Seq(Frames), responses : Seq(Frames), before : Seq(Nat)]
          /\ given.responses \in Seq(Frames) /\ given.before \in Seq(Nat)
      BY <1>0 DEF TypeStage
    <3>2. x \in Seq(Frames)
      BY <3>1, AppendFacts
    <3>3. y \in Seq(Nat)
      BY <1>1, <3>1
    <3>4. given' = [given EXCEPT !.responses = x, !.before = y]
      BY DEF GivenResponse
    <3> HIDE DEF x, y
    <3> QED
      BY <3>1, <3>2, <3>3, <3>4
  <2>2. tickAt' = <<>> \/ \E x \in Times : tickAt' = <<x>>
    BY FrameFacts
  <2>3. shared' \in [StageCounters -> Nat] /\ synced' \in [Synced -> Nat]
    BY <1>7 DEF Emitted
  <2> QED
    BY <1>0, <1>11, <2>1, <2>2, <2>3 DEF TypeStage
<1>13. Story'
  BY <1>0, <1>11, <1>12, ResponseStory
<1>14. Ledger'
  BY <1>0, <1>1, <1>2, <1>5, <1>7, LedgerEmit
<1>15. Totals'
  <2>1. s["responses_parsed"] - shared["responses_parsed"] = Len(matches') - Len(matches)
    BY <1>1, <1>5
  <2>2. s["queries_parsed"] - shared["queries_parsed"] = Len(queries') - Len(queries)
    <3>1. s["queries_parsed"] = shared["queries_parsed"] /\ shared["queries_parsed"] \in Nat
      BY <1>4, <1>5 DEF StageCounters
    <3> QED
      BY <1>1, <3>1
  <2> QED
    BY <1>0, <1>1, <1>5, <1>7, <1>8, <1>9, <2>1, <2>2, TotalsEmit DEF ParsedInto
<1>16. Books'
  <2>1. \A t \in 1..MaxResponses : Cardinality({e \in es : e.response = t})
                                     = IF Len(matches) < t /\ t <= Len(matches') THEN 1 ELSE 0
    <3>1. \A t \in 1..MaxResponses : t = r <=> Len(matches) < t /\ t <= Len(matches')
      BY <1>1, <1>6, BoundsAssumption
    <3> SUFFICES ASSUME NEW t \in 1..MaxResponses
                 PROVE  Cardinality({e \in es : e.response = t}) = IF t = r THEN 1 ELSE 0
      BY <3>1
    <3>2. t = r => {e \in es : e.response = t} = es
      BY <1>8
    <3>3. t # r => {e \in es : e.response = t} = {}
      BY <1>8
    <3>4. Cardinality({}) = 0
      BY FS_EmptySet
    <3> QED
      BY <1>8, <3>2, <3>3, <3>4
  <2>2. /\ Len(matches) <= Len(matches')
        /\ \A t \in 1..Len(matches) : given'.responses[t] = given.responses[t]
    BY <1>1 DEF Extends
  <2>3. \A e \in es : /\ e.response \in 0..Len(matches')
                      /\ e.fate = "sampled_out" => /\ e.outcome = "observed" /\ e.response # 0
                                                   /\ given'.responses[e.response].pkt.rcode = 0
    BY <1>8, <1>6
  <2> QED
    BY <1>0, <1>1, <1>7, <1>8, <1>9, <2>1, <2>2, <2>3, BooksEmit
<1> QED
  BY <1>13, <1>14, <1>15, <1>16 DEF StageInv

\* Steps of the world around the stage.
LEMMA WorldKeeps ==
    ASSUME StageInv, UNCHANGED <<correlator, tickAt, given, events, synced, shared, reported, mode>>,
           InTime', in' \in Seq(Frames), ring' \in Seq(Frames), clock' \in Int,
           mode = "live" => clock' \in 0..MaxTime, \A x \in Int : NotBefore(x) => NotBefore(x)'
    PROVE  StageInv'
<1>0. Story /\ Ledger /\ Books /\ Totals /\ TypeStage
  BY DEF StageInv, Story
<1>1. TypeStage'
  BY <1>0 DEF TypeStage
<1>2. Story'
  BY <1>0, <1>1, QuietStory
<1>3. \A c \in StageCounters \ Unusable : Total(c)' = Total(c)
  BY DEF Total
<1>4. Ledger' /\ Books' /\ Totals'
  BY <1>0, <1>3, QuietBooks
<1> QED
  BY <1>2, <1>4 DEF StageInv

\* dns_stage_stop().
LEMMA StopKeeps == ASSUME StageInv, Stop PROVE StageInv'
<1>0. TypeStage /\ InTime
  BY DEF StageInv, Story
<1>1. /\ UNCHANGED <<correlator, tickAt, given, events, synced, shared, reported, mode>> /\ Still
      /\ UNCHANGED <<in, ring, clock>>
  BY DEF Stop, world, Still
<1>2. InTime' /\ \A x \in Int : NotBefore(x) => NotBefore(x)'
  BY <1>0, <1>1, StillInTime
<1>3. in' \in Seq(Frames) /\ ring' \in Seq(Frames) /\ clock' \in Int /\ (mode = "live" => clock' \in 0..MaxTime)
  BY <1>0, <1>1 DEF TypeStage
<1> QED
  BY <1>1, <1>2, <1>3, WorldKeeps

\* An empty pop.
LEMMA PopEmptyKeeps == ASSUME StageInv, PopEmpty PROVE StageInv'
<1>0. TypeStage /\ InTime
  BY DEF StageInv, Story
<1>1. /\ UNCHANGED <<correlator, tickAt, given, events, synced, shared, reported, mode>> /\ Still
      /\ UNCHANGED <<in, ring, clock>>
  BY DEF PopEmpty, world, Still
<1>2. InTime' /\ \A x \in Int : NotBefore(x) => NotBefore(x)'
  BY <1>0, <1>1, StillInTime
<1>3. in' \in Seq(Frames) /\ ring' \in Seq(Frames) /\ clock' \in Int /\ (mode = "live" => clock' \in 0..MaxTime)
  BY <1>0, <1>1 DEF TypeStage
<1> QED
  BY <1>1, <1>2, <1>3, WorldKeeps

\* The kernel captures a packet.
LEMMA CaptureKeeps == ASSUME StageInv, NEW p \in Templates, Capture(p) PROVE StageInv'
<1>0. TypeStage /\ InTime
  BY DEF StageInv, Story
<1>1. UNCHANGED <<correlator, tickAt, given, events, synced, shared, reported, mode, in, clock>>
  BY DEF Capture, stage
<1>2. InTime' /\ ring' \in Seq(Frames) /\ \A x \in Int : NotBefore(x) => NotBefore(x)'
  BY <1>0, CaptureInTime
<1>3. in' \in Seq(Frames) /\ clock' \in Int /\ (mode = "live" => clock' \in 0..MaxTime)
  BY <1>0, <1>1 DEF TypeStage
<1> QED
  BY <1>1, <1>2, <1>3, WorldKeeps

\* The rx-reader hands a packet over.
LEMMA HandOverKeeps == ASSUME StageInv, HandOver PROVE StageInv'
<1>0. TypeStage /\ InTime
  BY DEF StageInv, Story
<1>1. UNCHANGED <<correlator, tickAt, given, events, synced, shared, reported, mode, clock>>
  BY DEF HandOver, stage
<1>2. InTime' /\ in' \in Seq(Frames) /\ ring' \in Seq(Frames) /\ \A x \in Int : NotBefore(x) => NotBefore(x)'
  BY <1>0, HandOverInTime
<1>3. clock' \in Int /\ (mode = "live" => clock' \in 0..MaxTime)
  BY <1>0, <1>1 DEF TypeStage
<1> QED
  BY <1>1, <1>2, <1>3, WorldKeeps

\* The wall clock goes on.
LEMMA AdvanceKeeps == ASSUME StageInv, Advance PROVE StageInv'
<1>0. TypeStage /\ InTime
  BY DEF StageInv, Story
<1>1. UNCHANGED <<correlator, tickAt, given, events, synced, shared, reported, mode, in, ring>>
  BY DEF Advance, stage
<1>2. InTime' /\ clock' \in 0..MaxTime /\ \A x \in Int : NotBefore(x) => NotBefore(x)'
  BY <1>0, AdvanceInTime
<1>3. in' \in Seq(Frames) /\ ring' \in Seq(Frames) /\ clock' \in Int
  BY <1>0, <1>1, <1>2, StageTimesAssumption DEF TypeStage
<1> QED
  BY <1>1, <1>2, <1>3, WorldKeeps

\* A packet of a replayed file, which has no ring and no deadlines to keep.
LEMMA ReplayKeeps ==
    ASSUME StageInv, NEW p \in Templates, NEW time \in ReplayTimes, ReplayPacket(p, time)
    PROVE  StageInv'
<1> DEFINE f == Stamped(p, time)
<1>0. Story /\ Ledger /\ Books /\ Totals /\ TypeStage /\ PP!IndInv /\ History
  BY DEF StageInv, Story
<1>1. /\ UNCHANGED <<correlator, tickAt, given, events, synced, shared, reported, mode, clock, ring>>
      /\ mode = "replay" /\ in' = Append(in, f)
  BY DEF ReplayPacket, stage
<1>2. f \in Frames
  BY StageTimesAssumption DEF Stamped, Frames
<1> HIDE DEF f
<1>3. in \in Seq(Frames)
  BY <1>0 DEF TypeStage
<1>4. in' \in Seq(Frames)
  BY <1>1, <1>2, <1>3, AppendFacts
<1>5. TypeStage'
  BY <1>0, <1>1, <1>4 DEF TypeStage
<1>6. mode' = "replay"
  BY <1>1
<1>7. InTime' /\ Departures' /\ AnsweredIsObserved'
  BY <1>6 DEF InTime, Departures, AnsweredIsObserved
<1>8. PP!IndInv' /\ History'
  <2>1. UNCHANGED <<queries, matches, given>>
    BY <1>1 DEF correlator
  <2> QED
    BY <1>0, <1>1, <2>1, CoreSame DEF History
<1>9. \A c \in StageCounters \ Unusable : Total(c)' = Total(c)
  BY <1>1 DEF Total
<1>10. Ledger' /\ Books' /\ Totals'
  BY <1>0, <1>1, <1>9, QuietBooks
<1> QED
  BY <1>5, <1>7, <1>8, <1>10 DEF StageInv, Story

\* The reporter.
LEMMA ReportKeeps == ASSUME StageInv, Report PROVE StageInv'
<1>0. Story /\ Ledger /\ Books /\ Totals /\ TypeStage /\ InTime
  BY DEF StageInv, Story
<1>1. /\ UNCHANGED <<correlator, tickAt, given, events, synced, mode, clock, ring, in>> /\ Still
  BY DEF Report, stage, Still
<1>2. /\ shared' \in [StageCounters -> Nat] /\ reported' \in [StageCounters -> Nat]
      /\ \A c \in StageCounters : Total(c)' = Total(c)
  BY <1>0, ReportMoves
<1>3. TypeStage'
  BY <1>0, <1>1, <1>2 DEF TypeStage
<1>4. InTime' /\ \A x \in Int : NotBefore(x) => NotBefore(x)'
  BY <1>0, <1>1, StillInTime
<1>5. Story'
  BY <1>0, <1>1, <1>3, <1>4, QuietStory
<1>6. Ledger' /\ Books' /\ Totals'
  BY <1>0, <1>1, <1>2, QuietBooks
<1> QED
  BY <1>5, <1>6 DEF StageInv

\* A step that changes nothing.
LEMMA StutterKeeps == ASSUME StageInv, UNCHANGED vars PROVE StageInv'
<1>0. TypeStage /\ InTime
  BY DEF StageInv, Story
<1>1. /\ UNCHANGED <<correlator, tickAt, given, events, synced, shared, reported, mode>> /\ Still
      /\ UNCHANGED <<in, ring, clock>>
  BY DEF vars, world, Still
<1>2. InTime' /\ \A x \in Int : NotBefore(x) => NotBefore(x)'
  BY <1>0, <1>1, StillInTime
<1>3. in' \in Seq(Frames) /\ ring' \in Seq(Frames) /\ clock' \in Int /\ (mode = "live" => clock' \in 0..MaxTime)
  BY <1>0, <1>1 DEF TypeStage
<1> QED
  BY <1>1, <1>2, <1>3, WorldKeeps

\* The stage as it starts.
LEMMA StageInit == ASSUME Init PROVE StageInv
<1>1. /\ mode \in {"live", "replay"} /\ clock = (IF mode = "live" THEN 0 ELSE MaxTime + Timeout + 1)
      /\ ring = <<>> /\ in = <<>> /\ tickAt = <<>> /\ events = <<>>
      /\ given = [queries |-> <<>>, responses |-> <<>>, before |-> <<>>]
      /\ shared = [c \in StageCounters |-> 0] /\ reported = [c \in StageCounters |-> 0]
      /\ synced = [c \in Synced |-> 0]
  BY DEF Init
<1>2. /\ queries = <<>> /\ matches = <<>> /\ handedBack = [i \in 1..MaxQueries |-> 0]
      /\ stats = [c \in Counters |-> 0]
  BY DEF Init, P!Init, P!Ctx, P!Counters, Counters
<1>3. PP!IndInv
  BY CoreInit DEF Init
<1>4. TypeStage
  <2>1. clock \in Int /\ (mode = "live" => clock \in 0..MaxTime)
    BY <1>1, StageTimesAssumption, TimeoutAssumption
  <2>2. given \in [queries : Seq(Frames), responses : Seq(Frames), before : Seq(Nat)]
    BY <1>1
  <2>3. ring \in Seq(Frames) /\ in \in Seq(Frames)
    BY <1>1
  <2>4. /\ shared \in [StageCounters -> Nat] /\ reported \in [StageCounters -> Nat]
        /\ synced \in [Synced -> Nat]
    BY <1>1
  <2> QED
    BY <1>1, <2>1, <2>2, <2>3, <2>4 DEF TypeStage
<1>5. History /\ InTime /\ Departures /\ AnsweredIsObserved
  <2>1. given.queries = <<>> /\ given.responses = <<>> /\ given.before = <<>>
    BY <1>1
  <2>2. History
    BY <1>2, <2>1 DEF History
  <2>3. InTime
    BY <1>1 DEF InTime
  <2>4. Departures
    BY <1>2 DEF Departures
  <2>5. AnsweredIsObserved
    BY <1>2 DEF AnsweredIsObserved
  <2> QED
    BY <2>2, <2>3, <2>4, <2>5
<1>6. \A c \in StageCounters : Total(c) = 0
  BY <1>1 DEF Total
<1>7. Ledger
  <2>1. \A c \in Synced : c \in StageCounters /\ c \in Counters
    BY DEF Synced, StageCounters, Counters
  <2>2. \A c \in Synced : synced[c] = 0 /\ stats[c] = 0 /\ Total(c) = 0
    BY <1>1, <1>2, <1>6, <2>1
  <2> QED
    BY <2>2 DEF Ledger
<1>8. Cardinality({}) = 0 /\ DOMAIN events = {} /\ Len(events) = 0
  BY <1>1, FS_EmptySet
<1>9. Books
  <2>1. \A i : EventsOfQuery(i) = 0 /\ EventsOfResponse(i) = 0
    <3>1. ASSUME NEW i PROVE EventsOfQuery(i) = 0 /\ EventsOfResponse(i) = 0
      <4>1. /\ {k \in DOMAIN events : events[k].query = i} = {}
            /\ {k \in DOMAIN events : events[k].response = i} = {}
        BY <1>8
      <4> QED
        BY <1>8, <4>1 DEF EventsOfQuery, EventsOfResponse
    <3> QED
      BY <3>1
  <2>2. events \in Seq({})
    BY <1>1
  <2>3. \A r \in 1..MaxResponses : ~(r <= Len(matches))
    BY <1>2, BoundsAssumption
  <2> QED
    BY <1>2, <1>8, <2>1, <2>2, <2>3 DEF Books
<1>10. Totals
  <2>1. ASSUME NEW S PROVE WithFate(S) = 0
    <3>1. {k \in DOMAIN events : events[k].fate \in S} = {}
      BY <1>8
    <3> QED
      BY <1>8, <3>1 DEF WithFate
  <2>2. /\ Total("queries_parsed") = 0 /\ Total("responses_parsed") = 0 /\ Total("emitted") = 0
        /\ Total("client_facing") = 0 /\ Total("backend") = 0 /\ Total("recursion_upstream") = 0
        /\ Total("unknown") = 0
    BY <1>6 DEF StageCounters, Roles
  <2>3. \A c \in {"queue_drop", "oversize", "encode_failure", "sampled_out"} : Total(c) = 0
    BY <1>6 DEF StageCounters
  <2>4. Len(queries) = 0 /\ Len(matches) = 0
    BY <1>2
  <2> QED
    BY <2>1, <2>2, <2>3, <2>4 DEF Totals
<1> QED
  BY <1>3, <1>4, <1>5, <1>7, <1>9, <1>10 DEF StageInv, Story

\* A step in which nothing older comes in and no time passes.
LEMMA IdleStays ==
    ASSUME Idle, UNCHANGED <<idleAt, mode, clock>>, \A x \in Int : NotBefore(x) => NotBefore(x)'
    PROVE  Idle'
<1> SUFFICES ASSUME mode = "live", idleAt # <<>>
             PROVE  /\ idleAt[1] \in Int /\ NotBefore(idleAt[1] - RingDelay)'
                    /\ clock - idleAt[1] <= PollDelay
  BY DEF Idle, NotBefore
<1>1. idleAt[1] \in Int /\ NotBefore(idleAt[1] - RingDelay) /\ clock - idleAt[1] <= PollDelay
  BY DEF Idle
<1>2. idleAt[1] - RingDelay \in Int
  BY <1>1, StageTimesAssumption
<1> QED
  BY <1>1, <1>2

\* What was handed over or captured since the empty pop is no older than
\* RingDelay before it, and PollDelay bounds the wait for the tick.
LEMMA IdleKept == ASSUME StageInv, Idle, [Next]_vars PROVE Idle'
<1>0. TypeStage /\ InTime
  BY DEF StageInv, Story
<1>1. CASE ProcessUnusable \/ ProcessPacket \/ IdleTick \/ FreeStage
  <2>1. idleAt' = <<>>
    BY <1>1 DEF ProcessUnusable, ProcessPacket, IdleTick, FreeStage
  <2> QED
    BY <2>1 DEF Idle
<1>2. CASE PeriodicTick \/ Stop \/ Report \/ UNCHANGED vars
  <2>1. /\ UNCHANGED <<idleAt, mode, clock>> /\ Still
        /\ tickAt' = <<>> \/ tickAt' = tickAt
    BY <1>2 DEF PeriodicTick, Stop, Report, vars, world, stage, Still
  <2> QED
    BY <1>0, <2>1, StillInTime, IdleStays
<1>3. CASE HandOver
  <2>1. UNCHANGED <<idleAt, mode, clock>>
    BY <1>3 DEF HandOver, stage
  <2> QED
    BY <1>0, <1>3, <2>1, HandOverInTime, IdleStays
<1>4. CASE \E p \in Templates : Capture(p)
  <2>1. PICK p \in Templates : Capture(p)
    BY <1>4
  <2>2. UNCHANGED <<idleAt, mode, clock>>
    BY <2>1 DEF Capture, stage
  <2> QED
    BY <1>0, <2>1, <2>2, CaptureInTime, IdleStays
<1>5. CASE \E p \in Templates, time \in ReplayTimes : ReplayPacket(p, time)
  <2>1. mode' = "replay"
    BY <1>5 DEF ReplayPacket
  <2> QED
    BY <2>1 DEF Idle
<1>6. CASE Advance
  <2>1. /\ UNCHANGED <<idleAt, mode>> /\ clock' = clock + 1 /\ clock \in Int
        /\ idleAt # <<>> => clock - idleAt[1] < PollDelay
    BY <1>0, <1>6 DEF Advance, stage, TypeStage
  <2>2. \A x \in Int : NotBefore(x) => NotBefore(x)'
    BY <1>0, <1>6, AdvanceInTime
  <2> SUFFICES ASSUME mode = "live", idleAt # <<>>
               PROVE  /\ idleAt[1] \in Int /\ NotBefore(idleAt[1] - RingDelay)'
                      /\ clock + 1 - idleAt[1] <= PollDelay
    BY <2>1 DEF Idle, NotBefore
  <2>3. idleAt[1] \in Int /\ NotBefore(idleAt[1] - RingDelay)
    BY DEF Idle
  <2>4. idleAt[1] - RingDelay \in Int /\ clock + 1 - idleAt[1] <= PollDelay
    BY <2>1, <2>3, StageTimesAssumption
  <2> QED
    BY <2>1, <2>2, <2>3, <2>4 DEF NotBefore
<1>7. CASE PopEmpty
  <2>1. idleAt' = <<clock>> /\ in = <<>> /\ UNCHANGED <<in, ring, mode, clock>>
    BY <1>7 DEF PopEmpty, MayIdle, world
  <2>2. /\ clock \in Int /\ RingDelay \in Nat /\ PollDelay \in Nat
        /\ \A j \in 1..Len(ring) : ring[j].time \in Int
    BY <1>0, QueueFacts, StageTimesAssumption DEF TypeStage
  <2> SUFFICES ASSUME mode = "live" PROVE NotBefore(clock - RingDelay)' /\ clock - clock <= PollDelay
    BY <2>1, <2>2 DEF Idle, NotBefore
  <2>3. \A j \in 1..Len(ring) : clock - RingDelay <= ring[j].time
    <3>1. \A j \in 1..Len(ring) : clock - ring[j].time <= RingDelay
      BY <1>0 DEF InTime
    <3> QED
      BY <2>2, <3>1
  <2>4. clock - RingDelay <= clock /\ clock - clock <= PollDelay
    BY <2>2
  <2>5. \A j \in 1..Len(in) : FALSE
    BY <2>1
  <2> QED
    BY <2>1, <2>3, <2>4, <2>5 DEF NotBefore
<1> QED
  BY <1>1, <1>2, <1>3, <1>4, <1>5, <1>6, <1>7 DEF Next

-----------------------------------------------------------------------------
(* The theorems.                                                           *)

\* Whatever packets are captured, handed over late by the ring, skipped or given
\* to the correlator, and wherever ticks and resetting reports fall between
\* them, dns_stage_process_packet() and dns_stage_tick() keep the invariant.
THEOREM Inductive == Spec => [](StageInv /\ Idle)
<1>1. Init => StageInv /\ Idle
  BY StageInit DEF Init, Idle
<1>2. StageInv /\ Idle /\ [Next]_vars => StageInv' /\ Idle'
  <2> SUFFICES ASSUME StageInv, Idle, [Next]_vars PROVE StageInv' /\ Idle'
    OBVIOUS
  <2>0. SUFFICES StageInv'
    BY IdleKept
  <2>1. CASE ProcessUnusable
    BY <2>1, UnusableKeeps
  <2>2. CASE ProcessPacket
    <3>1. TypeStage
      BY DEF StageInv, Story
    <3>2. /\ in # <<>> /\ in' = Tail(in) /\ UNCHANGED <<mode, clock, ring, reported>>
          /\ Head(in) \in Frames /\ BuildKey(Head(in).pkt) \in Keys
      BY <2>2, <3>1, PacketCases
    <3>3. PICK f \in Frames : f = Head(in)
      BY <3>2
    <3>4. PICK last \in BOOLEAN :
             /\ tickAt' = <<>> => last
             /\ tickAt' = <<>> \/ tickAt' = <<f.time>>
             /\ \/ GivenQuery(f) /\ EmitAll(Handed({}), given', Bump("queries_parsed"), last)
                \/ GivenResponse(f) /\ EmitAll(Handed({Len(matches')}), given', Bump("responses_parsed"), last)
      BY <2>2, <3>1, <3>3, PacketCases
    <3>5. BuildKey(f.pkt) \in Keys
      BY <3>2, <3>3
    <3>6. CASE GivenQuery(f) /\ EmitAll(Handed({}), given', Bump("queries_parsed"), last)
      BY <3>2, <3>3, <3>4, <3>5, <3>6, QueryCall
    <3>7. CASE GivenResponse(f) /\ EmitAll(Handed({Len(matches')}), given', Bump("responses_parsed"), last)
      BY <3>2, <3>3, <3>4, <3>5, <3>7, ResponseCall
    <3> QED
      BY <3>4, <3>6, <3>7
  <2>3. CASE PeriodicTick
    BY <2>3, PeriodicKeeps
  <2>4. CASE IdleTick
    BY <2>4, IdleKeeps
  <2>5. CASE Stop
    BY <2>5, StopKeeps
  <2>6. CASE FreeStage
    BY <2>6, FreeKeeps
  <2>7. CASE HandOver
    BY <2>7, HandOverKeeps
  <2>8. CASE Advance
    BY <2>8, AdvanceKeeps
  <2>9. CASE Report
    BY <2>9, ReportKeeps
  <2>10. CASE \E p \in Templates : Capture(p)
    BY <2>10, CaptureKeeps
  <2>11. CASE \E p \in Templates, time \in ReplayTimes : ReplayPacket(p, time)
    BY <2>11, ReplayKeeps
  <2>12. CASE UNCHANGED vars
    BY <2>12, StutterKeeps
  <2>13. CASE PopEmpty
    BY <2>13, PopEmptyKeeps
  <2> QED
    BY <2>1, <2>2, <2>3, <2>4, <2>5, <2>6, <2>7, <2>8, <2>9, <2>10, <2>11, <2>12, <2>13 DEF Next
<1> QED
  BY <1>1, <1>2, PTL DEF Spec

\* A live response captured within the timeout, less the ring's delay and the
\* stage's from an empty pop to the clock of its tick, is paired with the query it
\* answers, on one leg: neither the sweep on the wall clock nor
\* the one on capture time expires the query too early.
THEOREM AnsweredIsObservedCorrect == Spec => []AnsweredIsObserved
<1>1. StageInv => AnsweredIsObserved
  BY DEF StageInv, Story
<1> QED
  BY <1>1, Inductive, PTL

\* What the stats thread took out of the shared counters and what is left in
\* them add up to the correlator's own counters after every call:
\* dns_stage_sync_stats() adds differences, so a reset between two calls loses
\* and repeats nothing.
THEOREM CountersSurviveResetCorrect == Spec => []CountersSurviveReset
<1>1. StageInv => CountersSurviveReset
  BY DEF StageInv, Ledger, CountersSurviveReset
<1> QED
  BY <1>1, Inductive, PTL

\* Every query that left the table and every response is in exactly one event of
\* dns_stage_emit(), the counters count those events by fate and by leg, and
\* cf_dns_emit_decide() drops only routine answered transactions.
THEOREM TransactionsAccountedCorrect == Spec => []TransactionsAccounted
<1>1. StageInv => TransactionsAccounted
  <2> SUFFICES ASSUME StageInv PROVE TransactionsAccounted
    OBVIOUS
  <2>0. Books /\ Totals /\ PP!IndInv
    BY DEF StageInv, Story
  <2>1. /\ DOMAIN queries = 1..Len(queries) /\ DOMAIN matches = 1..Len(matches)
        /\ Len(queries) \in Nat /\ Len(queries) <= MaxQueries
        /\ Len(matches) \in Nat /\ Len(matches) <= MaxResponses
        /\ \A i \in 1..MaxQueries : handedBack[i] = IF i <= Len(queries) /\ i \notin pending THEN 1 ELSE 0
    BY <2>0, CoreHolds DEF Core
  <2>2. ASSUME NEW i \in DOMAIN queries PROVE EventsOfQuery(i) = IF i \in pending THEN 0 ELSE 1
    <3>1. i \in 1..MaxQueries /\ i <= Len(queries)
      BY <2>1, BoundsAssumption
    <3>2. EventsOfQuery(i) = handedBack[i]
      BY <2>0, <3>1 DEF Books
    <3> QED
      BY <2>1, <3>1, <3>2
  <2>3. ASSUME NEW r \in DOMAIN matches PROVE EventsOfResponse(r) = 1
    <3>1. r \in 1..MaxResponses /\ r <= Len(matches)
      BY <2>1, BoundsAssumption
    <3> QED
      BY <2>0, <3>1 DEF Books
  <2>4. \A k \in DOMAIN events :
           events[k].fate = "sampled_out" => /\ events[k].outcome = "observed"
                                             /\ given.responses[events[k].response].pkt.rcode = 0
    <3>1. DOMAIN events = 1..Len(events)
      BY <2>0 DEF Books
    <3> QED
      BY <2>0, <3>1 DEF Books, EventSound
  <2> QED
    BY <2>0, <2>2, <2>3, <2>4 DEF Totals, TransactionsAccounted
<1> QED
  BY <1>1, Inductive, PTL

=============================================================================
