--------------------------- MODULE PendingQueries ---------------------------
(***************************************************************************)
(* What the DNS correlator (sources/cloudflow-source-dns/src/correlation.c)*)
(* promises its caller, without the pool, the hash chains and the lists:   *)
(* a bounded set of pending queries, each handed back exactly once.        *)
(*                                                                         *)
(* The i-th context given to cf_dns_correlator_on_query() is the number i, *)
(* so the order of numbers is the order of the FIFO: a query that replaces *)
(* an older one under the same key is the newest.                          *)
(***************************************************************************)
EXTENDS Integers, Sequences, FiniteSets, CorrelatorConfig

VARIABLES
    on_table_full,  \* the policy in force
    queries,        \* every query offered so far, in order
    pending,        \* the ones in the table
    handedBack,     \* how many emit() calls carried each query's context
    matches,        \* per response: the query it was paired with, 0 for none
    stats,          \* cf_dns_correlator_stats_t
    open            \* cf_dns_correlator_free() not called yet

vars == <<on_table_full, queries, pending, handedBack, matches, stats, open>>

Ctx == 1..MaxQueries
Query == [key : Keys, time : Times]

Init ==
    /\ on_table_full \in FullPolicies
    /\ queries = <<>>
    /\ pending = {}
    /\ handedBack = [i \in Ctx |-> 0]
    /\ matches = <<>>
    /\ stats = [c \in Counters |-> 0]
    /\ open = TRUE

Oldest(S) == CHOOSE i \in S : \A j \in S : i <= j

Expired(i, now) == now - queries[i].time > Timeout

\* The expired queries an eviction of at most budget entries takes: it walks
\* from the oldest and stops at the first that has not expired.
ExpiredPrefix(now, budget) ==
    {i \in pending : /\ \A j \in pending : j <= i => Expired(j, now)
                     /\ Cardinality({j \in pending : j <= i}) <= budget}

HandBack(S) == handedBack' = [i \in Ctx |-> handedBack[i] + (IF i \in S THEN 1 ELSE 0)]

\* The pending query, if any, that a response or a retransmission hits.
SameKey(S, k) == {i \in S : queries[i].key = k}

OnQuery(k, now) ==
    LET id   == Len(queries) + 1
        old  == ExpiredPrefix(now, EvictMax)
        left == pending \ old
        same == SameKey(left, k)
        full == same = {} /\ Cardinality(left) = Capacity
        out  == IF ~full THEN {}
                ELSE IF on_table_full = "drop_oldest" THEN {Oldest(left)} ELSE {id}
    IN  /\ open /\ Len(queries) < MaxQueries
        /\ queries' = Append(queries, [key |-> k, time |-> now])
        /\ pending' = (left \cup {id}) \ (same \cup out)
        /\ HandBack(old \cup same \cup out)
        /\ stats' = [stats EXCEPT !["unanswered"] = @ + Cardinality(old),
                                  !["collision"] = @ + Cardinality(same),
                                  !["drop"] = @ + Cardinality(out)]
        /\ UNCHANGED <<on_table_full, matches, open>>

OnResponse(k, now) ==
    /\ open /\ Len(matches) < MaxResponses
    /\ IF SameKey(pending, k) = {}
       THEN /\ matches' = Append(matches, 0)
            /\ stats' = [stats EXCEPT !["unmatched"] = @ + 1]
            /\ UNCHANGED <<pending, handedBack>>
       ELSE LET i == CHOOSE i \in SameKey(pending, k) : TRUE
                rtt == now - queries[i].time
            IN /\ matches' = Append(matches, i)
               /\ pending' = pending \ {i}
               /\ HandBack({i})
               /\ stats' = [stats EXCEPT
                     !["observed"] = @ + 1,
                     !["rtt_invalid"] = @ + (IF rtt < 0 \/ rtt > Timeout THEN 1 ELSE 0)]
    /\ UNCHANGED <<on_table_full, queries, open>>

Discard(S) ==
    /\ pending' = pending \ S
    /\ HandBack(S)
    /\ stats' = [stats EXCEPT !["unanswered"] = @ + Cardinality(S)]
    /\ UNCHANGED <<on_table_full, queries, matches>>

Tick(now) == open /\ Discard(ExpiredPrefix(now, Capacity)) /\ UNCHANGED open

Free == open /\ Discard(pending) /\ open' = FALSE

Next ==
    \/ \E k \in Keys, now \in Times : OnQuery(k, now) \/ OnResponse(k, now)
    \/ \E now \in Times : Tick(now)
    \/ Free

Spec == Init /\ [][Next]_vars

-----------------------------------------------------------------------------

TypeOK ==
    /\ on_table_full \in FullPolicies
    /\ queries \in Seq(Query) /\ Len(queries) <= MaxQueries
    /\ pending \subseteq 1..Len(queries)
    /\ handedBack \in [Ctx -> Nat]
    /\ matches \in Seq(Nat) /\ Len(matches) <= MaxResponses
    /\ stats \in [Counters -> Nat]
    /\ open \in BOOLEAN

\* The ownership contract of correlation.h: a query's context is handed back
\* through exactly one emit() call, and not while the query is pending; after
\* cf_dns_correlator_free() none is left.
HandedBackOnce ==
    /\ \A i \in Ctx :
          handedBack[i] = IF i <= Len(queries) /\ i \notin pending THEN 1 ELSE 0
    /\ ~open => pending = {}

\* "Visible loss": the named counters account for every query.
Balanced ==
    Len(queries) = stats["observed"] + stats["unanswered"] + stats["collision"]
                     + stats["drop"] + Cardinality(pending)

\* The table never holds more than it has room for.
Bounded == Cardinality(pending) <= Capacity

\* Among queries with one key only the newest can still be pending, so a
\* response is never paired with a query that a retransmission superseded.
NewestWins ==
    \A i \in pending : \A j \in (i + 1)..Len(queries) : queries[j].key # queries[i].key

=============================================================================
