---------------------------- MODULE DnsCorrelator ----------------------------
(***************************************************************************)
(* The bounded pending-query table of the DNS source, as                   *)
(* sources/cloudflow-source-dns/src/correlation.c builds it: a fixed pool  *)
(* of entries threaded through hash chains, a doubly linked FIFO and a     *)
(* free list by indices.  The table is one record, because the functions   *)
(* of the file compose: each takes the table and gives the table after it. *)
(* It is used by one thread; each public call is one action.               *)
(***************************************************************************)
EXTENDS Integers, Sequences, FiniteSets, CorrelatorConfig

CONSTANTS
    NBuckets,      \* next_pow2(capacity)
    KeyHash(_)     \* key_hash() & bucket_mask

ASSUME BucketAssumption == \A k \in Keys : KeyHash(k) \in 0..(NBuckets - 1)

VARIABLES
    on_table_full,
    t,        \* the table: entries, buckets, list heads, count, counters, emissions
    queries,  \* history: the key and time of every query context
    nresp,    \* responses offered so far
    open      \* cf_dns_correlator_free() not called yet

vars == <<on_table_full, t, queries, nresp, open>>

NIL == -1
Slots == 0..(Capacity - 1)
Index == Slots \cup {NIL}
NoKey == "none"

\* cf_dns_correlator_new(): all slots on the free list, all chains empty.
NewTable ==
    [entries  |-> [s \in Slots |-> [key |-> NoKey, time |-> 0, ctx |-> 0,
                                    hnext |-> IF s + 1 < Capacity THEN s + 1 ELSE NIL,
                                    fifo_prev |-> NIL, fifo_next |-> NIL]],
     buckets  |-> [b \in 0..(NBuckets - 1) |-> NIL],
     free_head |-> 0, fifo_head |-> NIL, fifo_tail |-> NIL,
     count |-> 0,
     stats |-> [c \in Counters |-> 0],
     emitted |-> <<>>]

-----------------------------------------------------------------------------
(* List plumbing.                                                          *)

\* The links of the chains and the free list, and of the FIFO read forwards.
Hnext(c) == [s \in Slots |-> c.entries[s].hnext]
FifoNext(c) == [s \in Slots |-> c.entries[s].fifo_next]

\* Follow a list from its first entry: the n-th entry, NIL past the end.
Walk(next, first) ==
    LET step[n \in 0..Capacity] ==
            IF n = 0 THEN first
            ELSE IF step[n - 1] = NIL THEN NIL ELSE next[step[n - 1]]
    IN  step

\* Mutant of fifo_append: the back link is not set.
fifo_append_NoPrev(c, idx) ==
    LET linked == [c EXCEPT !.entries[idx].fifo_next = NIL, !.fifo_tail = idx]
    IN  IF c.fifo_tail # NIL
        THEN [linked EXCEPT !.entries[c.fifo_tail].fifo_next = idx]
        ELSE [linked EXCEPT !.fifo_head = idx]

fifo_append(c, idx) ==
    LET linked == [c EXCEPT !.entries[idx].fifo_next = NIL,
                            !.entries[idx].fifo_prev = c.fifo_tail,
                            !.fifo_tail = idx]
    IN  IF c.fifo_tail # NIL
        THEN [linked EXCEPT !.entries[c.fifo_tail].fifo_next = idx]
        ELSE [linked EXCEPT !.fifo_head = idx]

fifo_unlink(c, idx) ==
    LET e == c.entries[idx]
        left == IF e.fifo_prev # NIL
                THEN [c EXCEPT !.entries[e.fifo_prev].fifo_next = e.fifo_next]
                ELSE [c EXCEPT !.fifo_head = e.fifo_next]
    IN  IF e.fifo_next # NIL
        THEN [left EXCEPT !.entries[e.fifo_next].fifo_prev = e.fifo_prev]
        ELSE [left EXCEPT !.fifo_tail = e.fifo_prev]

\* Out of its bucket chain and the FIFO, onto the free list.
entry_release(c, idx) ==
    LET b == KeyHash(c.entries[idx].key)
        chain == Walk(Hnext(c), c.buckets[b])
        at == {n \in 0..Capacity : chain[n] = idx}
        unchained ==
            IF at = {} THEN c
            ELSE IF 0 \in at THEN [c EXCEPT !.buckets[b] = c.entries[idx].hnext]
            ELSE LET n == CHOOSE n \in at : \A m \in at : n <= m
                 IN  [c EXCEPT !.entries[chain[n - 1]].hnext = c.entries[idx].hnext]
    IN  [fifo_unlink(unchained, idx) EXCEPT
            !.entries[idx].hnext = c.free_head,
            !.free_head = idx,
            !.count = @ - 1]

entry_find(c, k) ==
    LET chain == Walk(Hnext(c), c.buckets[KeyHash(k)])
        hits == {n \in 0..Capacity : chain[n] # NIL /\ c.entries[chain[n]].key = k}
    IN  IF hits = {} THEN NIL ELSE chain[CHOOSE n \in hits : \A m \in hits : n <= m]

-----------------------------------------------------------------------------
(* Emission and eviction.                                                  *)

Count(c, counter) == [c EXCEPT !.stats[counter] = @ + 1]

\* emit(): the contexts it carries, 0 for NULL.
Emit(c, outcome, qctx, rctx, rtt_valid) ==
    [c EXCEPT !.emitted = Append(@, [outcome |-> outcome, query |-> qctx, response |-> rctx,
                                     rtt_valid |-> rtt_valid])]

evict_as_unanswered(c, idx, counter) ==
    Emit(Count(entry_release(c, idx), counter), "UNANSWERED", c.entries[idx].ctx, 0, FALSE)

evict_expired(c, now, budget) ==
    LET after[n \in 0..budget] ==
            IF n = 0 THEN c
            ELSE LET d == after[n - 1]
                 IN  IF d.fifo_head = NIL \/ now - d.entries[d.fifo_head].time <= Timeout
                     THEN d
                     ELSE evict_as_unanswered(d, d.fifo_head, "unanswered")
    IN  after[budget]

-----------------------------------------------------------------------------
(* The public calls.                                                       *)

Init ==
    /\ on_table_full \in FullPolicies
    /\ t = NewTable
    /\ queries = <<>>
    /\ nresp = 0
    /\ open = TRUE

\* Mutants of Replace: the superseded context is not handed back; the entry
\* keeps its old place in the FIFO.
ReplaceSilently(c, idx, k, now, ctx) ==
    LET e == [Count(c, "collision") EXCEPT !.entries[idx].key = k, !.entries[idx].time = now,
                                           !.entries[idx].ctx = ctx]
    IN  fifo_append(fifo_unlink(e, idx), idx)

ReplaceInPlace(c, idx, k, now, ctx) ==
    [Emit(Count(c, "collision"), "UNANSWERED", c.entries[idx].ctx, 0, FALSE) EXCEPT
        !.entries[idx].key = k, !.entries[idx].time = now, !.entries[idx].ctx = ctx]

\* A same-key query is replaced in place and re-threaded as the newest.
Replace(c, idx, k, now, ctx) ==
    LET d == Emit(Count(c, "collision"), "UNANSWERED", c.entries[idx].ctx, 0, FALSE)
        e == [d EXCEPT !.entries[idx].key = k, !.entries[idx].time = now,
                       !.entries[idx].ctx = ctx]
    IN  fifo_append(fifo_unlink(e, idx), idx)

\* A fresh slot from the free list, at the head of its chain and the tail of the FIFO.
Insert(c, k, now, ctx) ==
    LET idx == c.free_head
        b == KeyHash(k)
        d == [c EXCEPT !.free_head = c.entries[idx].hnext,
                       !.entries[idx].key = k, !.entries[idx].time = now,
                       !.entries[idx].ctx = ctx, !.entries[idx].hnext = c.buckets[b],
                       !.buckets[b] = idx,
                       !.count = @ + 1]
    IN  fifo_append(d, idx)

\* Mutants of OnQueryTable: a table-full drop is not counted; a query under a
\* pending key gets a slot of its own.
OnQueryTableUncounted(c0, k, now, ctx) ==
    LET c == evict_expired(c0, now, EvictMax)
        idx == entry_find(c, k)
    IN  IF idx # NIL THEN Replace(c, idx, k, now, ctx)
        ELSE IF c.free_head # NIL THEN Insert(c, k, now, ctx)
        ELSE IF on_table_full = "drop_oldest" /\ c.fifo_head # NIL
             THEN Insert(evict_as_unanswered(c, c.fifo_head, "drop"), k, now, ctx)
        ELSE Emit(c, "UNANSWERED", ctx, 0, FALSE)

OnQueryTableNoLookup(c0, k, now, ctx) ==
    LET c == evict_expired(c0, now, EvictMax)
    IN  IF c.free_head # NIL THEN Insert(c, k, now, ctx)
        ELSE IF on_table_full = "drop_oldest" /\ c.fifo_head # NIL
             THEN Insert(evict_as_unanswered(c, c.fifo_head, "drop"), k, now, ctx)
        ELSE Emit(Count(c, "drop"), "UNANSWERED", ctx, 0, FALSE)

OnQueryTable(c0, k, now, ctx) ==
    LET c == evict_expired(c0, now, EvictMax)
        idx == entry_find(c, k)
    IN  IF idx # NIL THEN Replace(c, idx, k, now, ctx)
        ELSE IF c.free_head # NIL THEN Insert(c, k, now, ctx)
        ELSE IF on_table_full = "drop_oldest" /\ c.fifo_head # NIL
             THEN Insert(evict_as_unanswered(c, c.fifo_head, "drop"), k, now, ctx)
        ELSE Emit(Count(c, "drop"), "UNANSWERED", ctx, 0, FALSE)

\* Mutant of OnResponseTable: a response without a query is only counted.
OnResponseTableMissSilent(c, k, now, ctx) ==
    LET idx == entry_find(c, k)
        rtt == now - c.entries[idx].time
        bad == rtt < 0 \/ rtt > Timeout
        d == IF bad THEN Count(c, "rtt_invalid") ELSE c
    IN  IF idx = NIL THEN Count(c, "unmatched")
        ELSE Emit(Count(entry_release(d, idx), "observed"), "OBSERVED",
                  c.entries[idx].ctx, ctx, ~bad)

OnResponseTable(c, k, now, ctx) ==
    LET idx == entry_find(c, k)
        rtt == now - c.entries[idx].time
        bad == rtt < 0 \/ rtt > Timeout
        d == IF bad THEN Count(c, "rtt_invalid") ELSE c
    IN  IF idx = NIL THEN Emit(Count(c, "unmatched"), "UNMATCHED", 0, ctx, FALSE)
        ELSE Emit(Count(entry_release(d, idx), "observed"), "OBSERVED",
                  c.entries[idx].ctx, ctx, ~bad)

OnQuery(k, now) ==
    /\ open /\ Len(queries) < MaxQueries
    /\ queries' = Append(queries, [key |-> k, time |-> now])
    /\ t' = OnQueryTable(t, k, now, Len(queries) + 1)
    /\ UNCHANGED <<on_table_full, nresp, open>>

OnResponse(k, now) ==
    /\ open /\ nresp < MaxResponses
    /\ nresp' = nresp + 1
    /\ t' = OnResponseTable(t, k, now, nresp + 1)
    /\ UNCHANGED <<on_table_full, queries, open>>

\* Mutant of Tick: the amortized budget instead of "all expired".
TickBudgeted(now) ==
    /\ open
    /\ t' = evict_expired(t, now, EvictMax)
    /\ UNCHANGED <<on_table_full, queries, nresp, open>>

Tick(now) ==
    /\ open
    /\ t' = evict_expired(t, now, Capacity)
    /\ UNCHANGED <<on_table_full, queries, nresp, open>>

\* cf_dns_correlator_free(): drain from the FIFO head, then the table is gone.
Drain(c) ==
    LET after[n \in 0..Capacity] ==
            IF n = 0 THEN c
            ELSE LET d == after[n - 1]
                 IN  IF d.fifo_head = NIL THEN d
                     ELSE evict_as_unanswered(d, d.fifo_head, "unanswered")
    IN  after[Capacity]

Free ==
    /\ open
    /\ open' = FALSE
    /\ t' = Drain(t)
    /\ UNCHANGED <<on_table_full, queries, nresp>>

Next ==
    \/ \E k \in Keys, now \in Times : OnQuery(k, now) \/ OnResponse(k, now)
    \/ \E now \in Times : Tick(now)
    \/ Free

Spec == Init /\ [][Next]_vars

-----------------------------------------------------------------------------
(* Properties.                                                             *)

\* Every index of the pool is a slot or NIL, and the depth is within the capacity.
TypeOK ==
    /\ t.free_head \in Index /\ t.fifo_head \in Index /\ t.fifo_tail \in Index
    /\ \A b \in 0..(NBuckets - 1) : t.buckets[b] \in Index
    /\ \A s \in Slots : /\ t.entries[s].hnext \in Index
                        /\ t.entries[s].fifo_prev \in Index
                        /\ t.entries[s].fifo_next \in Index
    /\ t.count \in 0..Capacity
    /\ t.stats \in [Counters -> Nat]

\* The entries on a list.
OnList(next, first) == {Walk(next, first)[n] : n \in 0..Capacity} \ {NIL}

\* The entries in the FIFO.
Used == OnList(FifoNext(t), t.fifo_head)

\* The three intrusive indices agree: each slot is on the free list or in the
\* FIFO and not both; the FIFO has count entries, each once, so it has no cycle;
\* an entry in the FIFO is on the chain of its own bucket and on no other; no
\* chain has a cycle; back links mirror forward links, and the ends are ends.
ListsAgree ==
    /\ LET free == OnList(Hnext(t), t.free_head)
       IN  free \cap Used = {} /\ free \cup Used = Slots
    /\ Cardinality(Used) = t.count
    /\ Walk(FifoNext(t), t.fifo_head)[t.count] = NIL
    /\ \A b \in 0..(NBuckets - 1) :
          /\ OnList(Hnext(t), t.buckets[b]) = {s \in Used : KeyHash(t.entries[s].key) = b}
          /\ Walk(Hnext(t), t.buckets[b])[Capacity] = NIL
    /\ \A s \in Used :
          IF t.entries[s].fifo_next = NIL THEN t.fifo_tail = s
          ELSE t.entries[t.entries[s].fifo_next].fifo_prev = s
    /\ IF Used = {} THEN t.fifo_tail = NIL ELSE t.entries[t.fifo_head].fifo_prev = NIL

\* "Capture time is non-decreasing across on_query()" so far.
InOrder == \A i, j \in DOMAIN queries : i <= j => queries[i].time <= queries[j].time

\* "the FIFO is time-ordered" holds as long as query times do not go back, and
\* then a tick leaves no query that has outlived the timeout.
TickEvictsAllExpired ==
    [][\A now \in Times :
          Tick(now) /\ InOrder =>
             \A s \in Used' : now - t'.entries[s].time <= Timeout]_vars

\* The emit() calls that carried the i-th query context, the r-th response context.
Carrying(i) == {n \in DOMAIN t.emitted : t.emitted[n].query = i}
Passing(r) == {n \in DOMAIN t.emitted : t.emitted[n].response = r}

\* Every response context is passed on exactly once, paired or not.
ResponsesPassedOn == \A r \in 1..nresp : Cardinality(Passing(r)) = 1

\* The table as the promise has it: the contexts in it, how often each query
\* context was handed back, and the query each response was paired with.
pending == {t.entries[s].ctx : s \in Used}
handedBack == [i \in 1..MaxQueries |-> Cardinality(Carrying(i))]
matches == [r \in 1..nresp |-> t.emitted[CHOOSE n \in Passing(r) : TRUE].query]

Pending == INSTANCE PendingQueries WITH stats <- t.stats

\* correlation.h, ownership contract: each query context is handed back
\* through exactly one emit(), never while its query is pending.
HandedBackOnce == Pending!HandedBackOnce

\* The named counters and the pending depth account for every query.
Balanced == Pending!Balanced

\* Only the newest query under a key can be pending, hence be matched.
NewestWins == Pending!NewestWins

\* Every call on the linked structure is the corresponding call of the promise:
\* same pending set in the same order, same contexts out, same counters.
ImplementsPendingQueries == Pending!Spec

=============================================================================
