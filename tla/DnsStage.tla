------------------------------ MODULE DnsStage ------------------------------
(***************************************************************************)
(* The DNS source's event stage (dns_stage.c, leg_classify.c, sampling.c,  *)
(* and the reporter's read of its counters, stats.c): captured packets     *)
(* become correlation keys, the correlator (PendingQueries, which          *)
(* DnsCorrelator implements) pairs them, and every transaction it decides  *)
(* is sampled, encoded and pushed.  The stage is one thread; capture, the  *)
(* wall clock and the reporter run beside it.                              *)
(*                                                                         *)
(* A packet is what dns_decode_frame() and cf_dns_parse() make of a frame  *)
(* (PacketPath has the bytes): class "ok", or the way it is unusable.      *)
(***************************************************************************)
EXTENDS Integers, Sequences, FiniteSets, CorrelatorConfig

CONSTANTS
    Templates,      \* packets: [class, src, sport, dst, dport, qr, id, qtype, rcode]
    LocalAddrs, BackendAddrs,
    RoleMap,        \* sequence of <<address, label>>
    SampleAll,      \* emit_policy.mode is CF_DNS_EMIT_ALL
    Kept,           \* ids whose sample hash is 0 modulo the denominator
    TickEvery,      \* DNS_STAGE_TICK_EVERY
    ReplayTimes,    \* capture times a replayed file has
    Fates,          \* what may become of an event; see EmitAll
    RingDelay,      \* the longest a captured packet waits for the rx-reader
    PollDelay,      \* the longest from an empty pop to the clock read behind it
    MaxTime, MaxPackets, MaxFaults, MaxReports  \* bounds

VARIABLES
    on_table_full, queries, pending, handedBack, matches, stats, open,  \* the correlator
    mode,       \* "live" or "replay"
    clock,      \* the wall clock
    ring,       \* captured, not yet handed over by the rx-reader; see Stamped
    in,         \* the stage's input queue
    npackets, processed,
    tickAt,     \* <<packet time>> when the TickEvery-th packet was just processed
    idleAt,     \* <<wall clock>> when the queue was last popped and found empty
    given,      \* history: the packets behind the queries and the responses, and
                \* how many queries came before each response
    events,     \* history: what became of each transaction
    shared,     \* the counters of cf_dns_source_stats_t the stage writes
    synced,     \* the correlator's counters as of the last dns_stage_sync_stats()
    reported,   \* history: what reports with reset_on_report took out of shared
    nreports, faults, stopping

correlator == <<on_table_full, queries, pending, handedBack, matches, stats, open>>
world == <<mode, clock, ring, npackets, nreports>>
vars == <<correlator, world, in, processed, tickAt, idleAt, given, events, shared, synced, reported, faults, stopping>>

P == INSTANCE PendingQueries

ASSUME FatesAssumption ==
    {"emitted"} \subseteq Fates /\ Fates \subseteq {"emitted", "queue_drop", "oversize", "encode_failure", "lost"}
ASSUME StageTimesAssumption ==
    /\ MaxTime \in Nat /\ RingDelay \in Nat /\ PollDelay \in Nat /\ TickEvery \in Nat \ {0}
    /\ 0..MaxTime \subseteq Times /\ ReplayTimes \subseteq Times

Synced == {"unanswered", "unmatched", "drop", "collision", "rtt_invalid"}
Roles == {"client_facing", "backend", "recursion_upstream", "unknown"}
Unusable == {"packets_skipped", "dns_tcp_partial", "decode_parse_failure"}
StageCounters == Synced \cup Roles \cup Unusable \cup {"emitted", "queue_drop", "oversize", "encode_failure"}
                 \cup {"sampled_out", "queries_parsed", "responses_parsed"}

Init ==
    /\ P!Init
    /\ mode \in {"live", "replay"}
    /\ clock = IF mode = "live" THEN 0 ELSE MaxTime + Timeout + 1
    /\ ring = <<>> /\ in = <<>> /\ npackets = 0 /\ processed = 0
    /\ tickAt = <<>> /\ idleAt = <<>>
    /\ given = [queries |-> <<>>, responses |-> <<>>, before |-> <<>>]
    /\ events = <<>>
    /\ shared = [c \in StageCounters |-> 0] /\ reported = shared
    /\ synced = [c \in Synced |-> 0]
    /\ nreports = 0 /\ faults = 0 /\ stopping = FALSE

-----------------------------------------------------------------------------
(* Leg, key and sampling.                                                  *)

\* cf_dns_classify_leg(): addresses carry their version, so equality is
\* version-aware.  No server side when neither or both ports are 53.
ServerSide(p) ==
    IF p.dport = 53 /\ p.sport # 53 THEN <<p.dst>>
    ELSE IF p.sport = 53 /\ p.dport # 53 THEN <<p.src>> ELSE <<>>
Leg(p) ==
    IF ServerSide(p) = <<>> THEN "unknown"
    ELSE IF ServerSide(p)[1] \in LocalAddrs THEN "client_facing"
    ELSE IF ServerSide(p)[1] \in BackendAddrs THEN "backend" ELSE "recursion_upstream"

\* dns_build_key(): id stands for the id, the transport and the question's name
\* and class.
BuildKey(p) ==
    LET fromServer == p.dport # 53 /\ p.sport = 53
        src == <<p.src, p.sport>>
        dst == <<p.dst, p.dport>>
    IN  [client |-> IF fromServer THEN dst ELSE src, server |-> IF fromServer THEN src ELSE dst,
         local_is_server |-> Leg(p) = "client_facing", id |-> p.id, qtype |-> p.qtype]

\* cf_packet_item_t: what was captured, and when.
Stamped(p, time) == [pkt |-> p, time |-> time]

ASSUME TemplatesAssumption ==
    \A p \in Templates : IF p.class = "ok" THEN p.qr \in BOOLEAN /\ BuildKey(p) \in Keys
                         ELSE p.class \in Unusable

\* cf_dns_role_lookup(): the first entry for the address.
ServiceRole(address) ==
    LET at == {i \in DOMAIN RoleMap : RoleMap[i][1] = address}
    IN  IF at = {} THEN "" ELSE RoleMap[CHOOSE i \in at : \A j \in at : i <= j][2]

\* Mutant of Decide: an unanswered query is sampled like a routine one.
DecideAllSampled(outcome, rcode, qtype, key) ==
    SampleAll \/ outcome = "unmatched" \/ rcode # 0 \/ qtype \notin {"A", "AAAA"} \/ key.id \in Kept

\* cf_dns_emit_decide(): anomalies always, routine transactions by their key.
Decide(outcome, rcode, qtype, key) ==
    \/ SampleAll
    \/ outcome \in {"unanswered", "unmatched"}
    \/ rcode # 0
    \/ qtype \notin {"A", "AAAA"}
    \/ key.id \in Kept

-----------------------------------------------------------------------------
(* Emission.                                                               *)

\* dns_stage_emit() for query context q and response context r, 0 for NULL,
\* over the contexts g.
Event(g, q, r, fate) ==
    LET primary == (IF q # 0 THEN g.queries[q] ELSE g.responses[r]).pkt
        outcome == IF r = 0 THEN "unanswered" ELSE IF q = 0 THEN "unmatched" ELSE "observed"
        rcode == (IF r # 0 THEN g.responses[r] ELSE g.queries[q]).pkt.rcode
        key == BuildKey(primary)
    IN  [outcome |-> outcome, query |-> q, response |-> r, role |-> Leg(primary),
         service_role |-> IF Leg(primary) = "unknown" THEN "" ELSE ServiceRole(key.server[1]),
         fate |-> IF Decide(outcome, rcode, primary.qtype, key) THEN fate ELSE "sampled_out"]

\* The transactions the correlator hands over in a step, in some order.
Handed(rs) ==
    LET qs == {i \in DOMAIN handedBack : handedBack'[i] # handedBack[i]}
    IN  IF rs = {} THEN {<<i, 0>> : i \in qs}
        ELSE {<<IF qs = {} THEN 0 ELSE CHOOSE i \in qs : TRUE, r>> : r \in rs}

\* Several are all unanswered queries: the oldest comes first.
Listed(es) == CHOOSE s \in [1..Cardinality(es) -> es] : \A i, j \in DOMAIN s : i < j => s[i].query < s[j].query

\* How many of the events es counter c counts.  A push that the queue's policy
\* drops counts as emitted all the same; an allocation that fails counts nowhere.
Counted(es, c) ==
    LET pushed == {e \in es : e.fate \in {"emitted", "queue_drop"}}
    IN  IF c \in Roles THEN Cardinality({e \in pushed : e.role = c})
        ELSE IF c = "emitted" THEN Cardinality(pushed)
        ELSE Cardinality({e \in es : e.fate = c})

\* Mutant of SyncStats: the cumulative counters are added each time.
SyncStatsCumulative(s) == [c \in StageCounters |-> IF c \in Synced THEN s[c] + stats'[c] ELSE s[c]]

\* dns_stage_sync_stats(): what the correlator counted since the last time.
SyncStats(s) == [c \in StageCounters |-> IF c \in Synced THEN s[c] + stats'[c] - synced[c] ELSE s[c]]

\* All the emit() calls of a correlator call and, if it is the last of the
\* stage's call, the sync: s holds the counters before.
EmitAll(handed, g, s, last) ==
    \E fate \in [handed -> Fates] :
        LET es == {Event(g, h[1], h[2], fate[h]) : h \in handed}
            counted == [c \in StageCounters |-> s[c] + Counted(es, c)]
        IN  /\ faults' = faults + Cardinality({e \in es : e.fate \in Fates \ {"emitted"}})
            /\ faults' <= MaxFaults
            /\ events' = events \o Listed(es)
            /\ shared' = IF last THEN SyncStats(counted) ELSE counted
            /\ synced' = IF last THEN [c \in Synced |-> stats'[c]] ELSE synced

-----------------------------------------------------------------------------
(* The stage thread.                                                       *)

Bump(c) == [shared EXCEPT ![c] = @ + 1]

\* dns_stage_process_packet() for a packet that is not usable, or whose context
\* cannot be allocated.
ProcessUnusable ==
    /\ open /\ tickAt = <<>> /\ idleAt = <<>> /\ in # <<>>
    /\ \/ /\ Head(in).pkt.class # "ok"
          /\ shared' = Bump(Head(in).pkt.class)
          /\ UNCHANGED faults
       \/ /\ Head(in).pkt.class = "ok" /\ faults < MaxFaults
          /\ shared' = Bump("packets_skipped")
          /\ faults' = faults + 1
    /\ in' = Tail(in)
    /\ UNCHANGED <<correlator, world, processed, tickAt, idleAt, given, events, synced, reported, stopping>>

ProcessPacket ==
    /\ open /\ tickAt = <<>> /\ idleAt = <<>> /\ in # <<>> /\ Head(in).pkt.class = "ok"
    /\ LET p == Head(in).pkt
           time == Head(in).time
       IN  /\ given' = IF p.qr THEN [given EXCEPT !.responses = Append(@, Head(in)),
                                                 !.before = Append(@, Len(queries))]
                       ELSE [given EXCEPT !.queries = Append(@, Head(in))]
           /\ IF p.qr THEN P!OnResponse(BuildKey(p), time) ELSE P!OnQuery(BuildKey(p), time)
           /\ EmitAll(Handed(IF p.qr THEN {Len(matches')} ELSE {}), given',
                      Bump(IF p.qr THEN "responses_parsed" ELSE "queries_parsed"),
                      (processed + 1) % TickEvery # 0)
           /\ processed' = (processed + 1) % TickEvery
           /\ tickAt' = IF processed' = 0 THEN <<time>> ELSE <<>>
    /\ in' = Tail(in)
    /\ UNCHANGED <<world, idleAt, reported, stopping>>

\* The end of the same call, every TickEvery packets: capture time is the clock.
PeriodicTick ==
    /\ tickAt # <<>>
    /\ P!Tick(tickAt[1])
    /\ EmitAll(Handed({}), given, shared, TRUE)
    /\ tickAt' = <<>>
    /\ UNCHANGED <<world, in, processed, idleAt, given, reported, stopping>>

\* Mutant of MayIdle: the wall-clock tick also runs with packets queued.
MayIdleAlways == TRUE

\* dns_stage_thread_main() with nothing to pop.
MayIdle == in = <<>>
PopEmpty ==
    /\ open /\ tickAt = <<>> /\ idleAt = <<>> /\ ~stopping /\ MayIdle
    /\ idleAt' = <<clock>>
    /\ UNCHANGED <<correlator, world, in, processed, tickAt, given, events, shared, synced, reported, faults, stopping>>

\* Then the wall clock is read and is the clock of a tick: packets may have been
\* handed over and time may have passed since the pop.
IdleTick ==
    /\ idleAt # <<>>
    /\ P!Tick(clock)
    /\ EmitAll(Handed({}), given, shared, TRUE)
    /\ idleAt' = <<>>
    /\ UNCHANGED <<world, in, processed, tickAt, given, reported, stopping>>

\* dns_stage_stop(): the queue is drained, then the engine freed.
Stop ==
    /\ ~stopping
    /\ stopping' = TRUE
    /\ UNCHANGED <<correlator, world, in, processed, tickAt, idleAt, given, events, shared, synced, reported, faults>>

FreeStage ==
    /\ stopping /\ tickAt = <<>> /\ idleAt = <<>> /\ in = <<>>
    /\ P!Free
    /\ EmitAll(Handed({}), given, shared, TRUE)
    /\ UNCHANGED <<world, in, processed, tickAt, idleAt, given, reported, stopping>>

-----------------------------------------------------------------------------
(* Capture, time, the reporter.                                            *)

stage == <<correlator, processed, tickAt, idleAt, given, events, synced, faults, stopping>>

\* Live: the kernel stamps a packet; the rx-reader hands it over within RingDelay.
Capture(p) ==
    /\ mode = "live" /\ ~stopping /\ npackets < MaxPackets
    /\ ring' = Append(ring, Stamped(p, clock))
    /\ npackets' = npackets + 1
    /\ UNCHANGED <<stage, in, mode, clock, shared, reported, nreports>>

HandOver ==
    /\ ring # <<>> /\ ~stopping
    /\ in' = Append(in, Head(ring))
    /\ ring' = Tail(ring)
    /\ UNCHANGED <<stage, mode, clock, npackets, shared, reported, nreports>>

\* --replay: packets with the times the file has for them, far behind the clock.
ReplayPacket(p, time) ==
    /\ mode = "replay" /\ ~stopping /\ npackets < MaxPackets
    /\ in' = Append(in, Stamped(p, time))
    /\ npackets' = npackets + 1
    /\ UNCHANGED <<stage, mode, clock, ring, shared, reported, nreports>>

\* Live, time passes; how far is bounded by the two delays.  Once the stage
\* stops, only a tick that is under way still looks at the clock.
Advance ==
    /\ mode = "live" /\ clock < MaxTime /\ (stopping => idleAt # <<>>)
    /\ ring # <<>> => clock - Head(ring).time < RingDelay
    /\ idleAt # <<>> => clock - idleAt[1] < PollDelay
    /\ clock' = clock + 1
    /\ UNCHANGED <<stage, in, mode, ring, npackets, shared, reported, nreports>>

\* cf_dns_stats_report() with reset_on_report: read and zero.
Report ==
    /\ nreports < MaxReports /\ \E c \in StageCounters : shared[c] > 0
    /\ nreports' = nreports + 1
    /\ reported' = [c \in StageCounters |-> reported[c] + shared[c]]
    /\ shared' = [c \in StageCounters |-> 0]
    /\ UNCHANGED <<stage, in, mode, clock, ring, npackets>>

Next ==
    \/ ProcessUnusable \/ ProcessPacket \/ PeriodicTick \/ PopEmpty \/ IdleTick \/ Stop \/ FreeStage
    \/ HandOver \/ Advance \/ Report
    \/ \E p \in Templates : Capture(p)
    \/ \E p \in Templates, time \in ReplayTimes : ReplayPacket(p, time)

Spec == Init /\ [][Next]_vars

-----------------------------------------------------------------------------
\* A response that goes back where a query came from, with its id and question.
Answers(r, q) ==
    r.src = q.dst /\ r.sport = q.dport /\ r.dst = q.src /\ r.dport = q.sport /\ r.id = q.id /\ r.qtype = q.qtype

\* The fate of query i was decided by the table, not by time: superseded under
\* its key, or the table was full.
Displaced(i) ==
    \/ \E j \in (i + 1)..Len(queries) : queries[j].key = queries[i].key
    \/ stats["drop"] > 0

\* AnsweredIsObserved: live, a response that was captured within the timeout,
\* less the time the capture ring may hold it back and the time the stage may
\* take from an empty pop to the clock of its tick, is paired with the query it
\* answers, whatever ticks of the wall clock and of capture time run in
\* between, and both halves are on one leg; unless the table displaced that
\* query or another response took it.  An answer that is captured or handed
\* over between the empty pop and the tick is one the tick may overtake.  With
\* both ports 53 the two halves have different keys and are not paired.
Lag == RingDelay + PollDelay
AnsweredIsObserved ==
    mode = "live" =>
        \A r \in DOMAIN matches :
            \A i \in 1..given.before[r] :
                LET answer == given.responses[r]
                    query == given.queries[i]
                IN  (/\ Answers(answer.pkt, query.pkt) /\ ServerSide(query.pkt) # <<>>
                     /\ answer.time - query.time \in 0..(Timeout - Lag)
                     /\ ~Displaced(i)
                     /\ \A s \in DOMAIN matches : s # r => matches[s] # i)
                    => matches[r] = i /\ Leg(answer.pkt) = Leg(query.pkt)

\* TransactionsAccounted: every parsed query that is no longer pending, and
\* every parsed response, is in exactly one transaction; the counters say how
\* many of them were emitted, by leg, sampled out, or lost to a full queue, the
\* size limit or the encoder; and only routine answered ones are sampled out.
Total(c) == shared[c] + reported[c]
EventsOfQuery(i) == Cardinality({k \in DOMAIN events : events[k].query = i})
EventsOfResponse(r) == Cardinality({k \in DOMAIN events : events[k].response = r})
WithFate(S) == Cardinality({k \in DOMAIN events : events[k].fate \in S})
TransactionsAccounted ==
    /\ \A i \in DOMAIN queries : EventsOfQuery(i) = IF i \in pending THEN 0 ELSE 1
    /\ \A r \in DOMAIN matches : EventsOfResponse(r) = 1
    /\ Total("queries_parsed") = Len(queries) /\ Total("responses_parsed") = Len(matches)
    /\ Total("emitted") = WithFate({"emitted", "queue_drop"})
    /\ \A c \in {"queue_drop", "oversize", "encode_failure", "sampled_out"} : Total(c) = WithFate({c})
    /\ Total("emitted") = Total("client_facing") + Total("backend") + Total("recursion_upstream") + Total("unknown")
    /\ \A k \in DOMAIN events :
           events[k].fate = "sampled_out" => /\ events[k].outcome = "observed"
                                             /\ given.responses[events[k].response].pkt.rcode = 0

\* CountersSurviveReset: however reports that reset the counters fall between
\* and into the stage's calls, after a call the reported and the current value
\* of each of the correlator's loss counters add up to what it counted.
CountersSurviveReset == tickAt = <<>> => \A c \in Synced : Total(c) = stats[c]
=============================================================================
