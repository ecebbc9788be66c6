---------------------------- MODULE SinkConsumer ----------------------------
(***************************************************************************)
(* The sink spine of libs/cloudflow-sink-core: processes of one Redis      *)
(* consumer group that reclaim and read stream entries, decode them, batch *)
(* them, deliver the batch (cf_sink_httpdeliver.c, or standard output) and *)
(* acknowledge or dead-letter each entry (cf_sink_consumer.c,              *)
(* cf_sink_deadletter.c, cf_sink_run.c).                                   *)
(*                                                                         *)
(* A process goes through its streams one after the other to create their  *)
(* groups and to reclaim, and reads them all with one command.  Around the *)
(* processes: Redis, whose connections break with commands executed or     *)
(* not; a destination that accepts, rejects or does not answer; crashes    *)
(* with a restart by the service manager; SIGTERM.                         *)
(***************************************************************************)
EXTENDS Integers, Sequences, FiniteSets

CONSTANTS
    Consumers,     \* the processes, by service.consumer_name
    NStreams,      \* redis.streams: the loader wants at least one
    MaxEntries,    \* bound: entries of all streams, numbered by age
    StreamOf,      \* the stream of each
    Undecodable,   \* entries with wrong fields, or that do not unpack or transform
    Silent,        \* entries whose transform produces no output
    Rejected,      \* entries the destination answers with a non-retryable status
    ReadCount,     \* redis.read_count; the loader takes any value, 0 is one below 1
    BatchSize,     \* hec.batch_size; as well
    Outputs, Runs, \* configurations: "http", "stdout"; "forever", "once"
    MaxMishaps     \* bound: Redis commands lost or refused, crashes and SIGTERMs

Streams == 1..NStreams
Entries == 1..MaxEntries

ASSUME StreamsAssumption == NStreams \in Nat \ {0} /\ StreamOf \in [Entries -> Streams]
ASSUME EntriesAssumption ==
    /\ MaxEntries \in Nat
    /\ Undecodable \subseteq Entries /\ Silent \subseteq Entries /\ Rejected \subseteq Entries
    /\ Undecodable \cap Silent = {} /\ (Undecodable \cup Silent) \cap Rejected = {}
ASSUME SizesAssumption == ReadCount \in Nat /\ BatchSize \in Nat
ASSUME ConfigurationAssumption ==
    Outputs \subseteq {"http", "stdout"} /\ Runs \subseteq {"forever", "once"}
ASSUME MishapsAssumption == MaxMishaps \in Nat

Nobody == "nobody"
ASSUME ConsumersAssumption == Nobody \notin Consumers

VARIABLES
    output, run,          \* --stdout, --once
    proc,                 \* the local state of every process
    groups,               \* Redis: the streams with the consumer group
    handed,               \* Redis: entries up to their group's last delivered one
    owner, idle,          \* Redis: whose pending entry it is; idle for min_idle_ms
    acked, deadLettered,  \* Redis: entries acknowledged; entries in the dead-letter stream
    received,             \* the destination (or standard output): entries it has
    mishaps

redis == <<groups, handed, owner, idle, acked, deadLettered>>
config == <<output, run>>
vars == <<output, run, proc, groups, handed, owner, idle, acked, deadLettered, received, mishaps>>

Boot == [pc |-> "start", stop |-> FALSE,
         ctx |-> "first", err |-> FALSE,  \* c->ctx: cf_sink_run()'s context, a later one, NULL; ctx->err
         cursor |-> [s \in Streams |-> 0], \* the XAUTOCLAIM cursors, 0 for 0-0
         i |-> 0,                         \* the streams the loop at hand is done with
         todo |-> <<>>, rest |-> <<>>,    \* a reply: one stream's entries, those of the next streams
         batch |-> <<>>, next |-> "top",  \* the batch; where the loop goes on after a flush
         work |-> <<>>,                   \* the ranges send_range() has yet to send
         delivered |-> {}, poison |-> {}, \* its two result arrays
         at |-> 1]                        \* the item being settled

Init ==
    /\ output \in Outputs /\ run \in Runs
    /\ proc = [c \in Consumers |-> Boot]
    /\ groups = {} /\ handed = {}
    /\ owner = [e \in Entries |-> Nobody] /\ idle = {}
    /\ acked = {} /\ deadLettered = {} /\ received = {}
    /\ mishaps = 0

-----------------------------------------------------------------------------
(* A Redis command of process c, which is then in state p.                 *)

Become(c, p) == proc' = [proc EXCEPT ![c] = p]

Usable(p) == p.ctx # "null" /\ ~p.err

Answered(c, p) == Usable(proc[c]) /\ Become(c, p) /\ UNCHANGED mishaps

Mishap == mishaps < MaxMishaps /\ mishaps' = mishaps + 1

\* The connection breaks before the reply is read: redisCommand() is NULL.
Broken(c, p) == Usable(proc[c]) /\ Mishap /\ Become(c, [p EXCEPT !.err = TRUE])

\* Redis answers with an error.
Refused(c, p) == Usable(proc[c]) /\ Mishap /\ Become(c, p)

\* The connection broke earlier: redisCommand() returns NULL at once.
Unusable(c, p) ==
    proc[c].ctx # "null" /\ proc[c].err /\ Become(c, p) /\ UNCHANGED mishaps

-----------------------------------------------------------------------------
(* The loop: cf_consumer_run_forever() and cf_consumer_run_once().         *)

\* cf_consumer_ensure_groups(), at start and on a new connection: XGROUP CREATE
\* of the next stream.  Only an error reply ends the loop.
EnsureGroup(c) ==
    LET p == proc[c]
        first == p.pc = "start"
        more == p.i + 1 < NStreams
        on == [p EXCEPT !.i = IF more THEN @ + 1 ELSE 0,
                        !.pc = IF more THEN @ ELSE IF first /\ run = "forever" THEN "top" ELSE "reclaim"]
        created == /\ groups' = groups \cup {p.i + 1}
                   /\ UNCHANGED <<handed, owner, idle, acked, deadLettered>>
    IN /\ p.pc \in {"start", "groups"}
       /\ \/ (Answered(c, on) \/ Broken(c, on)) /\ created
          \/ (Broken(c, on) \/ Unusable(c, on)) /\ UNCHANGED redis
          \/ first /\ Refused(c, [p EXCEPT !.pc = "cleanup", !.i = 0]) /\ UNCHANGED redis
          \/ ~first /\ Refused(c, [p EXCEPT !.pc = "reconnect", !.i = 0, !.ctx = "null"])
             /\ UNCHANGED redis
       /\ UNCHANGED <<config, received>>

\* The head of the loop: leave, free a dead context, or go round.
Top(c) ==
    LET p == proc[c] IN
    /\ p.pc = "top"
    /\ Become(c, IF p.stop THEN [p EXCEPT !.pc = "finish"]
                 ELSE IF Usable(p) THEN [p EXCEPT !.pc = "reclaim", !.i = 0]
                 ELSE [p EXCEPT !.pc = "reconnect", !.ctx = "null", !.err = FALSE])
    /\ UNCHANGED <<config, redis, received, mishaps>>

\* reconnect_redis(): an endpoint accepts; the groups are created again.
Connect(c) ==
    /\ proc[c].pc = "reconnect"
    /\ Become(c, [proc[c] EXCEPT !.pc = "groups", !.i = 0, !.ctx = "later"])
    /\ UNCHANGED <<config, redis, received, mishaps>>

\* reconnect_redis(): the stop ends the attempts, with no context.
GiveUp(c) ==
    /\ proc[c].pc = "reconnect" /\ proc[c].stop
    /\ Become(c, [proc[c] EXCEPT !.pc = "finish"])
    /\ UNCHANGED <<config, redis, received, mishaps>>

-----------------------------------------------------------------------------
(* Reading: XAUTOCLAIM and XREADGROUP.                                     *)

Ordered(S) == CHOOSE s \in [1..Cardinality(S) -> S] : \A i, j \in DOMAIN s : i < j => s[i] < s[j]
Elements(s) == {s[i] : i \in DOMAIN s}
Of(s) == {e \in Entries : StreamOf[e] = s}
Pending(s, from) == {e \in Of(s) : e >= from /\ owner[e] # Nobody}

\* What XAUTOCLAIM hands over of stream s from the cursor on, and the cursor it
\* returns.
Claimed(s, from) ==
    LET all == Ordered(Pending(s, from) \cap idle)
    IN IF Len(all) > ReadCount THEN SubSeq(all, 1, ReadCount) ELSE all

\* Mutant of NextCursor: the cursor goes on and never wraps around.
NextCursorNoWrap(s, from) ==
    LET got == Claimed(s, from) IN IF got = <<>> THEN from ELSE got[Len(got)] + 1

NextCursor(s, from) ==
    LET got == Claimed(s, from)
        left == Pending(s, got[Len(got)] + 1)
    IN IF Len(got) < ReadCount \/ left = {} THEN 0 ELSE Ordered(left)[1]

\* Redis gives the entries to c and restarts their idle clock.
Assign(c, S) ==
    /\ owner' = [e \in Entries |-> IF e \in S THEN c ELSE owner[e]]
    /\ idle' = idle \ S
    /\ UNCHANGED <<groups, acked, deadLettered>>

\* reclaim_all() goes on to the next stream, with no flush in between.
NextStream(p) == [p EXCEPT !.pc = IF p.i < NStreams THEN "reclaim" ELSE "flush"]

\* reclaim_stream().  Without the group, and for a COUNT below 1, Redis answers
\* with an error.
Reclaim(c) ==
    LET p == proc[c]
        s == p.i + 1
        claims == s \in groups /\ ReadCount > 0
        entries == IF claims THEN Claimed(s, p.cursor[s]) ELSE <<>>
        after == [p EXCEPT !.i = s, !.next = "check"]
        got == [after EXCEPT !.pc = "process", !.todo = entries,
                             !.cursor[s] = IF claims THEN NextCursor(s, @) ELSE @]
    IN /\ p.pc = "reclaim"
       /\ \/ (Answered(c, got) \/ Broken(c, NextStream(after)))
             /\ Assign(c, Elements(entries)) /\ UNCHANGED handed
          \/ ( \/ Broken(c, NextStream(after)) \/ Refused(c, NextStream(after))
               \/ Unusable(c, NextStream(after)) ) /\ UNCHANGED redis
       /\ UNCHANGED <<config, received>>

\* The loop tests the stop again before it reads; --once does not.
Check(c) ==
    LET p == proc[c] IN
    /\ p.pc = "check"
    /\ Become(c, IF run = "forever" /\ p.stop THEN [p EXCEPT !.pc = "finish"]
                 ELSE [p EXCEPT !.pc = "read", !.i = 0])
    /\ UNCHANGED <<config, redis, received, mishaps>>

\* XREADGROUP hands out S: of each stream the next entries, up to COUNT, and for
\* a COUNT below 1 any number.
New(S) ==
    /\ S # {} /\ S \cap handed = {}
    /\ \A e \in S : \A f \in Of(StreamOf[e]) : f < e => f \in handed \cup S
    /\ ReadCount > 0 => \A s \in Streams : Cardinality(S \cap Of(s)) <= ReadCount

\* read_new(): the new entries of all streams, or none in time.  --once reads
\* again until it gets none.
Read(c) ==
    LET p == proc[c]
        none == [p EXCEPT !.pc = "flush", !.next = IF run = "once" THEN "finish" ELSE "top"]
        some(parts) == [p EXCEPT !.pc = "process", !.i = 1, !.todo = parts[1], !.rest = Tail(parts),
                                 !.next = IF run = "once" THEN "check" ELSE "top"]
    IN /\ p.pc = "read"
       /\ \/ \E S \in SUBSET Entries :
                /\ groups = Streams /\ New(S)
                /\ \/ Answered(c, some([s \in Streams |-> Ordered(S \cap Of(s))]))
                   \/ Broken(c, none)
                /\ handed' = handed \cup S
                /\ Assign(c, S)
          \/ ( \/ Answered(c, none) \/ Broken(c, none) \/ Refused(c, none)
               \/ Unusable(c, none) ) /\ UNCHANGED redis
       /\ UNCHANGED <<config, received>>

-----------------------------------------------------------------------------
(* process_entry(), and what becomes of one entry.                         *)

\* process_entry() works on the reply, flush_hec() on the batch.
Current(p) == IF p.todo # <<>> THEN p.todo[1] ELSE p.batch[p.at]

Advance(p) == IF p.todo # <<>> THEN [p EXCEPT !.pc = "process", !.todo = Tail(@)]
              ELSE [p EXCEPT !.pc = "settle", !.at = @ + 1]

\* The next stream of the reply or of reclaim_all(), or the flush.
Processed(c) ==
    LET p == proc[c] IN
    /\ p.pc = "process" /\ p.todo = <<>>
    /\ Become(c, IF p.rest # <<>>
                 THEN [p EXCEPT !.i = @ + 1, !.todo = p.rest[1], !.rest = Tail(@)]
                 ELSE NextStream(p))
    /\ UNCHANGED <<config, redis, received, mishaps>>

\* The entry is dead-lettered, has nothing to deliver, or joins the batch.
Process(c) ==
    LET p == proc[c] IN
    /\ p.pc = "process" /\ p.todo # <<>>
    /\ Become(c, IF p.todo[1] \in Undecodable THEN [p EXCEPT !.pc = "deadletter"]
                 ELSE IF p.todo[1] \in Silent THEN [p EXCEPT !.pc = "ack"]
                 ELSE [Advance(p) EXCEPT !.batch = Append(@, p.todo[1])])
    /\ UNCHANGED <<config, redis, received, mishaps>>

\* Mutant of DeadLetter: the outcome of the write is not looked at.
DeadLetterUnchecked(c) ==
    LET p == proc[c]
        on == [p EXCEPT !.pc = "ack"]
        written == /\ deadLettered' = deadLettered \cup {Current(p)}
                   /\ UNCHANGED <<groups, handed, owner, idle, acked>>
    IN /\ p.pc = "deadletter"
       /\ \/ Answered(c, on) /\ written
          \/ Broken(c, on) /\ (written \/ UNCHANGED redis)
          \/ (Refused(c, on) \/ Unusable(c, on)) /\ UNCHANGED redis
       /\ UNCHANGED <<config, received>>

\* cf_deadletter_write(): without a confirmation the entry is not acknowledged.
DeadLetter(c) ==
    LET p == proc[c]
        written == /\ deadLettered' = deadLettered \cup {Current(p)}
                   /\ UNCHANGED <<groups, handed, owner, idle, acked>>
    IN /\ p.pc = "deadletter"
       /\ \/ Answered(c, [p EXCEPT !.pc = "ack"]) /\ written
          \/ Broken(c, Advance(p)) /\ (written \/ UNCHANGED redis)
          \/ (Refused(c, Advance(p)) \/ Unusable(c, Advance(p))) /\ UNCHANGED redis
       /\ UNCHANGED <<config, received>>

\* xack(): the reply is ignored; a NULL context is dereferenced.
Ack(c) ==
    LET p == proc[c]
        e == Current(p)
        removed == /\ owner' = [owner EXCEPT ![e] = Nobody]
                   /\ idle' = idle \ {e}
                   /\ acked' = acked \cup {e}
                   /\ UNCHANGED <<groups, handed, deadLettered>>
    IN /\ p.pc = "ack"
       /\ \/ (Answered(c, Advance(p)) \/ Broken(c, Advance(p))) /\ removed
          \/ ( \/ Broken(c, Advance(p)) \/ Refused(c, Advance(p))
               \/ Unusable(c, Advance(p)) ) /\ UNCHANGED redis
          \/ p.ctx = "null" /\ Become(c, [p EXCEPT !.pc = "aborted"]) /\ UNCHANGED <<redis, mishaps>>
       /\ UNCHANGED <<config, received>>

-----------------------------------------------------------------------------
(* Flushing: maybe_flush(), flush_batch(), send_range(), the settlement.   *)

\* Mutant of KeepBatch: a full batch need not be flushed.
KeepBatchFull(c) ==
    LET p == proc[c] IN
    /\ p.pc = "flush"
    /\ Become(c, [p EXCEPT !.pc = p.next])
    /\ UNCHANGED <<config, redis, received, mishaps>>

Full == IF BatchSize = 0 THEN 1 ELSE BatchSize  \* an empty batch is never full

\* should_flush() is false: the batch is empty, or small and not yet due.
KeepBatch(c) ==
    LET p == proc[c] IN
    /\ p.pc = "flush" /\ Len(p.batch) < Full
    /\ Become(c, [p EXCEPT !.pc = p.next])
    /\ UNCHANGED <<config, redis, received, mishaps>>

\* The batch is full or due, or the loop was left: print it, or start sending.
FlushBatch(c) ==
    LET p == proc[c]
        begun == [p EXCEPT !.next = IF p.pc = "finish" THEN "cleanup" ELSE @]
    IN /\ p.pc \in {"flush", "finish"} /\ p.batch # <<>>
       /\ IF output = "stdout"
          THEN /\ Become(c, [begun EXCEPT !.pc = "settle", !.delivered = 1..Len(p.batch)])
               /\ received' = received \cup Elements(p.batch)
          ELSE /\ Become(c, [begun EXCEPT !.pc = "send",
                                          !.work = <<[lo |-> 1, count |-> Len(p.batch)]>>])
               /\ UNCHANGED received
       /\ UNCHANGED <<config, redis, mishaps>>

\* The loop was left with nothing in the batch.
FinishEmpty(c) ==
    LET p == proc[c] IN
    /\ p.pc = "finish" /\ p.batch = <<>>
    /\ Become(c, [p EXCEPT !.pc = "cleanup"])
    /\ UNCHANGED <<config, redis, received, mishaps>>

Positions(r) == r.lo..(r.lo + r.count - 1)
Items(p, r) == {p.batch[i] : i \in Positions(r)}

\* send_range() is about to send its next range.
Sending(p) == p.pc = "send" /\ p.work # <<>> /\ ~p.stop

\* A 2xx answer.
PostAccepted(c) ==
    LET p == proc[c]
        r == p.work[1]
    IN /\ Sending(p) /\ Items(p, r) \cap Rejected = {}
       /\ received' = received \cup Items(p, r)
       /\ Become(c, [p EXCEPT !.work = Tail(@), !.delivered = @ \cup Positions(r)])
       /\ UNCHANGED <<config, redis, mishaps>>

\* Mutant of Halves: the second half starts with the last item of the first.
HalvesOverlap(r) == LET mid == r.count \div 2
                    IN <<[lo |-> r.lo, count |-> mid],
                         [lo |-> r.lo + mid - 1, count |-> r.count - mid]>>

Halves(r) == LET mid == r.count \div 2
             IN <<[lo |-> r.lo, count |-> mid], [lo |-> r.lo + mid, count |-> r.count - mid]>>

\* Mutant of PostRejected: the whole range is poison, with no bisection.
PostRejectedWhole(c) ==
    LET p == proc[c]
        r == p.work[1]
    IN /\ Sending(p) /\ (r.count > 1 \/ Items(p, r) \cap Rejected # {})
       /\ Become(c, [p EXCEPT !.poison = @ \cup Positions(r), !.work = Tail(@)])
       /\ UNCHANGED <<config, redis, received, mishaps>>

\* Any other final status, for a bad item or for the size of the request: a
\* single item is poison, more are sent again in two halves.
PostRejected(c) ==
    LET p == proc[c]
        r == p.work[1]
    IN /\ Sending(p) /\ (r.count > 1 \/ Items(p, r) \cap Rejected # {})
       /\ Become(c, IF r.count = 1
                    THEN [p EXCEPT !.poison = @ \cup {r.lo}, !.work = Tail(@)]
                    ELSE [p EXCEPT !.work = Halves(r) \o Tail(@)])
       /\ UNCHANGED <<config, redis, received, mishaps>>

\* No answer, 429 or 5xx: the range is sent again after a pause, though the
\* destination may have taken it.
PostRetried(c) ==
    LET p == proc[c]
        i == Items(p, p.work[1])
    IN /\ Sending(p)
       /\ \/ UNCHANGED received
          \/ i \cap Rejected = {} /\ received' = received \cup i
       /\ UNCHANGED <<config, redis, proc, mishaps>>

\* Mutant of Abandon: the stop is not looked at once something has been settled.
AbandonFirst(c) ==
    LET p == proc[c] IN
    /\ p.pc = "send" /\ p.work # <<>> /\ p.stop /\ p.delivered = {} /\ p.poison = {}
    /\ Become(c, [p EXCEPT !.work = Tail(@)])
    /\ UNCHANGED <<config, redis, received, mishaps>>

\* The stop is tested before every request: the range is left as it is.
Abandon(c) ==
    LET p == proc[c] IN
    /\ p.pc = "send" /\ p.work # <<>> /\ p.stop
    /\ Become(c, [p EXCEPT !.work = Tail(@)])
    /\ UNCHANGED <<config, redis, received, mishaps>>

\* Mutant of Settle: what was not rejected is taken for delivered.
SettleRest(c) ==
    LET p == proc[c] IN
    /\ \/ p.pc = "send" /\ p.work = <<>>
       \/ p.pc = "settle"
    /\ Become(c, IF p.at \in p.poison THEN [p EXCEPT !.pc = "deadletter"]
                 ELSE IF p.at <= Len(p.batch) THEN [p EXCEPT !.pc = "ack"]
                 ELSE [p EXCEPT !.pc = p.next, !.batch = <<>>, !.delivered = {}, !.poison = {},
                                !.at = 1])
    /\ UNCHANGED <<config, redis, received, mishaps>>

\* Item by item: acknowledge, dead-letter, or leave pending; then clear.
Settle(c) ==
    LET p == proc[c] IN
    /\ \/ p.pc = "send" /\ p.work = <<>>
       \/ p.pc = "settle"
    /\ Become(c, IF p.at \in p.delivered THEN [p EXCEPT !.pc = "ack"]
                 ELSE IF p.at \in p.poison THEN [p EXCEPT !.pc = "deadletter"]
                 ELSE IF p.at <= Len(p.batch) THEN [p EXCEPT !.pc = "settle", !.at = @ + 1]
                 ELSE [p EXCEPT !.pc = p.next, !.batch = <<>>, !.delivered = {}, !.poison = {},
                                !.at = 1])
    /\ UNCHANGED <<config, redis, received, mishaps>>

\* cf_sink_run() frees the context it connected.  After a reconnect that is
\* the second time: the allocator aborts, or does not notice.
Cleanup(c) ==
    LET p == proc[c] IN
    /\ p.pc = "cleanup"
    /\ \/ Become(c, [p EXCEPT !.pc = "exited"])
       \/ p.ctx # "first" /\ Become(c, [p EXCEPT !.pc = "aborted"])
    /\ UNCHANGED <<config, redis, received, mishaps>>

-----------------------------------------------------------------------------
(* The environment.                                                        *)

Ended(p) == p.pc \in {"exited", "aborted", "killed"}

\* SIGTERM.
Stop(c) ==
    /\ ~Ended(proc[c]) /\ ~proc[c].stop
    /\ Mishap
    /\ Become(c, [proc[c] EXCEPT !.stop = TRUE])
    /\ UNCHANGED <<config, redis, received>>

\* The process dies; unless it was being stopped it is started again.
Crash(c) ==
    /\ ~Ended(proc[c])
    /\ Mishap
    /\ Become(c, IF proc[c].stop THEN [Boot EXCEPT !.pc = "killed"] ELSE Boot)
    /\ UNCHANGED <<config, redis, received>>

\* A pending entry has not been touched for min_idle_ms.
BecomeIdle(e) ==
    /\ owner[e] # Nobody /\ e \notin idle
    /\ idle' = idle \cup {e}
    /\ UNCHANGED <<config, proc, groups, handed, owner, acked, deadLettered, received, mishaps>>

-----------------------------------------------------------------------------

\* What a process does by itself.
Own(c) ==
    \/ Top(c) \/ GiveUp(c) \/ Check(c) \/ Processed(c) \/ Process(c)
    \/ KeepBatch(c) \/ FlushBatch(c) \/ FinishEmpty(c)
    \/ Abandon(c) \/ Settle(c) \/ Cleanup(c)

\* A Redis command.
Command(c) == EnsureGroup(c) \/ Reclaim(c) \/ Read(c) \/ DeadLetter(c) \/ Ack(c)

\* A request the destination answers for good.
Final(c) == PostAccepted(c) \/ PostRejected(c)

Next ==
    \/ \E c \in Consumers :
          \/ Own(c) \/ Command(c) \/ Final(c) \/ PostRetried(c) \/ Connect(c) \/ Stop(c) \/ Crash(c)
    \/ \E e \in Entries : BecomeIdle(e)

Spec == Init /\ [][Next]_vars

\* Running processes are scheduled; a command on a broken connection, or on
\* none, returns at once.
FairSpec ==
    Spec /\ \A c \in Consumers : WF_vars(Own(c) \/ (~Usable(proc[c]) /\ Command(c)))

\* A connection that Redis holds answers, or breaks.  Nothing in the code sees
\* to it: a command has no timeout (cf_sink_run.c:35 connects with none,
\* cf_sink_consumer.c:525 with one for connecting only), and with a block_ms of
\* 0 XREADGROUP waits for an entry.
RedisAnswers == \A c \in Consumers : WF_vars(Command(c))

\* Besides: the destination gives a final answer in the end, Redis accepts
\* connections again, a batch that stays becomes due, time passes.
Recovering ==
    /\ \A c \in Consumers : WF_vars(Final(c)) /\ WF_vars(Connect(c)) /\ SF_vars(FlushBatch(c))
    /\ \A e \in Entries : WF_vars(BecomeIdle(e))

-----------------------------------------------------------------------------
(* Properties.                                                             *)

Places ==
    {"start", "top", "reconnect", "groups", "reclaim", "check", "read", "process", "deadletter", "ack",
     "flush", "finish", "send", "settle", "cleanup", "exited", "aborted", "killed"}

LocalState ==
    [pc : Places,
     stop : BOOLEAN, ctx : {"first", "later", "null"}, err : BOOLEAN,
     cursor : [Streams -> 0..MaxEntries], i : 0..NStreams,
     todo : Seq(Entries), rest : Seq(Seq(Entries)), batch : Seq(Entries),
     next : {"check", "top", "finish", "cleanup"},
     work : Seq([lo : Nat, count : Nat \ {0}]), delivered : SUBSET Nat, poison : SUBSET Nat,
     at : Nat]

\* What one stream adds at most: read_count entries, and all it has where
\* XREADGROUP is given no limit.
PerStream == IF ReadCount = 0 THEN MaxEntries ELSE ReadCount

\* The batch is bounded.  It is tested between rounds through the streams only:
\* one that reclaim_all() or read_new() adds to was not full, and every stream
\* adds its entries.
TypeBatch(p) ==
    /\ Len(p.todo) <= PerStream /\ \A k \in DOMAIN p.rest : Len(p.rest[k]) <= PerStream
    /\ p.i + Len(p.rest) <= NStreams
    /\ Len(p.batch) + Len(p.todo) < Full + NStreams * PerStream
    /\ p.at \in 1..(Len(p.batch) + 1)

TypeRedis ==
    /\ groups \subseteq Streams /\ handed \subseteq Entries
    /\ owner \in [Entries -> Consumers \cup {Nobody}]
    /\ idle \subseteq {e \in Entries : owner[e] # Nobody}
    /\ acked \subseteq Entries /\ deadLettered \subseteq Entries /\ received \subseteq Entries

TypeOK ==
    /\ output \in Outputs /\ run \in Runs
    /\ proc \in [Consumers -> LocalState]
    /\ \A c \in Consumers : TypeBatch(proc[c])
    /\ TypeRedis
    /\ mishaps \in 0..MaxMishaps

\* "nothing is ACKed until delivery is confirmed (or the entry is confirmed
\* dead-lettered)": whatever breaks, an acknowledged entry with something to
\* deliver is at the destination or in the dead-letter stream.
AckedHaveOutcome == acked \subseteq received \cup deadLettered \cup Silent

\* Bisection isolates exactly the entries the destination rejects; nothing
\* else is dead-lettered, apart from what cannot be decoded.
OnlyBadDeadLettered == deadLettered \subseteq Rejected \cup Undecodable

\* While a batch is sent every item is delivered, rejected or in one range
\* still to send; only a stop leaves items out.
SentInParts ==
    \A c \in Consumers : proc[c].pc = "send" =>
        LET p == proc[c]
            part(i) == Positions(p.work[i])
            settled == p.delivered \cup p.poison
        IN /\ \A i, j \in DOMAIN p.work : i # j => part(i) \cap part(j) = {}
           /\ \A i \in DOMAIN p.work : part(i) \cap settled = {}
           /\ p.delivered \cap p.poison = {}
           /\ ~p.stop => settled \cup UNION {part(i) : i \in DOMAIN p.work} = 1..Len(p.batch)

\* A stopped process ends, although the destination never answers and Redis
\* accepts no connection; a Redis that holds a connection and says nothing keeps
\* it for ever (see RedisAnswers).
StopReturns == RedisAnswers => \A c \in Consumers : proc[c].stop ~> Ended(proc[c])

\* At least once: as long as some process of the group keeps running, an
\* entry that was handed to any of them is acknowledged in the end.  With a
\* read_count below 1 every XAUTOCLAIM is refused and nothing is reclaimed.
EventuallyResolved ==
    (ReadCount > 0 /\ RedisAnswers /\ Recovering /\ <>[](\E c \in Consumers : ~Ended(proc[c])))
        => \A e \in Entries : (e \in handed) ~> (e \in acked)

\* docs/splunk-output.md: "XACK what succeeded, exit 0".
ExitsCleanly == \A c \in Consumers : proc[c].pc # "aborted"

=============================================================================
