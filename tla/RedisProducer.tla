---------------------------- MODULE RedisProducer ----------------------------
(***************************************************************************)
(* The Redis XADD producer thread of libs/cloudflow-redis                  *)
(* (cf_redis_producer.c): it pops events from q_evt, appends them to a     *)
(* pipeline, flushes the pipeline, retries the unacknowledged tail once on *)
(* a new connection, and drains under a deadline when asked to stop.       *)
(*                                                                         *)
(* Around it: the stage that feeds q_evt, the stop request, and a Redis    *)
(* whose connections may break at any moment, with commands still on the   *)
(* wire (they may be executed later, or never) and replies still unread.   *)
(* q_evt is the FIFO that SpscQueue is shown to implement.                 *)
(***************************************************************************)
EXTENDS Integers, Sequences, FiniteSets

CONSTANTS
    MaxEvents,    \* bound: events fed
    Unroutable,   \* events whose stream id cf_stream_name() does not know
    QueueCap,     \* elements q_evt can hold
    PipelineMax,  \* cfg->pipeline_max
    MaxConns      \* bound: connections that succeed

ASSUME EventsAssumption == MaxEvents \in Nat /\ Unroutable \subseteq 1..MaxEvents
ASSUME QueueCapAssumption == QueueCap \in Nat \ {0}
ASSUME PipelineAssumption == PipelineMax \in Nat \ {0}
ASSUME ConnsAssumption == MaxConns \in Nat

VARIABLES
    queue, offered,       \* q_evt, and how many events were pushed onto it
    stop,                 \* producer_should_stop()
    clock,                \* the shutdown deadline: "unset", "running" or "passed"
    pc, stopping,         \* the thread's control and its per-iteration copy of stop
    inflight, count, drained, attempt, remaining,  \* locals of the loop, do_flush() and flush_pipeline()
    ctx, nconn, alive,    \* the current connection (0 for NULL), how many succeeded, is it usable
    out, wire, reps,      \* hiredis' output buffer; per connection, commands sent; replies sent back
    stats,                \* cf_redis_stats_t
    applied,              \* history: how often each event was added to its stream
    acked, refused, lost, \* history: events counted in xadd_total, xadd_errors_total, events_lost_total
    sent,                 \* history: on how many connections each event was appended
    late                  \* history: an event was fed after the thread's last look at q_evt

feed == <<queue, offered>>
locals == <<inflight, count, drained, attempt, remaining>>
conn == <<ctx, nconn, alive, out, wire, reps>>
hist == <<applied, acked, refused, lost, sent, late>>
vars == <<queue, offered, stop, clock, pc, stopping, inflight, count, drained, attempt,
          remaining, ctx, nconn, alive, out, wire, reps, stats, applied, acked, refused, lost,
          sent, late>>

NULL == 0
Events == 1..MaxEvents
Conns == 1..MaxConns
Elems(s) == {s[i] : i \in DOMAIN s}
Drop(s, n) == SubSeq(s, n + 1, Len(s))
Take(s, n) == SubSeq(s, 1, n)

Init ==
    /\ queue = <<>> /\ offered = 0
    /\ stop = FALSE
    /\ clock = "unset"
    /\ pc = "connect" /\ stopping = FALSE
    /\ inflight = <<>> /\ count = 0 /\ drained = 0 /\ attempt = 1 /\ remaining = 0
    /\ ctx = NULL /\ nconn = 0 /\ alive = FALSE
    /\ out = <<>> /\ wire = [c \in Conns |-> <<>>] /\ reps = <<>>
    /\ stats = [xadd |-> 0, errors |-> 0, lost |-> 0, reconnects |-> 0]
    /\ applied = [e \in Events |-> 0]
    /\ acked = {} /\ refused = {} /\ lost = {}
    /\ sent = [e \in Events |-> 0]
    /\ late = FALSE

-----------------------------------------------------------------------------
(* The world around the thread.                                            *)

\* The formatter (or the DNS stage) pushes an event; a refused push is the
\* queue policy's to count.
Feed ==
    /\ offered < MaxEvents /\ Len(queue) < QueueCap
    /\ queue' = Append(queue, offered + 1)
    /\ offered' = offered + 1
    /\ late' = (late \/ pc \in {"abandon", "done"})
    /\ UNCHANGED <<stop, clock, pc, stopping, locals, conn, stats, applied, acked, refused, lost,
                   sent>>

\* cf_stop_notify(), a signal, or cf_redis_producer_stop().
RequestStop ==
    /\ ~stop
    /\ stop' = TRUE
    /\ UNCHANGED <<feed, clock, pc, stopping, locals, conn, stats, hist>>

\* Five seconds have gone by since the thread noticed the stop.
DeadlinePasses ==
    /\ clock = "running"
    /\ clock' = "passed"
    /\ UNCHANGED <<feed, stop, pc, stopping, locals, conn, stats, hist>>

\* Redis executes the next command it received on connection c, adding the
\* event or refusing it; its reply is lost when the producer gave c up.
Execute(c, ok) ==
    /\ wire[c] # <<>>
    /\ wire' = [wire EXCEPT ![c] = Tail(@)]
    /\ applied' = [applied EXCEPT ![Head(wire[c])] = @ + (IF ok THEN 1 ELSE 0)]
    /\ reps' = IF c = ctx /\ alive THEN Append(reps, ok) ELSE reps
    /\ UNCHANGED <<feed, stop, clock, pc, stopping, locals, ctx, nconn, alive, out, stats,
                   acked, refused, lost, sent, late>>

\* The current connection breaks: only some of what is under way in either
\* direction still arrives.
Break ==
    /\ ctx # NULL /\ alive
    /\ alive' = FALSE
    /\ \E n \in 0..Len(wire[ctx]), m \in 0..Len(reps) :
          /\ wire' = [wire EXCEPT ![ctx] = Take(@, n)]
          /\ reps' = Take(reps, m)
    /\ UNCHANGED <<feed, stop, clock, pc, stopping, locals, ctx, nconn, out, stats, hist>>

-----------------------------------------------------------------------------
(* connect_with_backoff(), called at three places: before the loop         *)
(* ("connect"), in the loop ("reconnect") and from do_flush() ("retry").   *)
(* A failed attempt and the backoff after it change nothing modelled.      *)

\* Steady state gives up only on a stop, the shutdown drain only at the deadline.
MayGiveUp == IF stopping THEN clock = "passed" ELSE stop

Connected ==
    /\ pc \in {"connect", "reconnect", "retry"}
    /\ nconn < MaxConns
    /\ nconn' = nconn + 1 /\ ctx' = nconn + 1
    /\ alive' = TRUE
    /\ out' = <<>> /\ reps' = <<>>
    /\ stats' = IF pc = "connect" THEN stats ELSE [stats EXCEPT !.reconnects = @ + 1]
    /\ pc' = CASE pc = "connect" -> "top" [] pc = "reconnect" -> "pop" [] pc = "retry" -> "append"
    /\ UNCHANGED <<feed, stop, clock, stopping, locals, wire, hist>>

\* Mutant of ConnectGivesUp: the drain waits for a connection, deadline or not.
ConnectGivesUpNever ==
    /\ pc \in {"connect", "reconnect"}
    /\ ~stopping /\ stop
    /\ pc' = "top"
    /\ UNCHANGED <<feed, stop, clock, stopping, locals, conn, stats, hist>>

\* connect_with_backoff() returns NULL to the loop, which starts over.
ConnectGivesUp ==
    /\ pc \in {"connect", "reconnect"}
    /\ MayGiveUp
    /\ pc' = "top"
    /\ UNCHANGED <<feed, stop, clock, stopping, locals, conn, stats, hist>>

\* Mutant of RetryGivesUp: steady state passes the unset shutdown deadline.
RetryGivesUpAtOnce ==
    /\ pc = "retry"
    /\ stopping => clock = "passed"
    /\ stats' = [stats EXCEPT !.lost = @ + Len(inflight)]
    /\ lost' = lost \cup Elems(inflight)
    /\ inflight' = <<>>
    /\ pc' = "top"
    /\ UNCHANGED <<feed, stop, clock, stopping, count, drained, attempt, remaining, conn,
                   applied, acked, refused, sent, late>>

\* It returns NULL to do_flush(): the unacknowledged tail is counted lost.
RetryGivesUp ==
    /\ pc = "retry"
    /\ MayGiveUp
    /\ stats' = [stats EXCEPT !.lost = @ + Len(inflight)]
    /\ lost' = lost \cup Elems(inflight)
    /\ inflight' = <<>>
    /\ pc' = "top"
    /\ UNCHANGED <<feed, stop, clock, stopping, count, drained, attempt, remaining, conn,
                   applied, acked, refused, sent, late>>

-----------------------------------------------------------------------------
(* cf_redis_producer_thread_main(): one iteration of the loop.             *)

Sending == IF ctx = NULL THEN "reconnect" ELSE "pop"

\* Sample the stop flag; the first time it is seen, start the deadline.
Top ==
    /\ pc = "top"
    /\ stopping' = stop
    /\ clock' = IF stop /\ clock = "unset" THEN "running" ELSE clock
    /\ pc' = IF stop THEN "exitTest" ELSE Sending
    /\ UNCHANGED <<feed, stop, locals, conn, stats, hist>>

Leave == pc' = "done" /\ ctx' = NULL /\ alive' = FALSE

\* Mutant of ExitTest: the events in flight are forgotten.
ExitTestQueueOnly ==
    /\ pc = "exitTest"
    /\ IF queue = <<>> THEN Leave ELSE pc' = "deadlineTest" /\ UNCHANGED <<ctx, alive>>
    /\ UNCHANGED <<feed, stop, clock, stopping, locals, nconn, out, wire, reps, stats, hist>>

\* Stopping, nothing in flight and q_evt empty: leave.
ExitTest ==
    /\ pc = "exitTest"
    /\ IF inflight = <<>> /\ queue = <<>>
       THEN Leave
       ELSE pc' = "deadlineTest" /\ UNCHANGED <<ctx, alive>>
    /\ UNCHANGED <<feed, stop, clock, stopping, locals, nconn, out, wire, reps, stats, hist>>

\* Past the deadline, cf_queue_length() says how much is to be abandoned.
DeadlineTest ==
    /\ pc = "deadlineTest"
    /\ IF clock = "passed"
       THEN remaining' = Len(queue) /\ pc' = "abandon"
       ELSE pc' = Sending /\ UNCHANGED remaining
    /\ UNCHANGED <<feed, stop, clock, stopping, inflight, count, drained, attempt, conn, stats, hist>>

\* Pop until the queue is empty, add the length read before to the loss, leave.
Abandon ==
    /\ pc = "abandon"
    /\ queue' = IF remaining > 0 THEN <<>> ELSE queue
    /\ stats' = [stats EXCEPT !.lost = @ + remaining + Len(inflight)]
    /\ lost' = lost \cup Elems(Take(queue, remaining)) \cup Elems(inflight)
    /\ inflight' = <<>>
    /\ Leave
    /\ UNCHANGED <<offered, stop, clock, stopping, count, drained, attempt, remaining, nconn,
                   out, wire, reps, applied, acked, refused, sent, late>>

\* Pop one event and append its XADD to the pipeline ...
PopAppend ==
    /\ pc = "pop" /\ Len(inflight) < PipelineMax /\ queue # <<>>
    /\ LET e == Head(queue) IN
          /\ e \notin Unroutable
          /\ inflight' = Append(inflight, e)
          /\ out' = Append(out, e)
          /\ sent' = [sent EXCEPT ![e] = @ + 1]
    /\ queue' = Tail(queue)
    /\ pc' = "flushTest"
    /\ UNCHANGED <<offered, stop, clock, stopping, count, drained, attempt, remaining, ctx, nconn,
                   alive, wire, reps, stats, applied, acked, refused, lost, late>>

\* ... or lose it: no such stream, or no memory to format the command.
PopLose ==
    /\ pc = "pop" /\ Len(inflight) < PipelineMax /\ queue # <<>>
    /\ stats' = [stats EXCEPT !.lost = @ + 1]
    /\ lost' = lost \cup {Head(queue)}
    /\ queue' = Tail(queue)
    /\ pc' = "flushTest"
    /\ UNCHANGED <<offered, stop, clock, stopping, locals, conn, applied, acked, refused, sent, late>>

PopNothing ==
    /\ pc = "pop" /\ (Len(inflight) >= PipelineMax \/ queue = <<>>)
    /\ pc' = "flushTest"
    /\ UNCHANGED <<feed, stop, clock, stopping, locals, conn, stats, hist>>

\* should_flush; whether flush_interval_ms have passed is not determined.
FlushNow ==
    /\ pc = "flushTest" /\ inflight # <<>>
    /\ count' = Len(inflight) /\ drained' = 0 /\ attempt' = 1
    /\ pc' = "flush"
    /\ UNCHANGED <<feed, stop, clock, stopping, inflight, remaining, conn, stats, hist>>

FlushLater ==
    /\ pc = "flushTest"
    /\ inflight = <<>> \/ (Len(inflight) < PipelineMax /\ ~stopping)
    /\ pc' = "top"
    /\ UNCHANGED <<feed, stop, clock, stopping, locals, conn, stats, hist>>

-----------------------------------------------------------------------------
(* do_flush() and the flush_pipeline() calls it makes.                     *)

\* The first redisGetReply() writes the output buffer to the socket.
WriteOut ==
    /\ pc = "flush" /\ drained < count
    /\ out # <<>> /\ alive
    /\ wire' = [wire EXCEPT ![ctx] = @ \o out]
    /\ out' = <<>>
    /\ UNCHANGED <<feed, stop, clock, pc, stopping, locals, ctx, nconn, alive, reps, stats, hist>>

\* Mutant of ReadReply: an error reply counts as a delivery.
ReadReplyUnchecked ==
    /\ pc = "flush" /\ drained < count
    /\ reps # <<>>
    /\ reps' = Tail(reps)
    /\ drained' = drained + 1
    /\ stats' = [stats EXCEPT !.xadd = @ + 1]
    /\ acked' = acked \cup {inflight[drained + 1]}
    /\ UNCHANGED <<feed, stop, clock, pc, stopping, inflight, count, attempt, remaining, ctx,
                   nconn, alive, out, wire, applied, refused, lost, sent, late>>

\* redisGetReply() returns a reply: an XADD that took effect, or an error.
ReadReply ==
    /\ pc = "flush" /\ drained < count
    /\ reps # <<>>
    /\ reps' = Tail(reps)
    /\ drained' = drained + 1
    /\ stats' = IF Head(reps) THEN [stats EXCEPT !.xadd = @ + 1] ELSE [stats EXCEPT !.errors = @ + 1]
    /\ acked' = IF Head(reps) THEN acked \cup {inflight[drained + 1]} ELSE acked
    /\ refused' = IF Head(reps) THEN refused ELSE refused \cup {inflight[drained + 1]}
    /\ UNCHANGED <<feed, stop, clock, pc, stopping, inflight, count, attempt, remaining, ctx,
                   nconn, alive, out, wire, applied, lost, sent, late>>

\* Every reply arrived; after the retry, what could not be re-appended is lost.
FlushDone ==
    /\ pc = "flush" /\ drained = count
    /\ stats' = [stats EXCEPT !.lost = @ + Len(inflight) - drained]
    /\ lost' = lost \cup Elems(Drop(inflight, drained))
    /\ inflight' = <<>>
    /\ count' = 0 /\ drained' = 0
    /\ pc' = "top"
    /\ UNCHANGED <<feed, stop, clock, stopping, attempt, remaining, conn, applied, acked, refused, sent, late>>

\* Mutant of FirstIoError: the acknowledged prefix is kept instead of the tail.
FirstIoErrorKeepsPrefix ==
    /\ pc = "flush" /\ drained < count
    /\ ~alive /\ reps = <<>> /\ attempt = 1
    /\ ctx' = NULL
    /\ inflight' = Take(inflight, count - drained)
    /\ count' = 0 /\ drained' = 0 /\ attempt' = 2
    /\ pc' = "retry"
    /\ UNCHANGED <<feed, stop, clock, stopping, remaining, nconn, alive, out, wire, reps, stats, hist>>

\* redisGetReply() fails: drop the connection, keep the unacknowledged tail.
FirstIoError ==
    /\ pc = "flush" /\ drained < count
    /\ ~alive /\ reps = <<>> /\ attempt = 1
    /\ ctx' = NULL
    /\ inflight' = Drop(inflight, drained)
    /\ count' = 0 /\ drained' = 0 /\ attempt' = 2
    /\ pc' = "retry"
    /\ UNCHANGED <<feed, stop, clock, stopping, remaining, nconn, alive, out, wire, reps, stats, hist>>

\* Re-append the tail to the new connection, up to the first failure.
Reappend ==
    /\ pc = "append"
    /\ \E n \in 0..Len(inflight) :
          /\ out' = Take(inflight, n)
          /\ count' = n
          /\ sent' = [e \in Events |-> sent[e] + (IF e \in Elems(Take(inflight, n)) THEN 1 ELSE 0)]
    /\ pc' = "flush"
    /\ UNCHANGED <<feed, stop, clock, stopping, inflight, drained, attempt, remaining, ctx, nconn,
                   alive, wire, reps, stats, applied, acked, refused, lost, late>>

\* Mutant of SecondIoError: retry until it works.
SecondIoErrorRetries ==
    /\ pc = "flush" /\ drained < count
    /\ ~alive /\ reps = <<>> /\ attempt = 2
    /\ ctx' = NULL
    /\ inflight' = Drop(inflight, drained)
    /\ count' = 0 /\ drained' = 0
    /\ pc' = "retry"
    /\ UNCHANGED <<feed, stop, clock, stopping, attempt, remaining, nconn, alive, out, wire, reps,
                   stats, hist>>

\* The retry fails as well: count what is still unacknowledged and go on.
SecondIoError ==
    /\ pc = "flush" /\ drained < count
    /\ ~alive /\ reps = <<>> /\ attempt = 2
    /\ ctx' = NULL
    /\ stats' = [stats EXCEPT !.lost = @ + Len(inflight) - drained]
    /\ lost' = lost \cup Elems(Drop(inflight, drained))
    /\ inflight' = <<>>
    /\ count' = 0 /\ drained' = 0
    /\ pc' = "top"
    /\ UNCHANGED <<feed, stop, clock, stopping, attempt, remaining, nconn, alive, out, wire, reps,
                   applied, acked, refused, sent, late>>

-----------------------------------------------------------------------------

ProducerStep ==
    \/ Connected \/ ConnectGivesUp \/ RetryGivesUp
    \/ Top \/ ExitTest \/ DeadlineTest \/ Abandon
    \/ PopAppend \/ PopLose \/ PopNothing \/ FlushNow \/ FlushLater
    \/ WriteOut \/ ReadReply \/ FlushDone \/ FirstIoError \/ Reappend \/ SecondIoError

Next ==
    \/ ProducerStep
    \/ Feed \/ RequestStop \/ DeadlinePasses \/ Break
    \/ \E c \in Conns, ok \in BOOLEAN : Execute(c, ok)

Spec == Init /\ [][Next]_vars

\* The thread is scheduled and time passes; nothing is assumed of Redis.
ThreadSpec == Spec /\ WF_vars(ProducerStep) /\ WF_vars(DeadlinePasses)

\* A connection that is up answers.
Answer == ctx # NULL /\ \E ok \in BOOLEAN : Execute(ctx, ok)

FairSpec == ThreadSpec /\ WF_vars(Answer)

-----------------------------------------------------------------------------
(* Properties.                                                             *)

TypeQueue ==
    queue \in Seq(Events) /\ Len(queue) <= QueueCap /\ offered \in 0..MaxEvents

TypeControl ==
    /\ stop \in BOOLEAN /\ stopping \in BOOLEAN /\ late \in BOOLEAN
    /\ clock \in {"unset", "running", "passed"}
    /\ pc \in {"connect", "reconnect", "retry", "append", "top", "exitTest", "deadlineTest",
               "abandon", "pop", "flushTest", "flush", "done"}
    /\ attempt \in {1, 2}
    /\ remaining \in 0..QueueCap

TypeInflight ==
    /\ inflight \in Seq(Events) /\ Len(inflight) <= PipelineMax
    /\ count \in 0..Len(inflight) /\ drained \in 0..count

TypeConn ==
    /\ ctx \in 0..nconn /\ nconn \in 0..MaxConns /\ alive \in BOOLEAN
    /\ out \in Seq(Events) /\ wire \in [Conns -> Seq(Events)] /\ reps \in Seq(BOOLEAN)

Counters == [xadd : Nat, errors : Nat, lost : Nat, reconnects : Nat]

TypeStats ==
    stats \in Counters /\ acked \subseteq Events /\ refused \subseteq Events /\ lost \subseteq Events

TypeHist == applied \in [Events -> Nat] /\ sent \in [Events -> Nat]

TypeOK == TypeQueue /\ TypeControl /\ TypeInflight /\ TypeConn /\ TypeStats /\ TypeHist

Counted == stats.xadd + stats.errors + stats.lost

\* do_flush(): "silent loss is not accepted".  Every event fed is in q_evt, in
\* flight, acknowledged, refused by Redis or counted lost, through every break,
\* retry and failed append, as long as nothing is fed after the thread's last
\* look at the queue.
AccountedUnlessLate ==
    late \/ /\ offered = Len(queue) + (Len(inflight) - drained) + Counted
            /\ 1..offered = Elems(queue) \cup Elems(inflight) \cup acked \cup refused \cup lost

\* cf_redis_producer_stop() "drains the input queue": when the thread has left,
\* whatever was fed is acknowledged, refused or counted lost.
NoSilentLoss == pc = "done" => offered = Counted /\ 1..offered = acked \cup refused \cup lost

\* The same, as far as the code keeps it.
NoSilentLossUnlessLate == late \/ NoSilentLoss

\* An event counted in xadd_total really is in its stream: no reply is ever
\* taken for the reply of another command, whatever breaks in between.
AckedWereAdded == \A e \in acked : applied[e] > 0

\* "Retry once": no event is added to its stream more than twice, commands left
\* on the wire of a dead connection included.
AtMostTwice == \A e \in Events : applied[e] <= 2

\* The thread does not give up early: while nobody asks for a stop, an event is
\* lost only after it was appended on two connections, or could not be appended
\* at all.  This is the code and not docs/failure-modes.md:29-35, which drops
\* and counts the batch once Redis is "unreachable past one retry", with "no
\* unbounded blocking": a retry that finds no server waits for one for ever
\* (connect_with_backoff() with INT64_MAX, cf_redis_producer.c:341) and loses
\* nothing here; the events behind it are dropped and counted by the full queue.
LostWereTried ==
    [][\A e \in lost' \ lost :
          \/ sent[e] = 2 \/ stop
          \/ pc = "pop" /\ e = Head(queue)
          \/ pc = "flush" /\ attempt = 2 /\ e \in Elems(Drop(inflight, count))]_vars

\* cf_redis_producer_stop() returns: after the stop is requested the thread
\* ends, with Redis down, breaking connections or slow.
StopReturns == stop ~> (pc = "done")

=============================================================================
