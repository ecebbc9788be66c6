---------------------------- MODULE SourcePipeline ----------------------------
(***************************************************************************)
(* A source daemon as its main() wires it up: packet input -> q_pkt ->     *)
(* event stage -> q_evt -> redis producer, one thread each, and the order  *)
(* in which main() stops them (sources/cloudflow-source-dhcp/src/main.c,   *)
(* sources/cloudflow-source-dns/src/main.c).  Every thread watches the one *)
(* process-wide flag of cf_sync.c.                                         *)
(*                                                                         *)
(* Queues are their lengths and packets are counted, not told apart.  The  *)
(* stage is the DHCP formatter (each packet is skipped or becomes an       *)
(* event) or the DNS stage (a query waits in the correlator: DnsCorrelator)*)
(* and the producer is RedisProducer reduced to what it takes from q_evt   *)
(* and when it leaves.                                                     *)
(***************************************************************************)
EXTENDS Integers

CONSTANTS
    MaxPackets,   \* bound: packets that arrive
    PktCap,       \* elements q_pkt can hold
    EvtCap,       \* elements q_evt can hold
    PipelineMax,  \* the producer's pipeline_max
    TableCap      \* the correlator's capacity

ASSUME SizesAssumption ==
    /\ MaxPackets \in Nat
    /\ PktCap \in Nat \ {0} /\ EvtCap \in Nat \ {0}
    /\ PipelineMax \in Nat \ {0} /\ TableCap \in Nat \ {0}

VARIABLES
    dns, replay,    \* which daemon, and whether it runs with --replay
    stop,           \* cf_stop_notified()
    mpc,            \* the main thread
    input,          \* packets still to come: on the interface, or in the pcap file
    rpc, block,     \* the rx reader: "wait", "walk", "out"; packets left of the blocks it walks
    qPkt, qEvt,     \* queue lengths
    spc, draining,  \* the stage: "idle", "busy" with a packet, in the "tick" behind an
                    \* empty pop, "out"; in its final drain
    held,           \* queries pending in the correlator
    ppc, inflight,  \* the producer: "run", in a "flush", in the "drain" at its deadline,
                    \* "out"; events popped and not yet resolved
    remaining,      \* its sample of q_evt's length at the deadline
    n,              \* counters: received, the drops of both queues, skipped, merged, done (delivered or lost)
    uncounted,      \* history: events that the drain popped on top of its sample
    late            \* history: something was pushed for a thread that had left, or had
                    \* taken its last look at the queue's length

reader == <<input, rpc, block>>
stage == <<spc, draining, held>>
producer == <<ppc, inflight, remaining, uncounted>>
vars == <<dns, replay, stop, mpc, input, rpc, block, qPkt, qEvt, spc, draining, held,
          ppc, inflight, remaining, uncounted, n, late>>

Init ==
    /\ dns \in BOOLEAN /\ replay \in BOOLEAN
    /\ stop = FALSE
    /\ mpc = IF replay THEN "replay" ELSE "report"
    /\ input \in 0..MaxPackets
    /\ rpc = IF replay THEN "out" ELSE "wait"
    /\ block = 0
    /\ qPkt = 0 /\ qEvt = 0
    /\ spc = "idle" /\ draining = FALSE /\ held = 0
    /\ ppc = "run" /\ inflight = 0 /\ remaining = 0 /\ uncounted = 0
    /\ n = [received |-> 0, pktDrop |-> 0, evtDrop |-> 0, skipped |-> 0, merged |-> 0, done |-> 0]
    /\ late = FALSE

\* A packet is received and offered to q_pkt.
PushPkt ==
    /\ IF qPkt < PktCap
       THEN qPkt' = qPkt + 1 /\ n' = [n EXCEPT !.received = @ + 1]
       ELSE qPkt' = qPkt /\ n' = [n EXCEPT !.received = @ + 1, !.pktDrop = @ + 1]
    /\ late' = (late \/ spc = "out")

\* Event(s) of the stage offered to q_evt, while other counters move by delta.
PushEvt(delta) ==
    /\ IF qEvt < EvtCap
       THEN qEvt' = qEvt + 1 /\ n' = [n EXCEPT !.merged = @ + delta]
       ELSE qEvt' = qEvt /\ n' = [n EXCEPT !.merged = @ + delta, !.evtDrop = @ + 1]
    /\ late' = (late \/ ppc \in {"drain", "out"})

-----------------------------------------------------------------------------
(* rx_reader_loop()                                                        *)

\* The stop flag is looked at, epoll_wait() reports the ring: walk its blocks.
ReaderWake ==
    /\ rpc = "wait" /\ ~stop
    /\ \E k \in 1..input : block' = k /\ input' = input - k
    /\ rpc' = "walk"
    /\ UNCHANGED <<dns, replay, stop, mpc, qPkt, qEvt, stage, producer, n, late>>

\* handle_packet()
ReaderPush ==
    /\ rpc = "walk" /\ block > 0
    /\ block' = block - 1
    /\ PushPkt
    /\ UNCHANGED <<dns, replay, stop, mpc, input, rpc, qEvt, stage, producer>>

ReaderWait ==
    /\ rpc = "walk" /\ block = 0
    /\ rpc' = "wait"
    /\ UNCHANGED <<dns, replay, stop, mpc, input, block, qPkt, qEvt, stage, producer, n, late>>

\* Between two wake-ups the stop is seen, or epoll_wait() fails.
ReaderLeave ==
    /\ rpc = "wait"
    /\ rpc' = "out"
    /\ UNCHANGED <<dns, replay, stop, mpc, input, block, qPkt, qEvt, stage, producer, n, late>>

-----------------------------------------------------------------------------
(* formatter_thread_main() and dns_stage_thread_main()                     *)

\* Mutant of StageSeesStop: the loop only looks at the flag after a packet.
StageSeesStopBusy ==
    /\ spc = "busy" /\ ~draining /\ stop /\ draining' = TRUE
    /\ UNCHANGED <<dns, replay, stop, mpc, reader, qPkt, qEvt, spc, held, producer, n, late>>

StageSeesStop ==
    /\ spc = "idle" /\ ~draining /\ stop
    /\ draining' = TRUE
    /\ UNCHANGED <<dns, replay, stop, mpc, reader, qPkt, qEvt, spc, held, producer, n, late>>

\* In the loop and in the final drain alike.
StagePop ==
    /\ spc = "idle" /\ qPkt > 0
    /\ qPkt' = qPkt - 1
    /\ spc' = "busy"
    /\ UNCHANGED <<dns, replay, stop, mpc, reader, qEvt, draining, held, producer, n, late>>

\* Not an event: not the protocol, unparseable, encoding failed, sampled out.  An
\* allocation that fails counts here too, where the code only logs it
\* (formatter.c:424-425).
StageSkip ==
    /\ spc = "busy"
    /\ n' = [n EXCEPT !.skipped = @ + 1]
    /\ spc' = "idle"
    /\ UNCHANGED <<dns, replay, stop, mpc, reader, qPkt, qEvt, draining, held, producer, late>>

\* A DHCP message, an unmatched response, a query that found the table full.
StageEmit ==
    /\ spc = "busy"
    /\ PushEvt(0)
    /\ spc' = "idle"
    /\ UNCHANGED <<dns, replay, stop, mpc, reader, qPkt, draining, held, producer>>

\* A query enters the pending table.
StageHold ==
    /\ spc = "busy" /\ dns /\ held < TableCap
    /\ held' = held + 1
    /\ spc' = "idle"
    /\ UNCHANGED <<dns, replay, stop, mpc, reader, qPkt, qEvt, draining, producer, n, late>>

\* A response meets its query: two packets, one event.
StageMatch ==
    /\ spc = "busy" /\ dns /\ held > 0
    /\ held' = held - 1
    /\ PushEvt(1)
    /\ spc' = "idle"
    /\ UNCHANGED <<dns, replay, stop, mpc, reader, qPkt, draining, producer>>

\* The DNS stage pops nothing: a tick follows.
StagePopEmpty ==
    /\ dns /\ spc = "idle" /\ ~draining /\ ~stop /\ qPkt = 0
    /\ spc' = "tick"
    /\ UNCHANGED <<dns, replay, stop, mpc, reader, qPkt, qEvt, draining, held, producer, n, late>>

\* A pending query goes out unanswered: by that tick, or for a packet.
StageEvict ==
    /\ dns /\ held > 0
    /\ spc \in {"busy", "tick"}
    /\ held' = held - 1
    /\ PushEvt(0)
    /\ UNCHANGED <<dns, replay, stop, mpc, reader, qPkt, spc, draining, producer>>

StageTickEnd ==
    /\ spc = "tick"
    /\ spc' = "idle"
    /\ UNCHANGED <<dns, replay, stop, mpc, reader, qPkt, qEvt, draining, held, producer, n, late>>

StageLeave ==
    /\ spc = "idle" /\ draining /\ qPkt = 0
    /\ spc' = "out"
    /\ UNCHANGED <<dns, replay, stop, mpc, reader, qPkt, qEvt, draining, held, producer, n, late>>

-----------------------------------------------------------------------------
(* The redis producer, as q_evt sees it.                                   *)

ProducerPop ==
    /\ ppc = "run" /\ qEvt > 0 /\ inflight < PipelineMax
    /\ qEvt' = qEvt - 1 /\ inflight' = inflight + 1
    /\ UNCHANGED <<dns, replay, stop, mpc, reader, qPkt, stage, ppc, remaining, uncounted, n, late>>

\* do_flush(): the thread is in redisGetReply(), which has no timeout ...
ProducerSend ==
    /\ ppc = "run" /\ inflight > 0
    /\ ppc' = "flush"
    /\ UNCHANGED <<dns, replay, stop, mpc, reader, qPkt, qEvt, stage, inflight, remaining, uncounted, n, late>>

\* ... until the batch is acknowledged, refused or counted lost.
ProducerFlush ==
    /\ ppc = "flush"
    /\ n' = [n EXCEPT !.done = @ + inflight]
    /\ inflight' = 0
    /\ ppc' = "run"
    /\ UNCHANGED <<dns, replay, stop, mpc, reader, qPkt, qEvt, stage, remaining, uncounted, late>>

\* Mutant of ProducerLeave: what is in flight is forgotten.
ProducerLeaveInFlight ==
    /\ ppc = "run" /\ stop /\ qEvt = 0
    /\ ppc' = "out"
    /\ UNCHANGED <<dns, replay, stop, mpc, reader, qPkt, qEvt, stage, inflight, remaining, uncounted, n, late>>

\* Stopping and nothing to do at this moment.
ProducerLeave ==
    /\ ppc = "run" /\ stop
    /\ qEvt = 0 /\ inflight = 0
    /\ ppc' = "out"
    /\ UNCHANGED <<dns, replay, stop, mpc, reader, qPkt, qEvt, stage, inflight, remaining, uncounted, n, late>>

\* Five seconds after the stop: what is queued is sampled ...
ProducerDeadline ==
    /\ ppc = "run" /\ stop
    /\ remaining' = qEvt
    /\ ppc' = "drain"
    /\ UNCHANGED <<dns, replay, stop, mpc, reader, qPkt, qEvt, stage, inflight, uncounted, n, late>>

\* ... then popped until the queue is empty; the sample and the batch in flight
\* are counted as lost.
ProducerDrain ==
    /\ ppc = "drain"
    /\ n' = [n EXCEPT !.done = @ + remaining + inflight]
    /\ inflight' = 0
    /\ IF remaining > 0 THEN qEvt' = 0 /\ uncounted' = qEvt - remaining
       ELSE UNCHANGED <<qEvt, uncounted>>
    /\ ppc' = "out"
    /\ UNCHANGED <<dns, replay, stop, mpc, reader, qPkt, stage, remaining, late>>

-----------------------------------------------------------------------------
(* main() and the signal handler.                                          *)

Signal ==
    /\ ~stop
    /\ stop' = TRUE
    /\ UNCHANGED <<dns, replay, mpc, reader, qPkt, qEvt, stage, producer, n, late>>

\* pcap_replay_file(): main pushes the file's packets, stop or no stop ...
ReplayPush ==
    /\ mpc = "replay" /\ input > 0
    /\ input' = input - 1
    /\ PushPkt
    /\ UNCHANGED <<dns, replay, stop, mpc, rpc, block, qEvt, stage, producer>>

ReplayEnd ==
    /\ mpc = "replay" /\ input = 0
    /\ mpc' = "waitPkt"
    /\ UNCHANGED <<dns, replay, stop, reader, qPkt, qEvt, stage, producer, n, late>>

\* ... then polls the two queues, one after the other ...
ReplayPoll ==
    /\ \/ mpc = "waitPkt" /\ qPkt = 0 /\ mpc' = "waitEvt"
       \/ mpc = "waitEvt" /\ mpc' = IF qEvt = 0 \/ stop THEN "stopStage" ELSE "waitPkt"
    /\ UNCHANGED <<dns, replay, stop, reader, qPkt, qEvt, stage, producer, n, late>>

\* ... until the stop flag or the drain deadline ends the wait.
ReplayGiveUp ==
    /\ mpc = "waitPkt"
    /\ mpc' = "stopStage"
    /\ UNCHANGED <<dns, replay, stop, reader, qPkt, qEvt, stage, producer, n, late>>

\* Live capture: the stats loop ends with the stop; cf_rx_reader_stop() joins.
StopReader ==
    /\ mpc = "report" /\ stop /\ rpc = "out"
    /\ mpc' = "stopStage"
    /\ UNCHANGED <<dns, replay, stop, reader, qPkt, qEvt, stage, producer, n, late>>

\* formatter_stop() and dns_stage_stop() raise the flag before they join.
StopStage ==
    /\ mpc = "stopStage"
    /\ stop' = TRUE
    /\ mpc' = "joinStage"
    /\ UNCHANGED <<dns, replay, reader, qPkt, qEvt, stage, producer, n, late>>

\* Mutant of JoinStage: the engine is torn down without waiting for its thread.
JoinStageNoWait ==
    /\ mpc = "joinStage"
    /\ mpc' = "free"
    /\ UNCHANGED <<dns, replay, stop, reader, qPkt, qEvt, stage, producer, n, late>>

JoinStage ==
    /\ mpc = "joinStage" /\ spc = "out"
    /\ mpc' = "free"
    /\ UNCHANGED <<dns, replay, stop, reader, qPkt, qEvt, stage, producer, n, late>>

\* dns_stage_free(): main pushes the pending queries as unanswered.
FreePending ==
    /\ mpc = "free" /\ held > 0
    /\ held' = held - 1
    /\ PushEvt(0)
    /\ UNCHANGED <<dns, replay, stop, mpc, reader, qPkt, spc, draining, producer>>

FreeEngine ==
    /\ mpc = "free" /\ held = 0
    /\ mpc' = "joinProducer"
    /\ UNCHANGED <<dns, replay, stop, reader, qPkt, qEvt, stage, producer, n, late>>

\* cf_redis_producer_stop() joins; then the queues are destroyed.
JoinProducer ==
    /\ mpc = "joinProducer" /\ ppc = "out"
    /\ mpc' = "exit"
    /\ UNCHANGED <<dns, replay, stop, reader, qPkt, qEvt, stage, producer, n, late>>

-----------------------------------------------------------------------------

ReaderStep == ReaderWake \/ ReaderPush \/ ReaderWait \/ ReaderLeave
StageStep == \/ StageSeesStop \/ StagePop \/ StageSkip \/ StageEmit \/ StageHold
             \/ StageMatch \/ StagePopEmpty \/ StageEvict \/ StageTickEnd \/ StageLeave
\* What the producer does by itself: the end of a flush depends on Redis.
ProducerStep == ProducerPop \/ ProducerSend \/ ProducerLeave \/ ProducerDeadline \/ ProducerDrain
MainStep == \/ ReplayPush \/ ReplayEnd \/ ReplayPoll \/ ReplayGiveUp
            \/ StopReader \/ StopStage \/ JoinStage \/ FreePending \/ FreeEngine \/ JoinProducer

Next == ReaderStep \/ StageStep \/ ProducerStep \/ ProducerFlush \/ MainStep \/ Signal

\* Every thread is scheduled; nothing is said of a flush.  The drain deadline of
\* --replay, once passed, ends the polling at its next pass: strong fairness, the
\* test is not always reached.
Fairness ==
    /\ WF_vars(ReaderStep) /\ WF_vars(StageStep) /\ WF_vars(ProducerStep)
    /\ WF_vars(MainStep) /\ SF_vars(ReplayGiveUp)

Spec == Init /\ [][Next]_vars /\ Fairness

-----------------------------------------------------------------------------
(* Properties.                                                             *)

Counters ==
    [received : Nat, pktDrop : Nat, evtDrop : Nat, skipped : Nat, merged : Nat, done : Nat]

TypeOK ==
    /\ dns \in BOOLEAN /\ replay \in BOOLEAN /\ stop \in BOOLEAN /\ late \in BOOLEAN
    /\ mpc \in {"replay", "waitPkt", "waitEvt", "report", "stopStage", "joinStage", "free",
                "joinProducer", "exit"}
    /\ input \in 0..MaxPackets /\ block \in 0..MaxPackets
    /\ rpc \in {"wait", "walk", "out"}
    /\ qPkt \in 0..PktCap /\ qEvt \in 0..EvtCap
    /\ spc \in {"idle", "busy", "tick", "out"} /\ draining \in BOOLEAN
    /\ held \in 0..TableCap
    /\ ppc \in {"run", "flush", "drain", "out"} /\ inflight \in 0..PipelineMax
    /\ remaining \in 0..EvtCap /\ uncounted \in 0..EvtCap
    /\ n \in Counters

Resolved == n.pktDrop + n.evtDrop + n.skipped + n.merged + n.done

\* main(): "stop the input stage first so the formatter and producer drain what
\* is still queued (both stop() calls drain)".  At exit nothing is left behind:
\* every packet received was dropped, skipped, merged, delivered or lost, and
\* counted as such.
LosslessShutdown == mpc = "exit" => n.received = Resolved

\* As far as the code keeps it: whenever every thread outlives the one that
\* feeds it, whatever the order of their steps.
LosslessUnlessLate == late \/ LosslessShutdown

\* cf_queue.h allows one producing thread per queue, and the engine and the
\* queues are freed under nobody's feet: main touches the correlator and pushes
\* onto q_evt only when the stage thread is gone, and returns only when all are.
JoinedBeforeTeardown ==
    /\ mpc \in {"free", "joinProducer", "exit"} => spc = "out" /\ rpc = "out"
    /\ mpc = "exit" => ppc = "out"

\* What the code takes for granted of Redis: redisGetReply() is called without a
\* timeout (cf_redis_producer.c:273), so that once a stop is asked for, a flush
\* comes back only if Redis answers or the connection breaks.  The run
\* redis_producer_silent_server shows what happens when it does neither.
RedisAnswers == (stop /\ ppc = "flush") ~> (ppc # "flush")

\* "kill -TERM during replay exits 0": a stop request ends the process, and so
\* does the end of a replay, provided that a flush under way comes back.
ShutdownEnds == RedisAnswers => ((stop \/ replay) ~> (mpc = "exit"))

=============================================================================
