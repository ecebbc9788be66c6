# A verification project for cloudflow

cloudflow captures DHCP and DNS packets, turns them into protobuf events, ships
the events through Redis Streams and delivers them to Splunk or ClickHouse. This
directory holds TLA+ modules of the parts that carry its guarantees, TLC
configurations that check them on small instances, and TLAPS proofs of the
results that hold for every size. `PROJECT.json` maps each definition to the
lines it models, and lists runs, mutants, findings, hazards and theorems.

    tlc -workers 2 -config SpscQueue.cfg MCSpscQueue     # any run of PROJECT.json
    tlapm SpscQueueProofs.tla                            # any proof module

## 1. The system

    interface or pcap --> q_pkt --> event stage --> q_evt --> redis producer --> Redis stream
        rx reader                 DHCP formatter                                     |
        --replay                  DNS stage + correlator                             v
                                                  HTTP destination <-- sink process(es) of one group

A source daemon (`sources/`) is one process: a thread each for input, stage and
producer, two queues between them, and a main thread that starts, reports and
stops them. A sink (`sinks/`) is a single-threaded process around
`cf_sink_run()`; several of them may share a consumer group.

| component | state | operations | what makes it correct | module |
|---|---|---|---|---|
| SPSC queue, `cf_queue.c` | two indices, ring of slots | push, pop, drop, length | bounded FIFO, whole elements, no locks | `BoundedFifo`, `SpscQueue` |
| full policy, `cf_queue_policy.c` | drop counter | push under drop_newest, drop_oldest, block | every drop counted; never blocks for ever | `SpscQueue` |
| stop flag, `cf_sync.c` | one flag per process | signal, notify | every loop sees it | all thread modules |
| DNS correlator, `correlation.c` | slot table, hash chains, FIFO, free list, counters | query, response, tick, free | each context handed back once; counters add up; newest query matched; the lists agree | `PendingQueries`, `DnsCorrelator` |
| Redis producer, `cf_redis_producer.c` | pipeline, connection, counters | connect, append, flush, retry once, drain | every event acknowledged, refused or counted; stop returns | `RedisProducer` |
| source daemons, `main.c`, `formatter.c`, `dns_stage.c`, `cf_rx_reader.c`, `cf_pcap_replay.c` | thread states, queue lengths | start, replay, stop and join in order | nothing lost at shutdown; no thread outlives its data | `SourcePipeline`, `Startup` |
| DNS stage, `dns_stage.c`, `leg_classify.c`, `sampling.c`, `stats.c` | correlator, tick counter, counters shared with the reporter | process a packet, tick, free, report | answers captured in time are paired; every packet in one transaction; counters survive a reset | `DnsStage` |
| filter, decapsulation, parsers, formatter: `cf_bpf.c`, `d*_bpf.c`, `cf_decap.c`, `cf_dns.c`, `cf_dhcpv4*.c`, `cf_dhcpv6*.c`, `formatter.c` | none | one packet from the wire to the event | what is reported is what was sent; a loss is reported | `CaptureFilter`, `Decap`, `DnsMessage`, `Dhcpv4`, `Dhcpv6`, `PacketPath` |
| configuration, `config.c` of the five daemons, `cf_sink_config.c` | settings | load, environment | what runs has settings its parts are correct under | `SourceConfig`, `SinkConfig` |
| start and exit of the daemons, `main.c`, `cf_sink_run.c` | resources held | acquire, refuse, stop, release | nothing is used after it is released, all is released | `Startup` |
| sink spine, `cf_sink_consumer.c`, `cf_sink_httpdeliver.c`, `cf_sink_deadletter.c`, `cf_sink_run.c` | batch, a claim cursor per stream, connection; Redis: pending entries | reclaim, read, deliver, bisect, acknowledge, dead-letter, reconnect | acknowledged only with an outcome; everything resolved in the end | `SinkConsumer` |
| cluster routing, transforms, statistics lines, logging, protobuf code | none or little | I/O and formatting | | not modelled, section 7 |

Hard behaviours: lock-free interleavings in the queue; one process-wide stop
flag that pipeline stages see in any order; connections that break with
commands executed but not answered; a retry that may add an event twice; entries
claimed by a second process while the first still retries them; crashes between
delivery and acknowledgement; deadlines that pass at the wrong moment; intrusive
lists changed by several paths; two clocks of which one runs ahead of the packets
still in the capture ring; counters that one thread adds to and another resets;
lengths and offsets that a packet supplies; a start that fails half-way.
`PROJECT.json` lists them as hazards, each at its line and with the properties that
would notice it going wrong.

## 2. The modules and the code

**BoundedFifo** is what `cf_queue_t` promises: push, refuse, evict, pop on a
sequence with a bound, a list of what was delivered and a count of drops.

**SpscQueue** is the ring itself. The grain is one atomic load or store, and the
`memcpy` of an element is two steps: a slot being written holds `Torn`, and a
copy whose slot changed under it is `Torn`. That makes a data race a visible
value. Three threads act: the producer (`Push...`, `Refuse`, `BlockRetry`,
`Drop...` together are `cf_queue_push_policy()`), the consumer (`Pop...`,
`Length...`) and the main thread, which reads lengths (`Observe...`). Indices
wrap at the ring size; one slot stays free, as in the code. The acquire/release
pairs of `cf_queue.c` are what justifies sequentially consistent steps.
`overlap` is a history variable: an eviction by the producer met an operation of
the consumer. `RefinesBoundedFifo` and its run show that up to that moment the
ring is a `BoundedFifo`.

**CorrelatorConfig, PendingQueries, DnsCorrelator.** `PendingQueries` is the
contract of `correlation.h`: a set of pending queries, what was handed back,
what responses matched. `DnsCorrelator` is the implementation: `t` is
`struct cf_dns_correlator`, with index links between slots; the helpers
`fifo_append`, `fifo_unlink`, `entry_release`, `entry_find`,
`evict_as_unanswered` and `evict_expired` keep their names. A call of the public
interface is one action, as the correlator is used by one thread. A hash
function is a parameter, so that keys can be made to collide. `Walk` follows the
`hnext` or the `fifo_next` links as the loops of the code do; `pending`,
`handedBack` and `matches` read the contract's variables off the table, its slots
in use and its `emit()` calls.

**RedisProducer** is the producer thread with its control points, hiredis'
output buffer, the commands on each connection's wire (which Redis may execute
after the connection is gone) and the replies coming back. Around it are a
feeder, a stop request, the shutdown deadline and connections that break.

**SourcePipeline** is a daemon from start to exit, for both daemons, live and
`--replay`. Queues are their lengths, which `SpscQueue` justifies; the correlator
is the number of pending queries; the producer is what it pops and when it
leaves. A flush has a beginning (`ProducerSend`) and an end that depends on Redis
(`ProducerFlush`). At its deadline the producer samples the queue's length
(`ProducerDeadline`) and then empties the queue (`ProducerDrain`): what was pushed
in between is popped and not counted, and `uncounted` keeps its number. The tick
of the DNS stage that follows an empty pop (`StagePopEmpty`, `StageTickEnd`) is
not atomic with that pop. `late` is a history variable: something was pushed for
a thread that had left, or had taken its last look at the queue's length.

**SinkConsumer** has one record per process (its program counter, stop flag,
Redis context, a claim cursor per stream, the reply being processed, the batch,
the ranges `send_range()` has yet to send and its result arrays) and Redis as the
group sees it (the streams that have the group, entries handed out, pending
entries with owner and idle flag, acknowledged entries, the dead-letter stream).
The groups are created one stream after the other (`EnsureGroup`), and the
streams are reclaimed one after the other with no flush in between (`Reclaim`,
`NextStream`); one XREADGROUP reads them all, up to `read_count` entries of each
(`New`, `Read`). A `read_count` below 1, which the loader lets pass, is 0: every
XAUTOCLAIM is refused, and XREADGROUP has no limit. Every Redis command has the outcomes answered, refused,
executed with the reply lost, and not executed; every request is accepted,
rejected, or retried with or without having been accepted. The recursion of
`send_range()` is the stack `work`.

**DnsStage** is the stage between capture, time and the reporter. The correlator
is `PendingQueries`, which `DnsCorrelator` implements: every action that calls it
is a step of `PendingQueries` together with the `emit()` calls it makes
(`EmitAll`), the sampling decision of each, and the synchronisation of the
counters at the end of the stage's call. `Capture` and `Advance` are the kernel's
packet ring and the wall clock: a packet is stamped at capture and reaches the
stage's queue at most `RingDelay` later. An idle stage finds its queue empty
(`PopEmpty`) and then reads the wall clock for a tick (`IdleTick`), at most
`PollDelay` later: packets are captured and handed over and time passes in
between. Both delays are parameters; the code bounds neither. `ReplayPacket` is `--replay`: old capture times,
the present wall clock. The every-n-packets tick is an action of its own because
the reporter may run between the two halves of a call.

**Wire, Decap, CaptureFilter, DnsMessage, Dhcpv4, Dhcpv6, PacketPath.** The
data path of one packet, as functions on byte sequences. `CaptureFilter` has the
assembler of `cf_bpf.c`, both filter programs and an interpreter of classic BPF;
`Decap` the walk from Ethernet to UDP or TCP; the three parsers keep the source's
functions, limits, clamping and warnings (a 32-bit field that is only passed on
stays its four bytes; numbers and addresses are not formatted). `PacketPath` puts
them in the order of the two sources. `WireReference` is not a model of this
code: it encodes messages that are given as descriptions, and the invariants of
`PacketPath` compare what came out with the description that went in.

**ConfigNode, SourceConfig, SinkConfig.** The YAML documents as libyaml hands
them over, and the five loaders. The sources walk the pairs in order over the
defaults, so the last usable value of a key counts; the sinks look keys up, so
the first does. A scalar has its text, its value if it is a number, and the value
`strtol()` finds at its start, which is all the loaders tell apart.

**Startup** is `main()` of each daemon: load, acquire one resource after another,
run, release. `Refused` may happen at each step, for a setting the component
rejects or because the system does; `CleanupOrder` is the order of the cleanup
label. `Deployments` may be any set of daemons with their files.

## 3. The runs

Passing runs, with what bounds them:

| run | instance | what it shows |
|---|---|---|
| `spsc_queue` | 3 slots, 4 elements, 2 retries, 3 policies | FIFO refinement, whole elements, exact drop accounting, both uses of the length, push returns |
| `dns_correlator` | 2 slots, 3 keys on 2 chains, 4 queries, 1 response, times 0..2, timeout 1, both policies | the lists agree, the contract is implemented, a tick leaves nothing expired while time does not go back |
| `redis_producer` | 4 events (one unroutable), queue 2, pipeline 2, 3 connections | accounting through break, retry and drain; acknowledged events are in the stream; at most two copies; stop returns |
| `source_pipeline` | 4 packets, queues 2, pipeline 2, table 2, 4 configurations | shutdown ends if Redis answers or breaks, joins precede teardown, nothing is lost unless something was pushed for a thread that had left |
| `sink_consumer` | 1 process, 2 streams, 4 entries of the 4 kinds, replies of 2 per stream, batch 2, 2 mishaps, 4 configurations | outcomes before acknowledgements, bisection, bounded batch, stop returns if Redis answers or breaks |
| `sink_group` | 2 processes, 1 stream, 1 rejected entry, 2 mishaps | every entry handed out is acknowledged in the end |
| `dns_stage` | 3 packets out of 6 kinds, times 0..4, timeout 3, ring delay 1, poll delay 1, table 2, a tick every 2 packets, 1 fault, 1 report, live and replay | `AnsweredIsObserved`, `TransactionsAccounted`, `CountersSurviveReset` |
| `packet_path` | about 170 frame shapes, each whole and cut after every byte; DNS, DHCPv4 and DHCPv6 messages with every record and option decoder, each whole and ending at chosen bytes | what filter, decapsulation, parsers and formatter report is what was sent, or less and marked |
| `startup` | each key of each source with 20 kinds of values, once, and 6 kinds twice; each key of each sink; pairs of sinks; a failure at each step | `SettingsSound`, `NothingPulledAway` |

Why these sizes are enough to be interesting. A ring of three slots has an empty,
a part-full and a full state and wraps within four elements. Two correlator slots
with three keys reach the full table, collisions on one chain, and replacement at
the head and at the tail of the FIFO and of a chain. A pipeline of two breaks
before, between and after its replies, and three connections are the first, the
retry and one more break. A batch of up to three items (one, and what both streams
add) is bisected into unequal halves; three of the four entries are in the first
stream, so that a reply of two leaves its claim cursor in the middle. A *mishap* is a lost or refused command, a crash or
a SIGTERM; two of them cover a failure during the recovery from a failure. The
group has one entry because the processes meet only in the pending state of an
entry: both may hold it in a batch, claim it from each other and settle it.

Three packets of the DNS stage are a query, its answer and a third that displaces,
duplicates or drives a tick; a table of two fills and evicts; time 4 is past the
timeout, and a timeout of 3 leaves a window of one unit after the two delays. The frame shapes are the products of what the walk branches on: tags, IP
options, extension headers (up to one more than the limit), first and later
fragments, offloaded lengths, padding, ports. Long DHCPv4 options are cut at every
two places, over the three fields and with two pieces in one; DHCPv6 options carry
nested lengths that exceed them. The settings are independent of each other in the loaders, so one key at a
time, with a second occurrence of it, meets every path. `W` is 24 there, not 32:
`UInt32Max + 1` must be a number TLC can represent, and the loaders' conversions
are parameterised by the width.

No fairness is stated in `dns_stage`, `packet_path` and `startup`: their
properties are safety properties.

Deadlock is not checked: each system may stop (the bounded input is used up, or
the process has exited). What must not stop is stated as a liveness property.

Runs that end in a violation, each a disagreement between the code and its own
documentation (`findings`):

- `redis_producer_silent_server`: only the connect has a timeout; a Redis that
  is connected and does not answer holds the thread and the join in `main()`.
- `source_pipeline_shutdown_loss`: the stop flag reaches the producer and the
  stage before their feeders are done; what is pushed later is lost uncounted.
- `sink_clean_exit`: after a reconnect `cf_sink_run()` frees a context that the
  consumer has freed before.

Observations that the models show and no run asserts:

- Under `drop_oldest` the producer advances `tail` while a pop is running, so
  that pop may return a mixture of two elements, contrary to `cf_queue.c:34-35`
  (`NeverTorn` of `SpscQueue` is violated as soon as the policy is allowed). No
  daemon can be configured so: the loaders map the word to `drop_newest`, with a
  warning (`SettingsSound`; `config.c:135-141` of the DHCP source, `137-143` of the
  DNS source), as `configs/examples/dns-source.yaml:35-38` says. Three documents
  say otherwise: `docs/architecture.md:152-153`, `docs/dhcp-source.md:51` and
  `docs/failure-modes.md:10-15` list `drop_oldest` as a policy that can be
  configured and that discards the oldest item.
- `docs/failure-modes.md:29-35` says that a batch whose one retry fails "is
  dropped" and counted, with "no unbounded blocking", and that "once it is
  unreachable past one retry, loss is counted". That is so only when the second
  connection breaks. When there is none to be had, `do_flush()` waits for one
  without a deadline (`connect_with_backoff()` with `INT64_MAX`,
  `cf_redis_producer.c:341`) until a stop is requested: the batch is kept, nothing
  is counted in `events_lost_total`, and the loss shows as drops of the queues
  behind it. `LostWereTried` states what the code does.
- `docs/dns-source.md:41-43` says that DNS messages over several TCP segments are
  "counted and emitted as `dns.message.partial`"; `dns_stage.c:346-351` counts them
  (`dns_tcp_partial`) and emits nothing.
- An IPv6 packet with exactly eight extension headers is reported as too deep:
  the loop ends after its eighth header without a look at what follows
  (`cf_decap.c:288-348`), where `cf_decap.c:47-49` gives eight as the number walked
  on the way to the L4 header. The reference of `PacketPath` goes by the comment,
  and `DecapFaithful` excepts that chain by name (`LongestChain`).
- A Redis that holds a connection and does not answer keeps a stopped sink as it
  keeps a stopped source: `cf_sink_run.c:35` connects without any timeout,
  `cf_sink_consumer.c:525` with one for connecting only, and no command has one.
  With `block_ms: 0` a healthy Redis does the same in XREADGROUP until an entry
  arrives, and with a request timeout of 0 a destination does it in libcurl.
  Without `RedisAnswers` `StopReturns` fails.
- With a `read_count` below 1 a sink never reclaims: every XAUTOCLAIM is refused,
  and an entry whose process died stays pending (`EventuallyResolved` fails there
  and has `ReadCount > 0` as a premise).
- A sink's batch is bounded by `batch_size` plus `read_count` per stream, not per
  reply: `reclaim_all()` goes through all streams before the batch is tested.
- The flush at shutdown is made when the stop flag is up, and `send_range()`
  returns on that flag before its first request (`cf_sink_httpdeliver.c:111`), so
  that it sends nothing, where `docs/splunk-output.md:72` says "flush the
  in-flight batch once". Nothing is lost: the entries stay pending until somebody
  claims them.
- `AnsweredIsObserved` is tight: with the timeout less one delay only it fails. An
  idle tick goes by the wall clock while the answer still sits in the ring, or was
  pushed between the empty pop and the clock read (`dns_stage.c:1017`, `1020`): a
  stage that is held up there evicts a query whose answer is already queued. Under `--replay` of an old capture any idle
  tick evicts all pending queries.
- `dns_build_key()` says the two halves of a transaction get the same key
  (`dns_stage.c:384-387`); with both ports 53 they do not, and both are reported
  alone.
- An event that a full `q_evt` drops is counted as emitted and as dropped.
- A DNS message that ends inside the owner name of a record gives no warning,
  where `cf_dns.c:13-14` says any structural inconsistency does; a name in RDATA
  may run past the record's length.
- A DHCPv6 message that ends inside the code and length of an option is reported
  with the bytes of that header as an option's value.
- The filter is narrower than the decapsulation behind it: 802.1ad tags, two tags
  and IPv6 extension headers are read from a capture file and never seen live.
- The Splunk metrics sink without `consumer_group` joins the group of the Splunk
  sink, and the two share its entries; `docs/redis-streams.md:67` says "Every sink
  type reads through its own consumer group".
- `redis.endpoints: []` clears the endpoints of the DNS source, and the producer
  then refuses to start; the DHCP source keeps its defaults.
- The sinks read numbers with `strtol()` and check none: `read_count: x` is 0.
- A sink whose running phase fails exits with status 0; `cf_consumer_init()` that
  fails half-way leaves its cursors.

Where a promise fails only in such a case the passing runs check the rest of it:
`...UnlessOverlap`, `...UnlessLate`.

Every property of a passing run has a mutant: a definition of the module,
changed the way a slip in the code would change it, under which TLC finds the
property violated. The mutants stand before the definitions they replace.

## 4. Fairness

- `SpscQueue`: weak fairness of the producer's steps. A thread inside
  `cf_queue_push_policy()` is scheduled; nothing is assumed of the consumer.
- `RedisProducer`: weak fairness of the thread and of the passing of the
  deadline. `StopReturns` needs in addition that a connection that is up
  answers, which the code does not enforce; without it
  (`redis_producer_silent_server`) the property fails.
- `SourcePipeline`: weak fairness of each thread, but nothing of the end of a
  flush, which depends on Redis. `ShutdownEnds` has it as a premise
  (`RedisAnswers`): once a stop is requested, a flush under way comes back. The
  code does not enforce it, which is what `redis_producer_silent_server` is about.
  Strong fairness of `ReplayGiveUp`: a deadline that has passed stays passed, but
  the polling loop is at its test only now and then.
- `SinkConsumer`: weak fairness of what a process does by itself, and of commands
  on a connection that is broken or was never made, which return at once. Of a
  command on a connection that is up nothing is assumed in `FairSpec`; both
  liveness properties have as a premise that it is answered or the connection
  breaks (`RedisAnswers`). Under it `StopReturns` holds with a destination that
  never answers for good and a Redis that accepts no connection.
  `EventuallyResolved` assumes besides `Recovering`: the destination gives a final answer in the end, Redis accepts
  connections again, a batch that is not sent becomes due (strong, since the
  test is reached now and then and elapsed time only grows), a pending entry
  becomes idle; and that some process of the group keeps running. Crashes and
  lost commands are bounded by `MaxMishaps`.

## 5. What is proved

`SpscQueueProofs`, for every ring size of at least two, number of elements,
retry bound and set of policies:

- `TypeCorrect`, `NeverTornCorrect`, `ConservedCorrect`, `ConsumerLengthCorrect`,
  `ObservedZeroCorrect`: the invariants that the run checks;
- `NeverTornWithoutDropOldest`: without `drop_oldest` the promise of
  `cf_queue.c` holds with no exception;
- `RefinesBoundedFifo`: each step is a step of `BoundedFifo` or a stutter, up to
  an overlap.

None of these is inductive alone. `IndInv` adds what each thread knows between
its loads and its store: the producer's slot is outside the queued region and
complete before it is published; the consumer's copy of `tail` is current and
its element is the slot's; a length read by the consumer can only be too small;
the main thread's copy of `head` is current until a push completes; queued slots
hold elements. The lemmas on `After` and `Length` carry the modular arithmetic:
advancing `head` occupies exactly one slot more, advancing `tail` occupies none.

`PendingQueriesProofs`, for every capacity, timeout, eviction budget, set of keys
and policy: `HandedBackOnceCorrect`, `BalancedCorrect`, `NewestWinsCorrect`. The
inductive invariant is their conjunction with the bound on the table: counting
what leaves the pending set needs it to be finite, and at most one of its members
to have the key of a new query. The lemmas on cardinality rest on
`FiniteSetTheorems`.

`DnsCorrelatorProofs`, for every capacity, number of buckets, hash function,
timeout, budget and policy: `Refinement` (each public call on the linked structure
is the call of `PendingQueries`), `ListsAgreeCorrect`, `ResponsesPassedOnCorrect`,
`TickEvictsAllExpiredCorrect`, `TypeCorrect` and, by the refinement,
`HandedBackOnceCorrect`, `BalancedCorrect` and `NewestWinsCorrect`.

- A list is a set of slots and a rank that falls along its links (`Linked`), so no
  sequences are needed. The FIFO is ranked by context number, the chains and the
  free list by when a slot was put in front.
- What an operation does to a list is one of `PutFirst`, `PutLast` and `TakeOut`,
  and each gives a list again. A walk of a list visits its slots and no others
  (`UpTo`, an induction over sets of numbers), which is what makes `entry_find()`
  find and the search in `entry_release()` succeed.
- `Shape` and `Well` say that one set of slots is in use: the FIFO and the chains
  are made of it, the free list of the rest, no two of its entries share a key.
  Each function of `correlation.c` has a lemma that says what it does to a well
  formed table (`ReleaseEffect`, `EvictEffect`, `ReplaceEffect`, ...).
- `evict_expired()` and `cf_dns_correlator_free()` are loops: after n rounds they
  have taken the n oldest queries, or as many as had expired (`Prefix`), and that
  is the expired prefix that `PendingQueries` takes at once.
- `CorrInv`, the inductive invariant, adds that the entries are queries of the
  history and that every response was passed on once. The invariant of
  `PendingQueriesProofs`, read through the refinement mapping (`PP`), then carries
  its three results over (`Inherited`).

`SourcePipelineProofs`, for every queue, table and pipeline size and number of
packets, in all four configurations: `JoinedBeforeTeardownCorrect`,
`LosslessUnlessLateCorrect` and `LostOnlyInQueuesCorrect`. The last has no
exception: whatever the order in which the threads see the stop flag, what is
missing at exit lies in a queue or was popped uncounted by the producer's drain.
The inductive invariant is a conservation law
(`Conserved`: received packets are resolved, `uncounted` or at one of five places), the order
of the joins, and that a thread leaves with its own queue and its hands empty.

`RedisProducerProofs`, for every queue, pipeline, number of events and of
connections: `AccountedUnlessLateCorrect`, `NoSilentLossUnlessLateCorrect`,
`AckedWereAddedCorrect`, `AtMostTwiceCorrect` and the action property
`LostWereTriedCorrect`. `IndInv` has three parts. `Structure` says where the
thread has a connection and which locals are reset where. `Accounting` balances
numbers and sets of events. `Delivery` is the heart: `Aligned` says that replies,
commands on the wire and commands buffered are, in this order, the unanswered
part of `inflight`, which is why a reply belongs to the command it is counted
for; `Paid` says that each execution of a command, made or still possible on any
connection given up, is paid for by one `append`, of which there are at most two.

`SinkConsumerProofs`, for every number of processes, streams and entries, every
read count and batch size (0 standing for what is below 1) and number of mishaps: `TypeCorrect`, `AckedHaveOutcomeCorrect`,
`OnlyBadDeadLetteredCorrect`, `SentInPartsCorrect`. The invariant is local to a
process (`Local`): its batch has a size that depends on where it is and grows with
each stream of a round by no more than that stream's share (`Sized`, `Within`),
the reply and the ranges are empty where they should be (`Placed`), its result
arrays agree with the destination (`Justified`), and the ranges still to be sent
partition what is not settled (`Parted`). The processes interfere only by adding
to what was received and dead-lettered, which weakens no process' part. That
XAUTOCLAIM's reply can be put in order at all (`CanBeOrdered`) is proved by a
least counterexample over the finite sets of entries.

`DnsStageProofs`, for every set of packets and capture times, timeout, ring and
poll delay, table size, tick period, budget and sampling: `AnsweredIsObservedCorrect`,
`TransactionsAccountedCorrect`, `CountersSurviveResetCorrect`. It instantiates
`PendingQueriesProofs` and uses that module's invariant for the correlator. What
has to be added:

- `InTime`: live, packets come in the order of capture, and none in the ring is
  older than `RingDelay`; `tickAt` is not ahead of anything still to come;
- `Idle`: since an empty pop the clock has advanced by `PollDelay` at most, and what
  was handed over since was captured no earlier than `RingDelay` before that pop;
- `Departures`: a query that is no longer pending was displaced, matched, or is
  so old that no answer still to come was captured in time. This is what makes
  `AnsweredIsObserved` inductive: each of the two sweeps, by the wall clock and by
  capture time, may evict only what satisfies it;
- `Ledger`: what the stage took over from the correlator's counters is what was
  reported plus what is shared;
- `Books` and `Totals`: the events of a query are as many as its context was
  handed back, of which `HandedBackOnce` makes at most one; the counters are
  numbers of events.

`StartupProofs`, for every deployment, every content of the files and the
environment and a failure at every step of a start: `NothingPulledAwayCorrect`
and `SettingsSoundCorrect`. For the first:
Until a daemon is up it holds exactly what it has acquired so far, so that what it
uses is there (`AcquiredInOrder`, a table of the orders of the five daemons); the
cleanup may start from any prefix of that order, plus what a step that failed left
behind, and keeps the held resources closed under `Uses` because its order reverses
the uses (`ReleasedInOrder`). The loaders do not matter there: `cfg` is any value.

`SettingsSoundCorrect` is about the loaders, for documents of any length: sections
and keys in any order and any number of times. The two nested loops over a document
are recursive functions over its positions; `SectionLoop` and `FileLoop` show that
those functions exist and go on from round to round, and `EveryRound` carries a loop
invariant to the last round. It quantifies over a *set* of rounds, taken as the
rounds at which the invariant holds, and follows from the well-foundedness of `<` on
the naturals, in place of an induction theorem with an operator as its parameter.
The loop invariants are `SectionRead` and `SettingTo`: after n rounds a setting is
the last acceptable value among those read so far, or what it was before; a pair
changes at most the one setting it names (`SetKeyEffect`). The bounds then come from
three places, as in the code: from the parsers (`ParsedIs`: no word makes
`drop_oldest`, a report interval is not 0), from the component that clamps
(`PipelineMax`, `FlushInterval`), and from the components that refuse what they are
given (`AllAccepted`), which `Settled` remembers up to the moment the daemon is up.
It is assumed of a source's document that it is one: the pairs of a mapping are a
list, a number is an integer (`IsDocument`). A sink's document is not restricted.

The assumptions are the named `ASSUME`s of the modules; TLC evaluates them. The
inductive invariants of the pipeline, the producer, the sink and the stage were
model-checked on the instances of their runs before they were proved.

The finite-set lemmas that several modules need (a first element, the size of
what is left, the number of positions of a list) are proved where they are used,
from `FiniteSetTheorems` and, in place of induction, from the well-foundedness of
strict inclusion.

## 6. What is only model-checked

- All liveness (`StopReturns`, `ShutdownEnds`, `EventuallyResolved`, that push
  returns): fairness and `ENABLED` are out of the prover's reach.
- `PacketPath`: the walks of `Decap` and of the parsers are `RECURSIVE` operators,
  which the prover cannot reason about. As recursive functions over positions they
  would be open to the argument of `SettingsSoundCorrect`; that is not done.

## 7. What is left out

- Allocation failures. The sinks mostly leave entries pending. The DHCP formatter
  only logs that a packet is dropped (`formatter.c:424-425`), which `StageSkip`
  counts as skipped and `PacketPath` as `failed`; the DHCPv4 parser then returns no
  event (`cf_dhcpv4.c:456-464`, `541-555`).
- The check of the filters' size against the caller's array (`a.n > max`,
  `dns_bpf.c:88`, `dhcp_bpf.c:70`): both programs are constant and shorter.
- Redis loses nothing and trims nothing; `MAXLEN ~` is a matter of capacity.
- A destination rejects a single item only for its content. A destination that
  answers every request with, say, 403 makes the code dead-letter healthy
  entries: `OnlyBadDeadLettered` is about the bisection, not about that policy.
- The lag gauge, statistics and log lines, backoff lengths, endpoint rotation.
- The DHCP reporter, which reads plain counters; the framing of a pcap file.
- A connect that fails when a sink starts: the process ends with status 1 before
  it has any state, and the service manager starts it again.
- Redis cluster routing (`cf_redis_cluster.c`, `cf_redis_slot.c`): a library with
  tests that no executable calls.
- Generated protobuf code, the transforms of the sinks (JSON, metrics, rows:
  field-by-field formatting of one event, without state), event ids and hashing,
  YAML syntax, libcurl and socket set-up.
- Of the sample hash only that a key is kept or not; of `inet_pton()` nothing.

## 8. Plan

Done, in this order: the queue (everything rests on it), the correlator, the
producer, the daemon around them, the sink spine; then the DNS stage, the packet
path, the configuration and the start of all daemons.

Then proofs: the pipeline, the producer, the sink, the DNS stage, start and
exit, the linked table of the correlator with its refinement, and the settings. Left:
`RedisProducer` shown to implement the producer of `SourcePipeline`.
