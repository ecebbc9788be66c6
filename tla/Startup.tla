------------------------------ MODULE Startup -------------------------------
(***************************************************************************)
(* The main() of the five daemons around their running phase: load the     *)
(* configuration, acquire one resource after another, run, release.  Every *)
(* step of the start may fail, because a setting is refused or because the *)
(* system refuses; main() then goes to its cleanup label.  The two sinks   *)
(* on Splunk and the one on ClickHouse share cf_sink_run().                *)
(***************************************************************************)
EXTENDS SourceConfig, SinkConfig

CONSTANT Deployments   \* functions from daemons to [file, env, offline]; offline is
                       \* --replay for a source and --stdout for a sink

Sources == {"dhcp", "dns"}
Sinks == {"splunk", "metrics", "clickhouse"}

ASSUME DeploymentsAssumption ==
    \A deployed \in Deployments : \A d \in DOMAIN deployed :
        /\ d \in Sources \cup Sinks
        /\ deployed[d].offline \in BOOLEAN
        /\ d \in Sources => IsDocument(deployed[d].file)

VARIABLES deployment,
          pc,      \* of each daemon: load, start, running, cleanup, exited
          cfg,     \* <<>> or <<the configuration loaded>>
          tried,   \* how many resources it has tried to acquire
          held,    \* the resources it holds
          status   \* the exit status so far
vars == <<deployment, pc, cfg, tried, held, status>>

Daemons == DOMAIN deployment

\* The resources in the order main() acquires them.
SourceOrder(d, offline) ==
    LET input == IF offline THEN "replayed" ELSE "rx_reader"
    IN  IF d = "dns" THEN <<"q_pkt", "q_evt", "local_addrs", "backend_addrs", "role_map", "endpoints", "producer",
                            "stage", input>>
        ELSE <<"q_pkt", "q_evt", "endpoints", "producer", "stage", input>>
SinkOrder(d, offline) ==
    IF offline THEN <<"redis", "consumer">>
    ELSE IF d = "clickhouse" THEN <<"curl", "client", "redis", "consumer">>
    ELSE <<"redis", "curl", "client", "consumer">>
Order(d) ==
    IF d \in Sources THEN SourceOrder(d, deployment[d].offline) ELSE SinkOrder(d, deployment[d].offline)

\* Mutant of CleanupOrder: the queues go before the threads that use them.
CleanupOrderQueuesFirst(d) ==
    IF d \in Sources
    THEN <<"q_evt", "q_pkt", "rx_reader", "stage", "producer", "local_addrs", "backend_addrs", "role_map",
           "endpoints", "config">>
    ELSE <<"consumer", "client", "redis", "curl", "config">>

\* The order of the release.
CleanupOrder(d) ==
    IF d \in Sources
    THEN <<"rx_reader", "stage", "producer", "q_evt", "q_pkt", "local_addrs", "backend_addrs", "role_map",
           "endpoints", "config">>
    ELSE IF d = "clickhouse" THEN <<"consumer", "redis", "client", "curl", "config">>
    ELSE <<"consumer", "client", "redis", "curl", "config">>

\* cf_redis_producer_start(): its bounds for the settings it is given.
PipelineMax(c) ==
    IF c.redis.xadd_batch_size = 0 THEN 512
    ELSE IF c.redis.xadd_batch_size > 4096 THEN 4096 ELSE c.redis.xadd_batch_size
FlushInterval(c) == IF c.redis.xadd_flush_interval_ms = 0 THEN 100 ELSE c.redis.xadd_flush_interval_ms

QueueCapacity(d, c, q) ==
    c.queues[IF q = "q_pkt" THEN (IF d = "dns" THEN "rx_to_stage_capacity" ELSE "rx_to_formatter_capacity")
             ELSE IF d = "dns" THEN "stage_to_redis_capacity" ELSE "formatter_to_redis_capacity"]

\* Whether a component accepts the settings it is started with: cf_queue_init(),
\* cf_redis_producer_start(), cf_dns_correlator_new().
Accepts(d, r, c) ==
    CASE r \in {"q_pkt", "q_evt"} -> QueueCapacity(d, c, r) >= 2
      [] r = "producer" -> c.redis.endpoints # <<>>
      [] r = "stage" /\ d = "dns" -> /\ c.dns.query_timeout_ms > 0
                                     /\ c.dns.pending_table_capacity \in 1..IntMax
      [] OTHER -> TRUE

------------------------------------------------------------------------------
Init ==
    /\ deployment \in Deployments
    /\ pc = [d \in Daemons |-> "load"]
    /\ cfg = [d \in Daemons |-> <<>>]
    /\ tried = [d \in Daemons |-> 0]
    /\ held = [d \in Daemons |-> {}]
    /\ status = [d \in Daemons |-> 0]

\* cf_config_load() frees what it allocated before it fails.
Load(d) ==
    /\ pc[d] = "load"
    /\ LET loaded == IF d \in Sources THEN ConfigLoad(d, deployment[d].file, deployment[d].env)
                     ELSE SinkLoad(d, deployment[d].file)
       IN  /\ cfg' = [cfg EXCEPT ![d] = loaded]
           /\ held' = [held EXCEPT ![d] = IF loaded = <<>> THEN {} ELSE {"config"}]
           /\ status' = [status EXCEPT ![d] = IF loaded = <<>> THEN 1 ELSE 0]
           /\ pc' = [pc EXCEPT ![d] = IF loaded = <<>> THEN "exited" ELSE "start"]
    /\ UNCHANGED <<deployment, tried>>

Current(d) == Order(d)[tried[d] + 1]

\* A capture file that was replayed leaves nothing behind and the daemon stops;
\* everything else is held until the cleanup.
Acquire(d) ==
    /\ pc[d] = "start"
    /\ Accepts(d, Current(d), cfg[d][1])
    /\ held' = [held EXCEPT ![d] = @ \cup ({Current(d)} \ {"replayed"})]
    /\ tried' = [tried EXCEPT ![d] = @ + 1]
    /\ pc' = [pc EXCEPT ![d] = IF tried[d] + 1 < Len(Order(d)) THEN "start" ELSE "running"]
    /\ UNCHANGED <<deployment, cfg, status>>

\* Refused, by the component or by the system.  Both address sets are built
\* before either is looked at; cf_consumer_init() that fails half-way leaves its
\* cursors.  The result of curl_global_init() is not looked at.
Refused(d) ==
    /\ pc[d] = "start"
    /\ Current(d) # "curl"
    /\ status' = [status EXCEPT ![d] = 1]
    /\ pc' = [pc EXCEPT ![d] = "cleanup"]
    /\ \/ UNCHANGED held
       \/ Current(d) = "local_addrs" /\ held' = [held EXCEPT ![d] = @ \cup {"backend_addrs"}]
       \/ Current(d) = "consumer" /\ held' = [held EXCEPT ![d] = @ \cup {"cursors"}]
    /\ UNCHANGED <<deployment, cfg, tried>>

\* A signal; or the work of --replay and --once is done.  The status of the
\* running phase is not looked at.
Stop(d) ==
    /\ pc[d] = "running"
    /\ pc' = [pc EXCEPT ![d] = "cleanup"]
    /\ UNCHANGED <<deployment, cfg, tried, held, status>>

\* The cleanup passes over what was not acquired.
Release(d) ==
    /\ pc[d] = "cleanup"
    /\ LET left == {i \in DOMAIN CleanupOrder(d) : CleanupOrder(d)[i] \in held[d]}
       IN  \/ left = {} /\ pc' = [pc EXCEPT ![d] = "exited"] /\ UNCHANGED held
          \/ \E i \in left :
                /\ \A j \in left : i <= j
                /\ held' = [held EXCEPT ![d] = @ \ {CleanupOrder(d)[i]}]
                /\ UNCHANGED pc
    /\ UNCHANGED <<deployment, cfg, tried, status>>

Next == \E d \in Daemons : Load(d) \/ Acquire(d) \/ Refused(d) \/ Stop(d) \/ Release(d)
Spec == Init /\ [][Next]_vars

------------------------------------------------------------------------------
\* Where a file gives section s; where section number i of it gives an acceptable
\* value for its key k.
Sections(file, s) == {i \in DOMAIN file.pairs : file.pairs[i][1] = s /\ IsMap(file.pairs[i][2])}
Given(d, file, s, k, i) ==
    {j \in DOMAIN file.pairs[i][2].pairs :
        /\ file.pairs[i][2].pairs[j][1] = k
        /\ Parse(Kinds(d)[s][k], file.pairs[i][2].pairs[j][2]) # <<>>}
\* v is the last of these values, or the default if there is none.
IsSetting(d, file, s, k, v) ==
    \/ (\A i \in Sections(file, s) : Given(d, file, s, k, i) = {}) /\ v = Defaults(d)[s][k]
    \/ \E i \in Sections(file, s) : \E j \in Given(d, file, s, k, i) :
          /\ v = Parse(Kinds(d)[s][k], file.pairs[i][2].pairs[j][2])[1]
          /\ \A m \in Given(d, file, s, k, i) : m <= j
          /\ \A h \in Sections(file, s) : h > i => Given(d, file, s, k, h) = {}
\* The keys the environment decides.
FromEnv(d, s, k) ==
    LET env == deployment[d].env
    IN  CASE <<s, k>> = <<"redis", "endpoints">> -> \E i \in DOMAIN env.endpoints : env.endpoints[i] # ""
          [] <<s, k>> = <<"capture", "interface">> -> env.interface # ""
          [] <<s, k>> = <<"service", "source_host">> -> env.source_host # ""
          [] OTHER -> FALSE
\* A source that has started.
SourcesSound ==
    \A d \in Daemons \cap Sources :
        pc[d] = "running" =>
            LET c == cfg[d][1]
            IN  /\ QueueCapacity(d, c, "q_pkt") >= 2 /\ QueueCapacity(d, c, "q_evt") >= 2
                /\ c.queues.on_full # "drop_oldest"
                /\ c.redis.endpoints # <<>>
                /\ PipelineMax(c) \in 1..4096 /\ FlushInterval(c) > 0 /\ c.stats.interval_s > 0
                /\ d = "dns" => c.dns.pending_table_capacity \in 1..IntMax /\ c.dns.query_timeout_ms > 0
                /\ \A s \in DOMAIN c : \A k \in DOMAIN c[s] :
                       FromEnv(d, s, k) \/ IsSetting(d, deployment[d].file, s, k, c[s][k])

\* A sink's file names its group, or its dead-letter stream.
Names(d, key) == TextOr(MapGet(deployment[d].file, "redis"), key, "") # ""
\* Two sinks share neither a consumer group nor a dead-letter stream unless a file
\* says so, or both are Splunk sinks and neither file names its group.
SinksApart ==
    \A d, e \in Daemons \ Sources :
        (d # e /\ cfg[d] # <<>> /\ cfg[e] # <<>>) =>
            LET mine == cfg[d][1].redis
                other == cfg[e][1].redis
            IN  /\ mine.consumer_group = other.consumer_group =>
                       \/ Names(d, "consumer_group") \/ Names(e, "consumer_group")
                       \/ {d, e} = {"splunk", "metrics"}
                /\ mine.deadletter_stream = other.deadletter_stream =>
                       \/ mine.consumer_group = other.consumer_group
                       \/ Names(d, "deadletter_stream") /\ Names(e, "deadletter_stream")

\* SettingsSound: whatever stands in its file, a source that has started runs with
\* settings under which its parts are correct: rings of two slots or more, no
\* eviction by the producer, a server to write to, a pipeline and a pending table
\* within their bounds, timers that advance; each setting is the last acceptable
\* value given for it, so that a value or a key that is refused disturbs no
\* other.  And sinks of one deployment do not take each other's entries by
\* default, but for the two Splunk sinks.
\* On queues.on_full this is the code's word (config.c:135-141 of the DHCP source,
\* 137-143 of the DNS source) and that of configs/examples/dns-source.yaml:35-38,
\* against docs/architecture.md:152-153, docs/dhcp-source.md:51 and
\* docs/failure-modes.md:10-15, where drop_oldest is a policy one can configure
\* and that evicts the oldest element.
SettingsSound == SourcesSound /\ SinksApart

\* NothingPulledAway: wherever a start fails and whenever a daemon stops, a
\* thread or a client outlives nothing it uses, nobody pushes into a ring whose
\* reader has been joined, and at the exit all is released (but for the cursors
\* of a consumer whose initialisation failed) with a status that tells whether
\* the start succeeded.
Uses(d, r) ==
    CASE r = "rx_reader" -> {"q_pkt", "stage", "config"}
      [] r = "stage" -> {"q_pkt", "q_evt", "producer", "config"}
                        \cup (IF d = "dns" THEN {"local_addrs", "backend_addrs", "role_map"} ELSE {})
      [] r = "producer" -> {"q_evt", "endpoints", "config"}
      [] r = "client" -> {"curl", "config"}
      [] r = "consumer" -> {"redis", "config"} \cup (IF deployment[d].offline THEN {} ELSE {"client"})
      [] OTHER -> {}
NothingPulledAway ==
    \A d \in Daemons :
        /\ \A r \in held[d] : Uses(d, r) \subseteq held[d]
        /\ pc[d] = "exited" =>
               /\ held[d] \subseteq {"cursors"}
               /\ (status[d] = 0) = (cfg[d] # <<>> /\ tried[d] = Len(Order(d)))
=============================================================================
