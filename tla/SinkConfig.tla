----------------------------- MODULE SinkConfig -----------------------------
(***************************************************************************)
(* The configuration loaders of the three sinks: cf_sink_config.c for the  *)
(* sections the two Splunk sinks share, their own second walk over the     *)
(* file, and the ClickHouse sink's own loader.  A key is looked up, so the *)
(* first of several counts; numbers are read with strtol() and not         *)
(* checked; a missing section or address is refused.                       *)
(***************************************************************************)
EXTENDS ConfigNode

CONSTANT EnvNames   \* the texts that have the form of an environment variable's name

MapGet(map, key) ==
    LET given == IF IsMap(map) THEN SelectSeq(map.pairs, LAMBDA p : p[1] = key) ELSE <<>>
    IN  IF given = <<>> THEN NoNode ELSE given[1][2]
\* The text of a scalar, or the default for no scalar and for an empty one.
TextOr(map, key, default) ==
    LET node == MapGet(map, key) IN IF IsScalar(node) /\ node.text # "" THEN node.text ELSE default
ScalarInt(map, key, default) ==
    LET node == MapGet(map, key) IN IF IsScalar(node) /\ node.text # "" THEN ToInt(node.lead) ELSE default
Truthy(map, key, default) ==
    LET node == MapGet(map, key)
    IN  IF IsScalar(node) /\ node.text \in {"true", "True", "yes", "1"} THEN TRUE
        ELSE IF IsScalar(node) /\ node.text \in {"false", "False", "no", "0"} THEN FALSE ELSE default
\* collect_seq(): <<>> for anything but a list.
CollectSeq(map, key) == LET node == MapGet(map, key) IN IF node.type = "seq" THEN ScalarItems(node) ELSE <<>>

DefaultGroup == "sink-splunk"
ClickHouseGroup == "sink-clickhouse"

\* Sections service and redis of every sink; the dead-letter stream is named
\* after the group, <<"deadletter", group>>, unless the file names one.
Redis(redis, group) ==
    LET named == TextOr(redis, "consumer_group", group)
        deadletter == TextOr(redis, "deadletter_stream", "")
    IN  [endpoints |-> CollectSeq(redis, "endpoints"), streams |-> CollectSeq(redis, "streams"),
         consumer_group |-> named, read_count |-> ScalarInt(redis, "read_count", 100),
         block_ms |-> ScalarInt(redis, "block_ms", 1000),
         deadletter_stream |-> IF deadletter = "" THEN <<"deadletter", named>> ELSE <<deadletter>>]
SharedOk(root) ==
    LET service == MapGet(root, "service")
        redis == MapGet(root, "redis")
    IN  /\ IsMap(root) /\ IsMap(service) /\ IsMap(redis)
        /\ TextOr(service, "name", "") # "" /\ TextOr(service, "consumer_name", "") # ""
        /\ CollectSeq(redis, "endpoints") # <<>> /\ CollectSeq(redis, "streams") # <<>>

\* The batching of every sink's delivery.
Batching(section, batch) ==
    [batch_size |-> ScalarInt(section, "batch_size", batch),
     flush_interval_ms |-> ScalarInt(section, "flush_interval_ms", 1000),
     request_timeout_ms |-> ScalarInt(section, "request_timeout_ms", 5000),
     tls_verify |-> Truthy(section, "tls_verify", TRUE)]
HasNone(section, keys) == \A k \in keys : MapGet(section, k) = NoNode

\* cf_sink_config_load(): the Splunk sinks.  A secret is named, never given.
SplunkBase(root) ==
    LET splunk == MapGet(root, "splunk")
        url == TextOr(splunk, "hec_url", "")
        token == TextOr(splunk, "hec_token_env", "")
    IN  IF /\ SharedOk(root) /\ IsMap(splunk)
           /\ HasNone(splunk, {"hec_token", "token", "hec_secret", "secret"})
           /\ url # "" /\ token \in EnvNames
        THEN <<[redis |-> Redis(MapGet(root, "redis"), DefaultGroup), delivery |-> Batching(splunk, 500),
                url |-> url, path |-> TextOr(splunk, "hec_path", ""), credentials |-> token,
                index |-> TextOr(splunk, "index", "")]>>
        ELSE <<>>

\* The pairs of a mapping whose key and value are scalars.
ScalarPairs(map) ==
    LET pairs == SelectSeq(map.pairs, LAMBDA p : IsScalar(p[2]))
    IN  [i \in DOMAIN pairs |-> <<pairs[i][1], pairs[i][2].text>>]
SplunkLoad(root) ==
    LET splunk == MapGet(root, "splunk")
        sourcetypes == MapGet(splunk, "sourcetypes")
    IN  IF SplunkBase(root) = <<>> \/ sourcetypes.type \notin {"map", "none"} THEN <<>>
        ELSE <<Joined(SplunkBase(root)[1],
                      [sourcetypes |-> IF IsMap(sourcetypes) THEN ScalarPairs(sourcetypes) ELSE <<>>,
                       include_raw_payload |-> Truthy(splunk, "include_raw_payload", FALSE)])>>

MetricsLoad(root) ==
    LET splunk == MapGet(root, "splunk")
        enabled == MapGet(splunk, "enabled_metrics")
        dimensions == MapGet(splunk, "dimensions")
    IN  IF SplunkBase(root) = <<>> \/ enabled.type \notin {"seq", "none"} \/ dimensions.type \notin {"map", "none"}
        THEN <<>>
        ELSE <<Joined(SplunkBase(root)[1],
                      [metrics_index |-> TextOr(splunk, "metrics_index", ""),
                       enabled_metrics |-> CollectSeq(splunk, "enabled_metrics"),
                       dns_server_ip |-> Truthy(dimensions, "dns_server_ip", TRUE),
                       dns_qtype |-> Truthy(dimensions, "dns_qtype", TRUE),
                       dhcp_client_key |-> Truthy(dimensions, "dhcp_client_key", FALSE)])>>

\* The ClickHouse sink: without user_env there are no credentials.
ClickHouseLoad(root) ==
    LET ch == MapGet(root, "clickhouse")
        url == TextOr(ch, "url", "")
        user == TextOr(ch, "user_env", "")
        password == TextOr(ch, "password_env", "")
    IN  IF /\ SharedOk(root) /\ IsMap(ch)
           /\ HasNone(ch, {"password", "user_password", "key", "secret"})
           /\ url # "" /\ {user, password} \subseteq EnvNames \cup {""}
        THEN <<[redis |-> Redis(MapGet(root, "redis"), ClickHouseGroup), delivery |-> Batching(ch, 10000),
                url |-> url, database |-> TextOr(ch, "database", "cloudflow"),
                table |-> TextOr(ch, "table", "events"), credentials |-> user, password |-> password]>>
        ELSE <<>>

SinkLoad(d, root) ==
    CASE d = "splunk" -> SplunkLoad(root)
      [] d = "metrics" -> MetricsLoad(root)
      [] d = "clickhouse" -> ClickHouseLoad(root)
=============================================================================
