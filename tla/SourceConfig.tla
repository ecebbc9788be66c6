---------------------------- MODULE SourceConfig ----------------------------
(***************************************************************************)
(* The configuration loaders of the two sources (config.c of the DHCP and  *)
(* of the DNS source): defaults, every pair of the file in order over      *)
(* them, the environment over that.  A value that cannot be used leaves    *)
(* the setting as it was; only the document itself and capture.method can  *)
(* make a load fail.                                                       *)
(***************************************************************************)
EXTENDS ConfigNode

\* The parsers return <<>> for a value they refuse and <<value>> otherwise.
ParseU32(node) ==
    IF IsScalar(node) /\ ~node.signed /\ node.number # <<>> /\ node.number[1] <= UInt32Max
    THEN node.number ELSE <<>>
ParseI64(node) == IF IsScalar(node) THEN node.number ELSE <<>>
ParsePositive(node) == IF ParseU32(node) # <<>> /\ node.number[1] > 0 THEN node.number ELSE <<>>
ParseWord(node, words) ==
    IF IsScalar(node) /\ node.text \in DOMAIN words THEN <<words[node.text]>> ELSE <<>>

\* Mutant of OnFullWords: drop_oldest is taken at its word.
OnFullWordsLiteral == [drop_newest |-> "drop_newest", drop_oldest |-> "drop_oldest", block |-> "block"]

\* drop_oldest would let the producer move the consumer's index, so it is taken
\* for drop_newest, with a warning (the docs still list it: see SettingsSound).
OnFullWords == [drop_newest |-> "drop_newest", drop_oldest |-> "drop_newest", block |-> "block"]
OnTableFullWords == [drop_newest |-> "drop_newest", drop_oldest |-> "drop_oldest"]
EmitModeWords == [all |-> "all", predicate |-> "predicate"]
BoolWords == [w \in {"true", "yes", "1", "false", "no", "0"} |-> w \in {"true", "yes", "1"}]

\* A string is replaced by whatever stands there, by "" if it is no scalar.
ParseString(node) == <<IF IsScalar(node) THEN node.text ELSE "">>
\* The DNS source takes an empty list as such, the DHCP source keeps its own.
ParseStrList(node) ==
    IF node.type # "seq" \/ (node.items # <<>> /\ ScalarItems(node) = <<>>) THEN <<>> ELSE <<ScalarItems(node)>>
ParseRedisEndpoints(node) ==
    IF node.type # "seq" \/ ScalarItems(node) = <<>> THEN <<>> ELSE <<ScalarItems(node)>>

\* The last value of a key in a mapping, and a list of service roles: entries
\* without a label or without addresses are left out.
LastOf(map, key) ==
    LET given == SelectSeq(map.pairs, LAMBDA p : p[1] = key)
    IN  IF given = <<>> THEN NoNode ELSE given[Len(given)][2]
ParseServiceRoles(node) ==
    LET label(e) == IF IsScalar(LastOf(e, "label")) THEN LastOf(e, "label").text ELSE ""
        addresses(e) == ParseStrList(LastOf(e, "addresses"))
        usable == SelectSeq(node.items, LAMBDA e : IsMap(e) /\ label(e) # "" /\ addresses(e) \notin {<<>>, << <<>> >>})
        roles == [i \in DOMAIN usable |-> [label |-> label(usable[i]), addresses |-> addresses(usable[i])[1]]]
    IN  IF node.type # "seq" \/ (node.items # <<>> /\ roles = <<>>) THEN <<>> ELSE <<roles>>

\* The settings: section, key, how it is read.
CommonKinds ==
    [service |-> [name |-> "string", source_host |-> "string"],
     capture |-> [interface |-> "string", method |-> "string", snaplen |-> "u32", filter |-> "string"],
     stats |-> [interval_s |-> "positive", reset_on_report |-> "bool"]]
RedisKinds == [maxlen_approx |-> "i64", xadd_batch_size |-> "u32", xadd_flush_interval_ms |-> "u32"]
DhcpKinds == Joined(CommonKinds,
    [queues |-> [rx_to_formatter_capacity |-> "u32", formatter_to_redis_capacity |-> "u32", on_full |-> "on_full"],
     redis |-> Joined(RedisKinds,
                      [endpoints |-> "endpoints", stream_dhcpv4 |-> "string", stream_dhcpv6 |-> "string"])])
DnsKinds == Joined(CommonKinds,
    [queues |-> [rx_to_stage_capacity |-> "u32", stage_to_redis_capacity |-> "u32", on_full |-> "on_full"],
     redis |-> Joined(RedisKinds, [endpoints |-> "list", expected_stream_dns |-> "string"]),
     dns |-> [pending_table_capacity |-> "positive", query_timeout_ms |-> "positive",
              on_table_full |-> "on_table_full", local_service_addresses |-> "list", backend_addresses |-> "list",
              emit_policy |-> "emit_mode", sample_denominator |-> "u32", service_roles |-> "roles"]])
Kinds(d) == IF d = "dns" THEN DnsKinds ELSE DhcpKinds

Parse(kind, node) ==
    CASE kind = "string" -> ParseString(node)
      [] kind = "u32" -> ParseU32(node)
      [] kind = "positive" -> ParsePositive(node)
      [] kind = "i64" -> ParseI64(node)
      [] kind = "on_full" -> ParseWord(node, OnFullWords)
      [] kind = "on_table_full" -> ParseWord(node, OnTableFullWords)
      [] kind = "emit_mode" -> ParseWord(node, EmitModeWords)
      [] kind = "bool" -> ParseWord(node, BoolWords)
      [] kind = "list" -> ParseStrList(node)
      [] kind = "endpoints" -> ParseRedisEndpoints(node)
      [] kind = "roles" -> ParseServiceRoles(node)

DefaultEndpoints == <<"redis01:6379", "redis02:6379", "redis03:6379">>
CommonDefaults(name, host, filter) ==
    [service |-> [name |-> name, source_host |-> host],
     capture |-> [interface |-> "eth0", method |-> "rxring", snaplen |-> 1500, filter |-> filter],
     stats |-> [interval_s |-> 10, reset_on_report |-> FALSE]]
RedisDefaults ==
    [endpoints |-> DefaultEndpoints, maxlen_approx |-> 1000000, xadd_batch_size |-> 100, xadd_flush_interval_ms |-> 10]
DhcpDefaults == Joined(CommonDefaults("cloudflow-source-dhcp", "dhcp01", "dhcp"),
    [queues |-> [rx_to_formatter_capacity |-> 65536, formatter_to_redis_capacity |-> 65536, on_full |-> "drop_newest"],
     redis |-> Joined(RedisDefaults, [stream_dhcpv4 |-> "cloudflow:v1:wire:dhcpv4",
                                      stream_dhcpv6 |-> "cloudflow:v1:wire:dhcpv6"])])
DnsDefaults == Joined(CommonDefaults("cloudflow-source-dns", "dns01", "dns"),
    [queues |-> [rx_to_stage_capacity |-> 65536, stage_to_redis_capacity |-> 65536, on_full |-> "drop_newest"],
     redis |-> Joined(RedisDefaults, [expected_stream_dns |-> "cloudflow:v1:wire:dns"]),
     dns |-> [pending_table_capacity |-> 262144, query_timeout_ms |-> 5000, on_table_full |-> "drop_newest",
              local_service_addresses |-> <<>>, backend_addresses |-> <<>>, emit_policy |-> "all",
              sample_denominator |-> 0, service_roles |-> <<>>]])
Defaults(d) == IF d = "dns" THEN DnsDefaults ELSE DhcpDefaults

\* One pair of a section, a section, the file; unknown keys are passed over.
SetKey(d, cfg, s, pair) ==
    IF pair[1] \notin DOMAIN Kinds(d)[s] THEN cfg
    ELSE LET parsed == Parse(Kinds(d)[s][pair[1]], pair[2])
         IN  IF parsed = <<>> THEN cfg ELSE [cfg EXCEPT ![s][pair[1]] = parsed[1]]
ParseSection(d, cfg, s, node) ==
    IF s \notin DOMAIN Kinds(d) \/ ~IsMap(node) THEN cfg
    ELSE LET after[n \in 0..Len(node.pairs)] ==
                 IF n = 0 THEN cfg ELSE SetKey(d, after[n - 1], s, node.pairs[n])
         IN  after[Len(node.pairs)]
ParseFile(d, root) ==
    LET after[n \in 0..Len(root.pairs)] ==
            IF n = 0 THEN Defaults(d) ELSE ParseSection(d, after[n - 1], root.pairs[n][1], root.pairs[n][2])
    IN  after[Len(root.pairs)]

\* The environment: CF_REDIS_ENDPOINTS as its parts, "" for a blank one;
\* CF_INTERFACE and CF_SOURCE_HOST, "" if not set.
ApplyEnvOverrides(cfg, env) ==
    [cfg EXCEPT !.redis.endpoints = IF \A i \in DOMAIN env.endpoints : env.endpoints[i] = "" THEN @
                                    ELSE SelectSeq(env.endpoints, LAMBDA e : e # ""),
                !.capture.interface = IF env.interface = "" THEN @ ELSE env.interface,
                !.service.source_host = IF env.source_host = "" THEN @ ELSE env.source_host]

\* cf_config_load(): <<>> if it fails.
ConfigLoad(d, root, env) ==
    IF ~IsMap(root) THEN <<>>
    ELSE LET cfg == ParseFile(d, root)
         IN  IF cfg.capture.method # "rxring" THEN <<>> ELSE <<ApplyEnvOverrides(cfg, env)>>
=============================================================================
