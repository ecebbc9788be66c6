----------------------------- MODULE MCStartup ------------------------------
(***************************************************************************)
(* The configuration files of the startup run: for each source one key at  *)
(* a time given once or twice with every kind of value, for the sinks each *)
(* key, and two sinks side by side.                                        *)
(***************************************************************************)
EXTENDS Startup
LOCAL INSTANCE TLC

Text(t) == [type |-> "scalar", text |-> t, number |-> <<>>, signed |-> FALSE, lead |-> 0]
Number(n) == [type |-> "scalar", text |-> ToString(n), number |-> <<n>>, signed |-> n < 0, lead |-> n]
Plus(n) == [Number(n) EXCEPT !.text = "+" \o @, !.signed = TRUE]
Followed(n) == [Text("5x") EXCEPT !.lead = n]
List(items) == [type |-> "seq", items |-> items]
Map(pairs) == [type |-> "map", pairs |-> pairs]

MCEnvNames == {"TOKEN_ENV", "USER_ENV"}
NoEnv == [endpoints |-> <<>>, interface |-> "", source_host |-> ""]
MCEnvs == {NoEnv, [endpoints |-> <<"", "redis09:1">>, interface |-> "eth9", source_host |-> "h9"],
           [endpoints |-> <<"">>, interface |-> "", source_host |-> ""]}

Role(label, addresses) == Map(<< <<"label", label>>, <<"addresses", addresses>> >>)
SourceValues ==
    { Number(0), Number(1), Number(2), Number(5000), Number(UInt32Max), Number(UInt32Max + 1), Number(-1), Plus(3),
      Followed(5), Text(""), Text("drop_oldest"), Text("block"), Text("predicate"), Text("yes"), Text("rxring"),
      List(<<>>), List(<<Text("a"), Map(<<>>)>>), List(<<Map(<<>>)>>),
      List(<<Role(Text("auth"), List(<<Text("a")>>)), Role(Text(""), List(<<Text("b")>>)),
             Role(Text("cache"), List(<<>>))>>), Map(<<>>) }
FewValues == {Number(0), Number(7), Text("drop_oldest"), List(<<>>), List(<<Text("b")>>), Map(<<>>)}
\* A key given once, twice in a section, and in a section that comes twice.
OneKey(s, k) ==
    {Map(<< <<s, Map(<< <<k, v>> >>)>> >>) : v \in SourceValues}
    \cup {Map(<< <<s, Map(<< <<k, v>>, <<"other", v>>, <<k, w>> >>)>> >>) : v \in FewValues, w \in FewValues}
    \cup {Map(<< <<s, Map(<< <<k, v>> >>)>>, <<s, v>>, <<s, Map(<< <<k, w>> >>)>> >>) : v \in FewValues, w \in FewValues}
SourceFiles(d) ==
    UNION {UNION {OneKey(s, k) : k \in DOMAIN Kinds(d)[s]} : s \in DOMAIN Kinds(d)}
    \cup {NoNode, Text("x"), Map(<<>>), Map(<< <<"unknown", Map(<<>>)>> >>)}
Alone(d, file, env, offline) == [x \in {d} |-> [file |-> file, env |-> env, offline |-> offline]]
SourceDeployments ==
    UNION {{Alone(d, f, NoEnv, FALSE) : f \in SourceFiles(d)} : d \in Sources}
    \cup {Alone(d, f, e, o) : d \in Sources, e \in MCEnvs, o \in BOOLEAN,
                              f \in OneKey("redis", "endpoints") \cup OneKey("capture", "interface")}

\* A sink's file with a key of a section replaced, or left out.
Section(d) == IF d = "clickhouse" THEN "clickhouse" ELSE "splunk"
SinkPairs(d, group) ==
    [service |-> << <<"name", Text("sink")>>, <<"consumer_name", Text("c1")>> >>,
     redis |-> << <<"endpoints", List(<<Text("r:1")>>)>>, <<"streams", List(<<Text("s")>>)>> >>
               \o (IF group = "" THEN <<>> ELSE << <<"consumer_group", Text(group)>> >>)]
    @@ (Section(d) :> IF d = "clickhouse" THEN << <<"url", Text("http")>>, <<"user_env", Text("USER_ENV")>> >>
                      ELSE << <<"hec_url", Text("http")>>, <<"hec_token_env", Text("TOKEN_ENV")>> >>)
File(d, pairs) == Map(<< <<"service", Map(pairs.service)>>, <<"redis", Map(pairs.redis)>>,
                         <<Section(d), Map(pairs[Section(d)])>> >>)
With(pairs, s, k, v) == [pairs EXCEPT ![s] = << <<k, v>> >> \o @]
SinkKeys(d) ==
    {<<"service", "name">>, <<"service", "consumer_name">>} \cup
    ({"redis"} \X {"endpoints", "streams", "consumer_group", "read_count", "block_ms", "deadletter_stream"}) \cup
    ({Section(d)} \X {"batch_size", "tls_verify", "secret"}) \cup
    (IF d = "clickhouse" THEN {d} \X {"url", "database", "table", "user_env", "password_env"}
     ELSE {"splunk"} \X {"hec_url", "hec_token_env", "index", "sourcetypes", "include_raw_payload", "enabled_metrics",
                         "dimensions", "metrics_index"})
SinkValues == {Number(0), Number(-1), Number(UInt32Max + 8), Followed(5), Text(""), Text("TOKEN_ENV"), Text("a-b"),
               Text("False"), List(<<>>), List(<<Text("t")>>), Map(<< <<"dns_qtype", Text("no")>> >>)}
SinkDeployments ==
    UNION {{Alone(d, File(d, With(SinkPairs(d, ""), sk[1], sk[2], v)), NoEnv, o) :
               sk \in SinkKeys(d), v \in SinkValues, o \in BOOLEAN} : d \in Sinks}
    \cup {Alone(d, f, NoEnv, FALSE) : d \in Sinks, f \in {NoNode, Text("x"), Map(<<>>)}}

\* Two sinks, with and without names for their groups and dead-letter streams.
Named(d, group, deadletter) ==
    File(d, IF deadletter = "" THEN SinkPairs(d, group)
            ELSE With(SinkPairs(d, group), "redis", "deadletter_stream", Text(deadletter)))
PairDeployments ==
    {[x \in {q[1], q[2]} |-> [file |-> Named(x, IF x = q[1] THEN g[1] ELSE g[2], IF x = q[1] THEN dl[1] ELSE dl[2]),
                              env |-> NoEnv, offline |-> TRUE]] :
        q \in {<<"splunk", "metrics">>, <<"splunk", "clickhouse">>, <<"metrics", "clickhouse">>},
        g \in {"", "sink-splunk", "sink-clickhouse", "mine"} \X {"", "sink-splunk", "mine"},
        dl \in {"", "dead"} \X {"", "dead"}}

MCDeployments == SourceDeployments \cup SinkDeployments \cup PairDeployments
=============================================================================
