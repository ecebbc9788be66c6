--------------------------- MODULE StartupProofs ----------------------------
(***************************************************************************)
(* For every deployment, every content of the configuration files and      *)
(* environment, and a failure at any step of any start: no thread and no   *)
(* client outlives what it uses, and all is released at the exit, whose    *)
(* status tells whether the start succeeded; a source that is up runs with *)
(* settings its parts are correct under, each the last acceptable value    *)
(* given for it; and two sinks share a group or a dead-letter stream only  *)
(* where a file says so, or where both are Splunk sinks.                   *)
(***************************************************************************)
EXTENDS Startup, WellFoundedInduction, TLAPS

(* The inductive invariant.                                                *)

\* What a daemon has acquired before it tries resource number n + 1.
Acquired(d, n) == ({"config"} \cup {Order(d)[i] : i \in 1..n}) \ {"replayed"}

\* Nothing held lacks what it uses.
Closed(d) == \A r \in held[d] : Uses(d, r) \subseteq held[d]

\* What the cleanup of a daemon releases.
Released(d) ==
    IF d \in Sources
    THEN {"rx_reader", "stage", "producer", "q_evt", "q_pkt", "local_addrs", "backend_addrs", "role_map",
          "endpoints", "config"}
    ELSE {"consumer", "client", "redis", "curl", "config"}

\* Of one daemon: until it is up it holds exactly what it has acquired so far;
\* the cleanup holds what it is going to release; and nothing held lacks what
\* it uses, which the cleanup keeps because it goes by the order of the uses.
Orderly(d) ==
    /\ deployment[d].offline \in BOOLEAN
    /\ tried[d] \in 0..Len(Order(d))
    /\ pc[d] \in {"load", "start", "running", "cleanup", "exited"}
    /\ pc[d] = "load" => held[d] = {} /\ tried[d] = 0
    /\ pc[d] \in {"start", "running"} => held[d] = Acquired(d, tried[d]) /\ status[d] = 0 /\ cfg[d] # <<>>
    /\ pc[d] = "start" => tried[d] < Len(Order(d))
    /\ pc[d] = "running" => tried[d] = Len(Order(d))
    /\ pc[d] = "cleanup" => held[d] \subseteq Released(d) \cup {"cursors"}
    /\ pc[d] = "exited" => held[d] \subseteq {"cursors"}
    /\ pc[d] \in {"cleanup", "exited"} =>
          (status[d] = 0) = (cfg[d] # <<>> /\ tried[d] = Len(Order(d)))
    /\ Closed(d)

-----------------------------------------------------------------------------
(* The two orders.                                                         *)

\* Resources that use others.
Users == {"rx_reader", "stage", "producer", "client", "consumer"}

\* What they use.
LEMMA UsesOf ==
    ASSUME NEW d, deployment[d].offline \in BOOLEAN
    PROVE  /\ \A r : r \notin Users => Uses(d, r) = {}
           /\ Uses(d, "rx_reader") = {"q_pkt", "stage", "config"}
           /\ d = "dns" => Uses(d, "stage") = {"q_pkt", "q_evt", "producer", "config", "local_addrs",
                                               "backend_addrs", "role_map"}
           /\ d # "dns" => Uses(d, "stage") = {"q_pkt", "q_evt", "producer", "config"}
           /\ Uses(d, "producer") = {"q_evt", "endpoints", "config"}
           /\ Uses(d, "client") = {"curl", "config"}
           /\ Uses(d, "consumer") \subseteq {"redis", "config", "client"}
<1>1. \A r : r \notin Users => Uses(d, r) = {}
  BY DEF Users, Uses
<1>2. /\ Uses(d, "rx_reader") = {"q_pkt", "stage", "config"}
      /\ Uses(d, "producer") = {"q_evt", "endpoints", "config"}
      /\ Uses(d, "client") = {"curl", "config"}
  BY DEF Uses
<1>3. /\ d = "dns" => Uses(d, "stage") = {"q_pkt", "q_evt", "producer", "config", "local_addrs",
                                          "backend_addrs", "role_map"}
      /\ d # "dns" => Uses(d, "stage") = {"q_pkt", "q_evt", "producer", "config"}
  BY DEF Uses
<1>4. Uses(d, "consumer") \subseteq {"redis", "config", "client"}
  BY DEF Uses
<1> QED
  BY <1>1, <1>2, <1>3, <1>4

\* With --stdout the consumer has no client.
LEMMA OfflineConsumer ==
    ASSUME NEW d, deployment[d].offline
    PROVE  Uses(d, "consumer") = {"redis", "config"}
  BY DEF Uses

\* main() acquires a resource after all it uses.
AfterWhatItUses(d, order) ==
    /\ Len(order) \in Nat \ {0}
    /\ \A i \in 1..Len(order) : order[i] \in Released(d) \cup {"replayed"}
    /\ \A i \in 1..Len(order) : \A r \in Uses(d, order[i]) : r = "config" \/ \E j \in 1..(i - 1) : order[j] = r

\* So do the orders of all five daemons, offline or not.
LEMMA AcquiredInOrder ==
    ASSUME NEW d, deployment[d].offline \in BOOLEAN
    PROVE  AfterWhatItUses(d, Order(d))
<1>0. PICK input \in {"replayed", "rx_reader"} :
         input = IF deployment[d].offline THEN "replayed" ELSE "rx_reader"
  OBVIOUS
<1>1. CASE d = "dns"
  <2> DEFINE order == <<"q_pkt", "q_evt", "local_addrs", "backend_addrs", "role_map", "endpoints", "producer",
                       "stage", input>>
  <2>1. Order(d) = order
    BY <1>0, <1>1 DEF Order, SourceOrder, Sources
  <2>2. /\ order[1] = "q_pkt" /\ order[2] = "q_evt" /\ order[3] = "local_addrs" /\ order[4] = "backend_addrs"
        /\ order[5] = "role_map" /\ order[6] = "endpoints" /\ order[7] = "producer" /\ order[8] = "stage"
        /\ order[9] = input /\ Len(order) = 9
    OBVIOUS
  <2> HIDE DEF order
  <2>3. ASSUME NEW i \in 1..Len(order), NEW r \in Uses(d, order[i])
        PROVE  r = "config" \/ \E j \in 1..(i - 1) : order[j] = r
    <3>1. i \in {7, 8, 9}
      BY <2>2, <2>3, UsesOf DEF Users
    <3>2. CASE i = 7
      BY <2>2, <2>3, <3>2, UsesOf
    <3>3. CASE i = 8
      BY <1>1, <2>2, <2>3, <3>3, UsesOf
    <3>4. CASE i = 9
      BY <2>2, <2>3, <3>4, <1>0, UsesOf DEF Users
    <3> QED
      BY <3>1, <3>2, <3>3, <3>4
  <2>4. \A i \in 1..Len(order) : order[i] \in Released(d) \cup {"replayed"}
    BY <1>0, <1>1, <2>2 DEF Released, Sources
  <2> QED
    BY <2>1, <2>2, <2>3, <2>4 DEF AfterWhatItUses
<1>2. CASE d = "dhcp"
  <2> DEFINE order == <<"q_pkt", "q_evt", "endpoints", "producer", "stage", input>>
  <2>1. Order(d) = order
    BY <1>0, <1>2 DEF Order, SourceOrder, Sources
  <2>2. /\ order[1] = "q_pkt" /\ order[2] = "q_evt" /\ order[3] = "endpoints" /\ order[4] = "producer"
        /\ order[5] = "stage" /\ order[6] = input /\ Len(order) = 6
    OBVIOUS
  <2> HIDE DEF order
  <2>3. ASSUME NEW i \in 1..Len(order), NEW r \in Uses(d, order[i])
        PROVE  r = "config" \/ \E j \in 1..(i - 1) : order[j] = r
    <3>1. i \in {4, 5, 6}
      BY <2>2, <2>3, UsesOf DEF Users
    <3>2. CASE i = 4
      BY <2>2, <2>3, <3>2, UsesOf
    <3>3. CASE i = 5
      BY <1>2, <2>2, <2>3, <3>3, UsesOf
    <3>4. CASE i = 6
      BY <2>2, <2>3, <3>4, <1>0, UsesOf DEF Users
    <3> QED
      BY <3>1, <3>2, <3>3, <3>4
  <2>4. \A i \in 1..Len(order) : order[i] \in Released(d) \cup {"replayed"}
    BY <1>0, <1>2, <2>2 DEF Released, Sources
  <2> QED
    BY <2>1, <2>2, <2>3, <2>4 DEF AfterWhatItUses
<1>3. CASE d \notin Sources /\ deployment[d].offline
  <2> DEFINE order == <<"redis", "consumer">>
  <2>1. Order(d) = order
    BY <1>3 DEF Order, SinkOrder
  <2>2. order[1] = "redis" /\ order[2] = "consumer" /\ Len(order) = 2
    OBVIOUS
  <2> HIDE DEF order
  <2>3. ASSUME NEW i \in 1..Len(order), NEW r \in Uses(d, order[i])
        PROVE  r = "config" \/ \E j \in 1..(i - 1) : order[j] = r
    <3>1. i = 2
      BY <2>2, <2>3, UsesOf DEF Users
    <3>2. Uses(d, "consumer") = {"redis", "config"}
      BY <1>3, OfflineConsumer
    <3> QED
      BY <2>2, <2>3, <3>1, <3>2
  <2>4. \A i \in 1..Len(order) : order[i] \in Released(d) \cup {"replayed"}
    BY <1>3, <2>2 DEF Released, Sources
  <2> QED
    BY <2>1, <2>2, <2>3, <2>4 DEF AfterWhatItUses
<1>4. CASE d \notin Sources /\ ~deployment[d].offline /\ d = "clickhouse"
  <2> DEFINE order == <<"curl", "client", "redis", "consumer">>
  <2>1. Order(d) = order
    BY <1>4 DEF Order, SinkOrder
  <2>2. /\ order[1] = "curl" /\ order[2] = "client" /\ order[3] = "redis" /\ order[4] = "consumer"
        /\ Len(order) = 4
    OBVIOUS
  <2> HIDE DEF order
  <2>3. ASSUME NEW i \in 1..Len(order), NEW r \in Uses(d, order[i])
        PROVE  r = "config" \/ \E j \in 1..(i - 1) : order[j] = r
    <3>1. i \in {2, 4}
      BY <2>2, <2>3, UsesOf DEF Users
    <3>2. CASE i = 2
      BY <2>2, <2>3, <3>2, UsesOf
    <3>3. CASE i = 4
      <4>1. r \in {"redis", "config", "client"}
        BY <2>2, <2>3, <3>3, UsesOf
      <4> QED
        BY <2>2, <3>3, <4>1
    <3> QED
      BY <3>1, <3>2, <3>3
  <2>4. \A i \in 1..Len(order) : order[i] \in Released(d) \cup {"replayed"}
    BY <1>4, <2>2 DEF Released, Sources
  <2> QED
    BY <2>1, <2>2, <2>3, <2>4 DEF AfterWhatItUses
<1>5. CASE d \notin Sources /\ ~deployment[d].offline /\ d # "clickhouse"
  <2> DEFINE order == <<"redis", "curl", "client", "consumer">>
  <2>1. Order(d) = order
    BY <1>5 DEF Order, SinkOrder
  <2>2. /\ order[1] = "redis" /\ order[2] = "curl" /\ order[3] = "client" /\ order[4] = "consumer"
        /\ Len(order) = 4
    OBVIOUS
  <2> HIDE DEF order
  <2>3. ASSUME NEW i \in 1..Len(order), NEW r \in Uses(d, order[i])
        PROVE  r = "config" \/ \E j \in 1..(i - 1) : order[j] = r
    <3>1. i \in {3, 4}
      BY <2>2, <2>3, UsesOf DEF Users
    <3>2. CASE i = 3
      BY <2>2, <2>3, <3>2, UsesOf
    <3>3. CASE i = 4
      <4>1. r \in {"redis", "config", "client"}
        BY <2>2, <2>3, <3>3, UsesOf
      <4> QED
        BY <2>2, <3>3, <4>1
    <3> QED
      BY <3>1, <3>2, <3>3
  <2>4. \A i \in 1..Len(order) : order[i] \in Released(d) \cup {"replayed"}
    BY <1>5, <2>2 DEF Released, Sources
  <2> QED
    BY <2>1, <2>2, <2>3, <2>4 DEF AfterWhatItUses
<1> QED
  BY <1>1, <1>2, <1>3, <1>4, <1>5 DEF Sources

\* The cleanup releases a resource after all that use it.
LEMMA ReleasedInOrder ==
    ASSUME NEW d, deployment[d].offline \in BOOLEAN
    PROVE  /\ \A i, j \in DOMAIN CleanupOrder(d) :
                 CleanupOrder(d)[i] \in Uses(d, CleanupOrder(d)[j]) => j <= i /\ j # i
           /\ \A r \in Released(d) : \E i \in DOMAIN CleanupOrder(d) : CleanupOrder(d)[i] = r
           /\ DOMAIN CleanupOrder(d) \subseteq Int
<1>1. CASE d \in Sources
  <2> DEFINE order == <<"rx_reader", "stage", "producer", "q_evt", "q_pkt", "local_addrs", "backend_addrs",
                        "role_map", "endpoints", "config">>
  <2>1. CleanupOrder(d) = order
    BY <1>1 DEF CleanupOrder
  <2>2. /\ order[1] = "rx_reader" /\ order[2] = "stage" /\ order[3] = "producer" /\ order[4] = "q_evt"
        /\ order[5] = "q_pkt" /\ order[6] = "local_addrs" /\ order[7] = "backend_addrs" /\ order[8] = "role_map"
        /\ order[9] = "endpoints" /\ order[10] = "config" /\ DOMAIN order = 1..10
    OBVIOUS
  <2> HIDE DEF order
  <2>3. ASSUME NEW i \in 1..10, NEW j \in 1..10, order[i] \in Uses(d, order[j]) PROVE j <= i /\ j # i
    <3>1. j \in {1, 2, 3}
      BY <2>2, <2>3, UsesOf DEF Users
    <3>2. CASE j = 1
      BY <2>2, <2>3, <3>2, UsesOf
    <3>3. CASE j = 2
      <4>1. order[i] \notin {"rx_reader", "stage"}
        BY <2>2, <2>3, <3>3, UsesOf
      <4> QED
        BY <2>2, <3>3, <4>1
    <3>4. CASE j = 3
      <4>1. order[i] \notin {"rx_reader", "stage", "producer"}
        BY <2>2, <2>3, <3>4, UsesOf
      <4> QED
        BY <2>2, <3>4, <4>1
    <3> QED
      BY <3>1, <3>2, <3>3, <3>4
  <2>4. \A r \in Released(d) : \E i \in 1..10 : order[i] = r
    BY <1>1, <2>2 DEF Released
  <2> QED
    BY <2>1, <2>2, <2>3, <2>4
<1>2. CASE d \notin Sources /\ d = "clickhouse"
  <2> DEFINE order == <<"consumer", "redis", "client", "curl", "config">>
  <2>1. CleanupOrder(d) = order
    BY <1>2 DEF CleanupOrder
  <2>2. /\ order[1] = "consumer" /\ order[2] = "redis" /\ order[3] = "client" /\ order[4] = "curl"
        /\ order[5] = "config" /\ DOMAIN order = 1..5
    OBVIOUS
  <2> HIDE DEF order
  <2>3. ASSUME NEW i \in 1..5, NEW j \in 1..5, order[i] \in Uses(d, order[j]) PROVE j <= i /\ j # i
    <3>1. j \in {1, 3}
      BY <2>2, <2>3, UsesOf DEF Users
    <3>2. CASE j = 1
      <4>1. order[i] # "consumer"
        BY <2>2, <2>3, <3>2, UsesOf
      <4> QED
        BY <2>2, <3>2, <4>1
    <3>3. CASE j = 3
      BY <2>2, <2>3, <3>3, UsesOf
    <3> QED
      BY <3>1, <3>2, <3>3
  <2>4. \A r \in Released(d) : \E i \in 1..5 : order[i] = r
    BY <1>2, <2>2 DEF Released
  <2> QED
    BY <2>1, <2>2, <2>3, <2>4
<1>3. CASE d \notin Sources /\ d # "clickhouse"
  <2> DEFINE order == <<"consumer", "client", "redis", "curl", "config">>
  <2>1. CleanupOrder(d) = order
    BY <1>3 DEF CleanupOrder
  <2>2. /\ order[1] = "consumer" /\ order[2] = "client" /\ order[3] = "redis" /\ order[4] = "curl"
        /\ order[5] = "config" /\ DOMAIN order = 1..5
    OBVIOUS
  <2> HIDE DEF order
  <2>3. ASSUME NEW i \in 1..5, NEW j \in 1..5, order[i] \in Uses(d, order[j]) PROVE j <= i /\ j # i
    <3>1. j \in {1, 2}
      BY <2>2, <2>3, UsesOf DEF Users
    <3>2. CASE j = 1
      <4>1. order[i] # "consumer"
        BY <2>2, <2>3, <3>2, UsesOf
      <4> QED
        BY <2>2, <3>2, <4>1
    <3>3. CASE j = 2
      BY <2>2, <2>3, <3>3, UsesOf
    <3> QED
      BY <3>1, <3>2, <3>3
  <2>4. \A r \in Released(d) : \E i \in 1..5 : order[i] = r
    BY <1>3, <2>2 DEF Released
  <2> QED
    BY <2>1, <2>2, <2>3, <2>4
<1> QED
  BY <1>1, <1>2, <1>3

-----------------------------------------------------------------------------
(* The steps.                                                              *)

\* Each variable has a value for each daemon.
PerDaemon ==
    /\ deployment \in Deployments
    /\ pc = [d \in Daemons |-> pc[d]] /\ cfg = [d \in Daemons |-> cfg[d]]
    /\ tried = [d \in Daemons |-> tried[d]] /\ held = [d \in Daemons |-> held[d]]
    /\ status = [d \in Daemons |-> status[d]]

\* Every daemon of the deployment is in order.
IndInv == PerDaemon /\ \A d \in Daemons : Orderly(d)

\* The orders are settled by the deployment.
LEMMA SameOrders ==
    ASSUME NEW d, UNCHANGED deployment
    PROVE  Order(d)' = Order(d) /\ \A r : Uses(d, r)' = Uses(d, r)
  BY DEF Order, Uses

\* A step of one daemon leaves the others alone.
LEMMA OthersKeep ==
    ASSUME NEW e, Orderly(e), UNCHANGED deployment, pc'[e] = pc[e], cfg'[e] = cfg[e], tried'[e] = tried[e],
           held'[e] = held[e], status'[e] = status[e]
    PROVE  Orderly(e)'
<1>1. Order(e)' = Order(e) /\ \A r : Uses(e, r)' = Uses(e, r)
  BY SameOrders
<1>2. Closed(e)' = Closed(e)
  BY <1>1 DEF Closed
<1>3. Acquired(e, tried[e])' = Acquired(e, tried[e])
  BY <1>1 DEF Acquired
<1> QED
  BY <1>1, <1>2, <1>3 DEF Orderly

\* A configuration is loaded, or the daemon exits with status 1.
LEMMA LoadKeeps ==
    ASSUME IndInv, NEW d \in Daemons, Load(d)
    PROVE  PerDaemon' /\ Orderly(d)'
<1>1. PICK loaded : /\ cfg' = [cfg EXCEPT ![d] = loaded]
                    /\ held' = [held EXCEPT ![d] = IF loaded = <<>> THEN {} ELSE {"config"}]
                    /\ status' = [status EXCEPT ![d] = IF loaded = <<>> THEN 1 ELSE 0]
                    /\ pc' = [pc EXCEPT ![d] = IF loaded = <<>> THEN "exited" ELSE "start"]
                    /\ pc[d] = "load" /\ UNCHANGED <<deployment, tried>>
  BY Zenon DEF Load
<1>2. Order(d)' = Order(d) /\ \A r : Uses(d, r)' = Uses(d, r)
  BY <1>1, SameOrders
<1>3. /\ Orderly(d) /\ PerDaemon
  BY DEF IndInv
<1>4. PerDaemon'
  BY <1>1, <1>3 DEF PerDaemon, Daemons
<1>5. Len(Order(d)) \in Nat \ {0} /\ Uses(d, "config") = {} /\ tried[d] = 0
  BY <1>1, <1>3, AcquiredInOrder, UsesOf DEF Orderly, AfterWhatItUses, Users
<1>6. CASE loaded = <<>>
  <2>1. /\ pc'[d] = "exited" /\ held'[d] = {} /\ status'[d] = 1 /\ cfg'[d] = <<>> /\ tried'[d] = 0
        /\ deployment' = deployment
    BY <1>1, <1>3, <1>5, <1>6 DEF PerDaemon
  <2> QED
    BY <1>2, <1>3, <1>4, <1>5, <2>1 DEF Orderly, Closed
<1>7. CASE loaded # <<>>
  <2>1. /\ pc'[d] = "start" /\ held'[d] = {"config"} /\ status'[d] = 0 /\ cfg'[d] # <<>> /\ tried'[d] = 0
        /\ deployment' = deployment
    BY <1>1, <1>3, <1>5, <1>7 DEF PerDaemon
  <2>2. Acquired(d, tried[d])' = {"config"}
    BY <2>1 DEF Acquired
  <2>3. Closed(d)'
    BY <1>2, <1>5, <2>1 DEF Closed
  <2> QED
    BY <1>2, <1>3, <1>4, <1>5, <2>1, <2>2, <2>3 DEF Orderly
<1> QED
  BY <1>4, <1>6, <1>7

\* What is acquired finds what it uses.
LEMMA AcquireKeeps ==
    ASSUME IndInv, NEW d \in Daemons, Acquire(d)
    PROVE  PerDaemon' /\ Orderly(d)'
<1> DEFINE n == tried[d]
           r == Order(d)[n + 1]
<1>1. /\ pc[d] = "start" /\ UNCHANGED <<deployment, cfg, status>>
      /\ held' = [held EXCEPT ![d] = @ \cup ({r} \ {"replayed"})]
      /\ tried' = [tried EXCEPT ![d] = @ + 1]
      /\ pc' = [pc EXCEPT ![d] = IF n + 1 < Len(Order(d)) THEN "start" ELSE "running"]
  BY Zenon DEF Acquire, Current
<1>2. Order(d)' = Order(d) /\ \A x : Uses(d, x)' = Uses(d, x)
  BY <1>1, SameOrders
<1>3. Orderly(d) /\ PerDaemon
  BY DEF IndInv
<1>4. PerDaemon'
  BY <1>1, <1>3 DEF PerDaemon, Daemons
<1>5. /\ n \in Nat /\ Len(Order(d)) \in Nat /\ n < Len(Order(d)) /\ held[d] = Acquired(d, n)
      /\ status[d] = 0 /\ cfg[d] # <<>> /\ Closed(d) /\ deployment[d].offline \in BOOLEAN
  BY <1>1, <1>3, AcquiredInOrder DEF Orderly, AfterWhatItUses
<1>6. /\ held'[d] = held[d] \cup ({r} \ {"replayed"}) /\ tried'[d] = n + 1
      /\ pc'[d] = IF n + 1 < Len(Order(d)) THEN "start" ELSE "running"
  BY <1>1, <1>3 DEF PerDaemon
<1>7. Acquired(d, tried[d])' = held'[d]
  <2>1. Acquired(d, tried[d])' = ({"config"} \cup {Order(d)[i] : i \in 1..(n + 1)}) \ {"replayed"}
    BY <1>2, <1>6 DEF Acquired
  <2>2. 1..(n + 1) = (1..n) \cup {n + 1}
    BY <1>5
  <2>3. {Order(d)[i] : i \in 1..(n + 1)} = {Order(d)[i] : i \in 1..n} \cup {r}
    BY <2>2
  <2> QED
    BY <1>5, <1>6, <2>1, <2>3 DEF Acquired
<1>8. Closed(d)'
  <2>1. Uses(d, r) \subseteq held[d]
    <3>1. ASSUME NEW x \in Uses(d, r) PROVE x = "config" \/ \E j \in 1..n : Order(d)[j] = x
      <4>1. n + 1 \in 1..Len(Order(d)) /\ (n + 1) - 1 = n
        BY <1>5
      <4>2. AfterWhatItUses(d, Order(d))
        BY <1>5, AcquiredInOrder
      <4>3. x = "config" \/ \E j \in 1..((n + 1) - 1) : Order(d)[j] = x
        BY <3>1, <4>1, <4>2 DEF AfterWhatItUses
      <4> QED
        BY <4>1, <4>3
    <3>2. "replayed" \notin Uses(d, r)
      BY <1>5, UsesOf DEF Users
    <3> QED
      BY <1>5, <3>1, <3>2 DEF Acquired
  <2> QED
    BY <1>2, <1>5, <1>6, <2>1 DEF Closed
<1>9. tried'[d] \in 0..Len(Order(d)) /\ (pc'[d] = "start" => tried'[d] < Len(Order(d)))
      /\ (pc'[d] = "running" => tried'[d] = Len(Order(d))) /\ pc'[d] \in {"start", "running"}
  BY <1>5, <1>6
<1> QED
  BY <1>1, <1>2, <1>4, <1>5, <1>7, <1>8, <1>9 DEF Orderly

\* What is acquired is released.
LEMMA AcquiredIsReleased ==
    ASSUME NEW d, deployment[d].offline \in BOOLEAN, NEW n \in 0..Len(Order(d))
    PROVE  Acquired(d, n) \subseteq Released(d)
<1>1. Len(Order(d)) \in Nat
  BY AcquiredInOrder DEF AfterWhatItUses
<1>2. \A i \in 1..n : i \in 1..Len(Order(d))
  BY <1>1
<1>3. \A i \in 1..n : Order(d)[i] \in Released(d) \cup {"replayed"}
  BY <1>2, AcquiredInOrder DEF AfterWhatItUses
<1>4. "config" \in Released(d)
  BY DEF Released
<1> QED
  BY <1>3, <1>4 DEF Acquired

\* A start that fails goes to the cleanup with what it has so far.
LEMMA RefusedKeeps ==
    ASSUME IndInv, NEW d \in Daemons, Refused(d)
    PROVE  PerDaemon' /\ Orderly(d)'
<1>1. /\ pc[d] = "start" /\ UNCHANGED <<deployment, cfg, tried>>
      /\ status' = [status EXCEPT ![d] = 1] /\ pc' = [pc EXCEPT ![d] = "cleanup"]
  BY DEF Refused
<1>2. Order(d)' = Order(d) /\ \A x : Uses(d, x)' = Uses(d, x)
  BY <1>1, SameOrders
<1>3. Orderly(d) /\ PerDaemon
  BY DEF IndInv
<1>4. \E more \in {{}, {"backend_addrs"}, {"cursors"}} :
         /\ held' = [held EXCEPT ![d] = held[d] \cup more]
         /\ more = {"backend_addrs"} => Current(d) = "local_addrs"
  <2>1. CASE UNCHANGED held
    <3>1. held' = [held EXCEPT ![d] = held[d] \cup {}]
      BY <1>3, <2>1 DEF PerDaemon
    <3> QED
      BY <3>1
  <2> QED
    BY <2>1 DEF Refused
<1>5. PICK more \in {{}, {"backend_addrs"}, {"cursors"}} :
         /\ held' = [held EXCEPT ![d] = held[d] \cup more]
         /\ more = {"backend_addrs"} => Current(d) = "local_addrs"
  BY <1>4
<1>6. PerDaemon'
  BY <1>1, <1>3, <1>5 DEF PerDaemon, Daemons
<1>7. /\ held'[d] = held[d] \cup more /\ status'[d] = 1 /\ pc'[d] = "cleanup" /\ tried'[d] = tried[d]
  BY <1>1, <1>3, <1>5 DEF PerDaemon
<1>8. /\ tried[d] \in 0..Len(Order(d)) /\ Len(Order(d)) \in Nat /\ tried[d] < Len(Order(d))
      /\ held[d] = Acquired(d, tried[d]) /\ Closed(d) /\ deployment[d].offline \in BOOLEAN
  BY <1>1, <1>3, AcquiredInOrder DEF Orderly, AfterWhatItUses
<1>9. more \subseteq Released(d) \cup {"cursors"}
  <2>1. CASE more = {"backend_addrs"}
    <3>1. Order(d)[tried[d] + 1] = "local_addrs" /\ tried[d] + 1 \in 1..Len(Order(d))
      BY <1>5, <1>8, <2>1 DEF Current
    <3>2. "local_addrs" \in Released(d)
      BY <1>8, <3>1, AcquiredInOrder DEF AfterWhatItUses
    <3> QED
      BY <2>1, <3>2 DEF Released
  <2> QED
    BY <1>5, <2>1
<1>10. held'[d] \subseteq Released(d) \cup {"cursors"}
  BY <1>7, <1>8, <1>9, AcquiredIsReleased
<1>11. Closed(d)'
  <2>1. \A x \in more : Uses(d, x) = {}
    BY <1>5, <1>8, UsesOf DEF Users
  <2> QED
    BY <1>2, <1>7, <1>8, <2>1 DEF Closed
<1> QED
  BY <1>1, <1>2, <1>6, <1>7, <1>8, <1>10, <1>11 DEF Orderly

\* A daemon that was up is stopped.
LEMMA StopKeeps ==
    ASSUME IndInv, NEW d \in Daemons, Stop(d)
    PROVE  PerDaemon' /\ Orderly(d)'
<1>1. /\ pc[d] = "running" /\ UNCHANGED <<deployment, cfg, tried, held, status>>
      /\ pc' = [pc EXCEPT ![d] = "cleanup"]
  BY DEF Stop
<1>2. Order(d)' = Order(d) /\ \A x : Uses(d, x)' = Uses(d, x)
  BY <1>1, SameOrders
<1>3. Orderly(d) /\ PerDaemon
  BY DEF IndInv
<1>4. PerDaemon'
  BY <1>1, <1>3 DEF PerDaemon, Daemons
<1>5. pc'[d] = "cleanup"
  BY <1>1, <1>3 DEF PerDaemon
<1>6. held[d] \subseteq Released(d)
  BY <1>1, <1>3, AcquiredIsReleased DEF Orderly
<1>7. Closed(d)'
  BY <1>1, <1>2, <1>3 DEF Orderly, Closed
<1> QED
  BY <1>1, <1>2, <1>3, <1>4, <1>5, <1>6, <1>7 DEF Orderly

\* The first resource in the order of the cleanup that is held is used by none
\* that is held.
LEMMA ReleaseKeeps ==
    ASSUME IndInv, NEW d \in Daemons, Release(d)
    PROVE  PerDaemon' /\ Orderly(d)'
<1> DEFINE order == CleanupOrder(d)
           left == {i \in DOMAIN order : order[i] \in held[d]}
<1>1. pc[d] = "cleanup" /\ UNCHANGED <<deployment, cfg, tried, status>>
  BY DEF Release
<1>2. Order(d)' = Order(d) /\ \A x : Uses(d, x)' = Uses(d, x)
  BY <1>1, SameOrders
<1>3. Orderly(d) /\ PerDaemon
  BY DEF IndInv
<1>4. /\ held[d] \subseteq Released(d) \cup {"cursors"} /\ Closed(d) /\ deployment[d].offline \in BOOLEAN
      /\ tried[d] \in 0..Len(Order(d)) /\ (status[d] = 0) = (cfg[d] # <<>> /\ tried[d] = Len(Order(d)))
  BY <1>1, <1>3 DEF Orderly
<1>5. CASE left = {} /\ pc' = [pc EXCEPT ![d] = "exited"] /\ UNCHANGED held
  <2>1. PerDaemon'
    BY <1>1, <1>3, <1>5 DEF PerDaemon, Daemons
  <2>2. pc'[d] = "exited" /\ held'[d] = held[d]
    BY <1>3, <1>5 DEF PerDaemon
  <2>3. held[d] \subseteq {"cursors"}
    BY <1>4, <1>5, ReleasedInOrder
  <2>4. Closed(d)'
    BY <1>2, <1>4, <2>2 DEF Closed
  <2> QED
    BY <1>1, <1>2, <1>4, <2>1, <2>2, <2>3, <2>4 DEF Orderly
<1>6. ASSUME NEW i \in left, \A j \in left : i <= j,
             held' = [held EXCEPT ![d] = held[d] \ {order[i]}], UNCHANGED pc
      PROVE  PerDaemon' /\ Orderly(d)'
  <2>1. PerDaemon'
    BY <1>1, <1>3, <1>6 DEF PerDaemon, Daemons
  <2>2. pc'[d] = "cleanup" /\ held'[d] = held[d] \ {order[i]}
    BY <1>1, <1>3, <1>6 DEF PerDaemon
  <2>3. ASSUME NEW x \in held[d], order[i] \in Uses(d, x) PROVE x = order[i]
    <3>1. CASE x = "cursors"
      BY <1>4, <2>3, <3>1, UsesOf DEF Users
    <3>2. CASE x \in Released(d)
      <4>1. PICK j \in DOMAIN order : order[j] = x
        BY <1>4, <3>2, ReleasedInOrder
      <4>2. j <= i /\ j # i /\ i \in Int /\ j \in Int
        BY <1>4, <2>3, <4>1, ReleasedInOrder
      <4>3. i <= j
        BY <1>6, <4>1
      <4> QED
        BY <4>2, <4>3
    <3> QED
      BY <1>4, <3>1, <3>2
  <2>4. Closed(d)'
    BY <1>2, <1>4, <2>2, <2>3 DEF Closed
  <2>5. held'[d] \subseteq Released(d) \cup {"cursors"}
    BY <1>4, <2>2
  <2> QED
    BY <1>1, <1>2, <1>4, <2>1, <2>2, <2>4, <2>5 DEF Orderly
<1> QED
  BY <1>5, <1>6 DEF Release

-----------------------------------------------------------------------------
(* The theorems.                                                           *)

\* main() of every daemon keeps the invariant through every start, refusal, stop
\* and release.
THEOREM Inductive == Spec => []IndInv
<1>1. Init => IndInv
  <2> SUFFICES ASSUME Init PROVE IndInv
    OBVIOUS
  <2>1. PerDaemon
    BY DEF Init, PerDaemon
  <2>2. ASSUME NEW d \in Daemons PROVE Orderly(d)
    <3>1. deployment[d].offline \in BOOLEAN
      BY DeploymentsAssumption DEF Init, Daemons
    <3>2. Len(Order(d)) \in Nat
      BY <3>1, AcquiredInOrder DEF AfterWhatItUses
    <3>3. pc[d] = "load" /\ tried[d] = 0 /\ held[d] = {}
      BY DEF Init
    <3> QED
      BY <3>1, <3>2, <3>3 DEF Orderly, Closed
  <2> QED
    BY <2>1, <2>2 DEF IndInv
<1>2. IndInv /\ [Next]_vars => IndInv'
  <2> SUFFICES ASSUME IndInv, [Next]_vars PROVE IndInv'
    OBVIOUS
  <2>1. ASSUME NEW d \in Daemons, Load(d) \/ Acquire(d) \/ Refused(d) \/ Stop(d) \/ Release(d) PROVE IndInv'
    <3>1. PerDaemon' /\ Orderly(d)'
      BY <2>1, LoadKeeps, AcquireKeeps, RefusedKeeps, StopKeeps, ReleaseKeeps
    <3>2. UNCHANGED deployment /\ Daemons' = Daemons
      BY <2>1 DEF Load, Acquire, Refused, Stop, Release, Daemons
    <3>3. ASSUME NEW e \in Daemons, e # d PROVE Orderly(e)'
      <4>1. PerDaemon /\ Orderly(e)
        BY DEF IndInv
      <4>2. /\ pc'[e] = pc[e] /\ cfg'[e] = cfg[e] /\ tried'[e] = tried[e] /\ held'[e] = held[e]
            /\ status'[e] = status[e]
        BY <2>1, <3>3, <4>1 DEF Load, Acquire, Refused, Stop, Release, PerDaemon
      <4> QED
        BY <3>2, <4>1, <4>2, OthersKeep
    <3> QED
      BY <3>1, <3>2, <3>3 DEF IndInv
  <2>2. CASE UNCHANGED vars
    <3>1. PerDaemon' /\ Daemons' = Daemons
      BY <2>2 DEF IndInv, PerDaemon, vars, Daemons
    <3>2. ASSUME NEW e \in Daemons PROVE Orderly(e)'
      <4>1. Orderly(e)
        BY DEF IndInv
      <4> QED
        BY <2>2, <4>1, OthersKeep DEF vars
    <3> QED
      BY <3>1, <3>2 DEF IndInv
  <2> QED
    BY <2>1, <2>2 DEF Next
<1> QED
  BY <1>1, <1>2, PTL DEF Spec

\* Wherever a start fails, the cleanup label of main() joins a thread and closes
\* a client before it frees what they use, frees everything, and the daemon exits
\* with 0 only if it was up.
THEOREM NothingPulledAwayCorrect == Spec => []NothingPulledAway
<1>1. IndInv => NothingPulledAway
  BY DEF IndInv, Orderly, Closed, NothingPulledAway
<1> QED
  BY <1>1, Inductive, PTL

-----------------------------------------------------------------------------
(* The loops of the loaders.                                               *)

\* Every nonempty set of naturals has a smallest element.
LEMMA Smallest ==
    ASSUME NEW S \in SUBSET Nat, S # {}
    PROVE  \E x \in S : \A y \in S : ~ (y < x)
<1>1. PICK x \in S : \A y \in S : ~ (<<y, x>> \in OpToRel(<, Nat))
  BY NatLessThanWellFounded, WFMin
<1>2. ASSUME NEW y \in S PROVE ~ (y < x)
  BY <1>1 DEF OpToRel
<1> QED
  BY <1>2

\* A set that a loop enters and does not leave has every round of the loop.
LEMMA EveryRound ==
    ASSUME NEW N \in Nat, NEW P, 0 \in P, \A n \in 1..N : n - 1 \in P => n \in P
    PROVE  N \in P
<1> DEFINE Out == (0..N) \ P
<1> SUFFICES ASSUME Out # {} PROVE FALSE
  OBVIOUS
<1>1. PICK m \in Out : \A y \in Out : ~ (y < m)
  <2>1. Out \in SUBSET Nat
    OBVIOUS
  <2> HIDE DEF Out
  <2> QED
    BY <2>1, Smallest
<1>2. m \in 1..N /\ m - 1 \notin Out
  BY <1>1
<1> QED
  BY <1>1, <1>2

\* f goes through the first n pairs of section s, from the configuration c.
InSection(f, d, c, s, pairs, n) == f[0] = c /\ \A m \in 1..n : f[m] = SetKey(d, f[m - 1], s, pairs[m])

\* A parse_*_section() function is a loop over the pairs of its section.
LEMMA SectionLoop ==
    ASSUME NEW d, NEW c, NEW s \in DOMAIN Kinds(d), NEW node, IsMap(node), Len(node.pairs) \in Nat
    PROVE  \E f : /\ InSection(f, d, c, s, node.pairs, Len(node.pairs))
                  /\ ParseSection(d, c, s, node) = f[Len(node.pairs)]
<1> DEFINE ps == node.pairs
           N == Len(ps)
           Unrolls(f) == f = [n \in 0..N |-> IF n = 0 THEN c ELSE SetKey(d, f[n - 1], s, ps[n])]
           P == {n \in 0..N : \E f : InSection(f, d, c, s, ps, n)}
<1>0. N \in Nat
  OBVIOUS
<1>1. ParseSection(d, c, s, node) = (CHOOSE g : Unrolls(g))[N]
  BY DEF ParseSection
<1> HIDE DEF ps, N
<1>2. 0 \in P
  <2>1. InSection([n \in {0} |-> c], d, c, s, ps, 0)
    BY DEF InSection
  <2> QED
    BY <1>0, <2>1
<1>3. ASSUME NEW n \in 1..N, n - 1 \in P PROVE n \in P
  <2>1. PICK f : InSection(f, d, c, s, ps, n - 1)
    BY <1>3
  <2> DEFINE v == SetKey(d, f[n - 1], s, ps[n])
             g == [m \in 0..n |-> IF m = n THEN v ELSE f[m]]
  <2>2. n \in Nat /\ n # 0
    BY <1>0
  <2> HIDE DEF v
  <2>3. g[0] = c /\ g[n] = v /\ \A m \in 0..(n - 1) : g[m] = f[m]
    BY <2>1, <2>2 DEF InSection
  <2> HIDE DEF g
  <2>4. ASSUME NEW m \in 1..n PROVE g[m] = SetKey(d, g[m - 1], s, ps[m])
    <3>1. g[m - 1] = f[m - 1] /\ m - 1 \in 0..(n - 1)
      BY <2>2, <2>3
    <3>2. CASE m = n
      BY <2>3, <3>1, <3>2 DEF v
    <3>3. CASE m # n
      <4>1. m \in 1..(n - 1) /\ m \in 0..(n - 1)
        BY <2>2, <3>3
      <4> QED
        BY <2>1, <2>3, <3>1, <4>1 DEF InSection
    <3> QED
      BY <3>2, <3>3
  <2>5. InSection(g, d, c, s, ps, n)
    BY <2>3, <2>4 DEF InSection
  <2> QED
    BY <2>5
<1>4. N \in P
  <2> HIDE DEF P
  <2> QED
    BY <1>0, <1>2, <1>3, EveryRound
<1>5. PICK f : InSection(f, d, c, s, ps, N)
  BY <1>4
<1>6. Unrolls([n \in 0..N |-> f[n]])
  <2> DEFINE g == [n \in 0..N |-> f[n]]
  <2>1. ASSUME NEW n \in 0..N PROVE g[n] = IF n = 0 THEN c ELSE SetKey(d, g[n - 1], s, ps[n])
    <3>1. CASE n = 0
      BY <1>5, <3>1 DEF InSection
    <3>2. CASE n # 0
      <4>1. n \in 1..N /\ n - 1 \in 0..N
        BY <1>0, <3>2
      <4>2. g[n] = f[n] /\ g[n - 1] = f[n - 1]
        BY <4>1
      <4>3. f[n] = SetKey(d, f[n - 1], s, ps[n])
        BY <1>5, <4>1 DEF InSection
      <4> QED
        BY <3>2, <4>2, <4>3
    <3> QED
      BY <3>1, <3>2
  <2>2. g = [n \in 0..N |-> g[n]]
    OBVIOUS
  <2> HIDE DEF g
  <2>3. g = [n \in 0..N |-> IF n = 0 THEN c ELSE SetKey(d, g[n - 1], s, ps[n])]
    BY <2>1, <2>2
  <2> QED
    BY <2>3 DEF g
<1> DEFINE w == CHOOSE g : Unrolls(g)
<1>7. Unrolls(w)
  <2> HIDE DEF Unrolls
  <2> QED
    BY <1>6, Zenon
<1> HIDE DEF w
<1>8. w = [n \in 0..N |-> IF n = 0 THEN c ELSE SetKey(d, w[n - 1], s, ps[n])]
  BY <1>7
<1>9. InSection(w, d, c, s, ps, N)
  BY <1>0, <1>8 DEF InSection
<1>10. ParseSection(d, c, s, node) = w[N]
  BY <1>1 DEF w
<1> QED
  BY <1>9, <1>10 DEF ps, N

\* f goes through the first n sections of a file, from the defaults.
InFile(f, d, pairs, n) ==
    f[0] = Defaults(d) /\ \A m \in 1..n : f[m] = ParseSection(d, f[m - 1], pairs[m][1], pairs[m][2])

\* cf_config_load() is a loop over the sections of the document.
LEMMA FileLoop ==
    ASSUME NEW d, NEW root, Len(root.pairs) \in Nat
    PROVE  \E f : /\ InFile(f, d, root.pairs, Len(root.pairs))
                  /\ ParseFile(d, root) = f[Len(root.pairs)]
<1> DEFINE ps == root.pairs
           N == Len(ps)
           Unrolls(f) ==
               f = [n \in 0..N |-> IF n = 0 THEN Defaults(d) ELSE ParseSection(d, f[n - 1], ps[n][1], ps[n][2])]
           P == {n \in 0..N : \E f : InFile(f, d, ps, n)}
<1>0. N \in Nat
  OBVIOUS
<1>1. ParseFile(d, root) = (CHOOSE g : Unrolls(g))[N]
  BY DEF ParseFile
<1> HIDE DEF ps, N
<1>2. 0 \in P
  <2>1. InFile([n \in {0} |-> Defaults(d)], d, ps, 0)
    BY DEF InFile
  <2> QED
    BY <1>0, <2>1
<1>3. ASSUME NEW n \in 1..N, n - 1 \in P PROVE n \in P
  <2>1. PICK f : InFile(f, d, ps, n - 1)
    BY <1>3
  <2> DEFINE v == ParseSection(d, f[n - 1], ps[n][1], ps[n][2])
             g == [m \in 0..n |-> IF m = n THEN v ELSE f[m]]
  <2>2. n \in Nat /\ n # 0
    BY <1>0
  <2> HIDE DEF v
  <2>3. g[0] = Defaults(d) /\ g[n] = v /\ \A m \in 0..(n - 1) : g[m] = f[m]
    BY <2>1, <2>2 DEF InFile
  <2> HIDE DEF g
  <2>4. ASSUME NEW m \in 1..n PROVE g[m] = ParseSection(d, g[m - 1], ps[m][1], ps[m][2])
    <3>1. g[m - 1] = f[m - 1] /\ m - 1 \in 0..(n - 1)
      BY <2>2, <2>3
    <3>2. CASE m = n
      BY <2>3, <3>1, <3>2 DEF v
    <3>3. CASE m # n
      <4>1. m \in 1..(n - 1) /\ m \in 0..(n - 1)
        BY <2>2, <3>3
      <4> QED
        BY <2>1, <2>3, <3>1, <4>1 DEF InFile
    <3> QED
      BY <3>2, <3>3
  <2>5. InFile(g, d, ps, n)
    BY <2>3, <2>4 DEF InFile
  <2> QED
    BY <2>5
<1>4. N \in P
  <2> HIDE DEF P
  <2> QED
    BY <1>0, <1>2, <1>3, EveryRound
<1>5. PICK f : InFile(f, d, ps, N)
  BY <1>4
<1>6. Unrolls([n \in 0..N |-> f[n]])
  <2> DEFINE g == [n \in 0..N |-> f[n]]
  <2>1. ASSUME NEW n \in 0..N
        PROVE  g[n] = IF n = 0 THEN Defaults(d) ELSE ParseSection(d, g[n - 1], ps[n][1], ps[n][2])
    <3>1. CASE n = 0
      BY <1>5, <3>1 DEF InFile
    <3>2. CASE n # 0
      <4>1. n \in 1..N /\ n - 1 \in 0..N
        BY <1>0, <3>2
      <4>2. g[n] = f[n] /\ g[n - 1] = f[n - 1]
        BY <4>1
      <4>3. f[n] = ParseSection(d, f[n - 1], ps[n][1], ps[n][2])
        BY <1>5, <4>1 DEF InFile
      <4> QED
        BY <3>2, <4>2, <4>3
    <3> QED
      BY <3>1, <3>2
  <2>2. g = [n \in 0..N |-> g[n]]
    OBVIOUS
  <2> HIDE DEF g
  <2>3. g = [n \in 0..N |-> IF n = 0 THEN Defaults(d) ELSE ParseSection(d, g[n - 1], ps[n][1], ps[n][2])]
    BY <2>1, <2>2
  <2> QED
    BY <2>3 DEF g
<1> DEFINE w == CHOOSE g : Unrolls(g)
<1>7. Unrolls(w)
  <2> HIDE DEF Unrolls
  <2> QED
    BY <1>6, Zenon
<1> HIDE DEF w
<1>8. w = [n \in 0..N |-> IF n = 0 THEN Defaults(d) ELSE ParseSection(d, w[n - 1], ps[n][1], ps[n][2])]
  BY <1>7
<1>9. InFile(w, d, ps, N)
  BY <1>0, <1>8 DEF InFile
<1>10. ParseFile(d, root) = w[N]
  BY <1>1 DEF w
<1> QED
  BY <1>9, <1>10 DEF ps, N

-----------------------------------------------------------------------------
(* What a document says of a setting.                                      *)

\* A configuration of source d has all its settings and no others.
Shaped(d, c) == DOMAIN c = DOMAIN Kinds(d) /\ \A s \in DOMAIN c : DOMAIN c[s] = DOMAIN Kinds(d)[s]

\* The pairs up to number n of section s that give an acceptable value for k.
Usable(d, s, k, pairs, n) == {j \in 1..n : pairs[j][1] = k /\ Parse(Kinds(d)[s][k], pairs[j][2]) # <<>>}

\* e is c but for the setting that pair gives a value for.
Wrote(d, c, e, s, pair) ==
    \A r \in DOMAIN Kinds(d) : \A k \in DOMAIN Kinds(d)[r] :
        e[r][k] = IF r = s /\ k = pair[1] /\ Parse(Kinds(d)[r][k], pair[2]) # <<>>
                  THEN Parse(Kinds(d)[r][k], pair[2])[1] ELSE c[r][k]

\* One pair changes at most one setting.
LEMMA SetKeyEffect ==
    ASSUME NEW d, NEW c, Shaped(d, c), NEW s \in DOMAIN Kinds(d), NEW pair
    PROVE  LET e == SetKey(d, c, s, pair) IN Shaped(d, e) /\ Wrote(d, c, e, s, pair)
<1> DEFINE e == SetKey(d, c, s, pair)
           K == pair[1]
           v == Parse(Kinds(d)[s][K], pair[2])
<1>1. CASE K \in DOMAIN Kinds(d)[s] /\ v # <<>>
  <2>1. e = [c EXCEPT ![s][K] = v[1]]
    BY <1>1 DEF SetKey
  <2> HIDE DEF e, v
  <2> HIDE DEF K
  <2>2. s \in DOMAIN c /\ DOMAIN e = DOMAIN c /\ DOMAIN e[s] = DOMAIN c[s]
    BY <2>1 DEF Shaped
  <2>3. \A r \in DOMAIN c : r # s => e[r] = c[r]
    BY <2>1
  <2>4. \A k \in DOMAIN c[s] : e[s][k] = IF k = K THEN v[1] ELSE c[s][k]
    BY <2>1, <2>2
  <2>5. Shaped(d, e)
    BY <2>2, <2>3 DEF Shaped
  <2>6. ASSUME NEW r \in DOMAIN Kinds(d), NEW k \in DOMAIN Kinds(d)[r]
        PROVE  e[r][k] = IF r = s /\ k = K /\ Parse(Kinds(d)[r][k], pair[2]) # <<>>
                         THEN Parse(Kinds(d)[r][k], pair[2])[1] ELSE c[r][k]
    <3>1. r \in DOMAIN c /\ k \in DOMAIN c[r]
      BY DEF Shaped
    <3>2. CASE r = s /\ k = K
      BY <1>1, <2>4, <3>1, <3>2 DEF v
    <3>3. CASE ~(r = s /\ k = K)
      BY <2>3, <2>4, <3>1, <3>3
    <3> QED
      BY <3>2, <3>3
  <2> QED
    BY <2>5, <2>6 DEF Wrote, e, K
<1>2. CASE K \notin DOMAIN Kinds(d)[s] \/ v = <<>>
  <2>1. e = c
    BY <1>2 DEF SetKey
  <2> HIDE DEF e
  <2> QED
    BY <1>2, <2>1 DEF Wrote, e
<1> QED
  BY <1>1, <1>2

\* e is c after the first n pairs of section s: a setting of the section is the
\* last value given for it.
SectionRead(d, c, e, s, pairs, n) ==
    \A r \in DOMAIN Kinds(d) : \A k \in DOMAIN Kinds(d)[r] :
        \/ e[r][k] = c[r][k] /\ (r = s => Usable(d, r, k, pairs, n) = {})
        \/ r = s /\ \E j \in Usable(d, r, k, pairs, n) :
                       /\ e[r][k] = Parse(Kinds(d)[r][k], pairs[j][2])[1]
                       /\ \A m \in Usable(d, r, k, pairs, n) : m <= j

\* One pair more.
LEMMA ReadOne ==
    ASSUME NEW d, NEW c, NEW e, NEW g, NEW s, NEW pairs, NEW n \in Nat, n # 0,
           SectionRead(d, c, e, s, pairs, n - 1), Wrote(d, e, g, s, pairs[n])
    PROVE  SectionRead(d, c, g, s, pairs, n)
<1> SUFFICES ASSUME NEW r \in DOMAIN Kinds(d), NEW k \in DOMAIN Kinds(d)[r]
             PROVE  \/ g[r][k] = c[r][k] /\ (r = s => Usable(d, r, k, pairs, n) = {})
                    \/ r = s /\ \E j \in Usable(d, r, k, pairs, n) :
                                   /\ g[r][k] = Parse(Kinds(d)[r][k], pairs[j][2])[1]
                                   /\ \A m \in Usable(d, r, k, pairs, n) : m <= j
  BY DEF SectionRead
<1> DEFINE A == Usable(d, r, k, pairs, n - 1)
           B == Usable(d, r, k, pairs, n)
           v(j) == Parse(Kinds(d)[r][k], pairs[j][2])
<1>1. \/ e[r][k] = c[r][k] /\ (r = s => A = {})
      \/ r = s /\ \E j \in A : e[r][k] = v(j)[1] /\ \A m \in A : m <= j
  BY DEF SectionRead
<1>2. g[r][k] = IF r = s /\ k = pairs[n][1] /\ v(n) # <<>> THEN v(n)[1] ELSE e[r][k]
  BY DEF Wrote
<1>3. 1..n = (1..(n - 1)) \cup {n}
  OBVIOUS
<1>4. \A m \in A : m <= n
  BY DEF Usable
<1>5. CASE pairs[n][1] = k /\ v(n) # <<>>
  <2>1. B = A \cup {n}
    BY <1>3, <1>5 DEF Usable
  <2>2. CASE r = s
    <3>1. g[r][k] = v(n)[1]
      BY <1>2, <1>5, <2>2
    <3>2. n \in B /\ \A m \in B : m <= n
      BY <1>4, <2>1
    <3> QED
      BY <2>2, <3>1, <3>2
  <2>3. CASE r # s
    BY <1>1, <1>2, <2>3
  <2> QED
    BY <2>2, <2>3
<1>6. CASE ~(pairs[n][1] = k /\ v(n) # <<>>)
  <2>1. B = A
    BY <1>3, <1>6 DEF Usable
  <2>2. g[r][k] = e[r][k]
    BY <1>2, <1>6
  <2> HIDE DEF A, B, v
  <2>3. \/ g[r][k] = c[r][k] /\ (r = s => B = {})
        \/ r = s /\ \E j \in B : g[r][k] = v(j)[1] /\ \A m \in B : m <= j
    BY <1>1, <2>1, <2>2
  <2> QED
    BY <2>3 DEF B, v
<1> QED
  BY <1>5, <1>6

\* A section as a whole.
LEMMA SectionEffect ==
    ASSUME NEW d, NEW c, Shaped(d, c), NEW s \in DOMAIN Kinds(d), NEW node, IsMap(node), Len(node.pairs) \in Nat
    PROVE  LET e == ParseSection(d, c, s, node)
           IN  Shaped(d, e) /\ SectionRead(d, c, e, s, node.pairs, Len(node.pairs))
<1> DEFINE N == Len(node.pairs)
           ps == node.pairs
<1>1. PICK f : InSection(f, d, c, s, ps, N) /\ ParseSection(d, c, s, node) = f[N]
  BY SectionLoop
<1> HIDE DEF ps
<1>2. N \in Nat
  BY DEF ps
<1> HIDE DEF N
<1> DEFINE P == {n \in 0..N : Shaped(d, f[n]) /\ SectionRead(d, c, f[n], s, ps, n)}
<1>3. 0 \in P
  <2>1. f[0] = c /\ \A r, k : Usable(d, r, k, ps, 0) = {}
    BY <1>1 DEF InSection, Usable
  <2> QED
    BY <1>2, <2>1 DEF SectionRead
<1>4. ASSUME NEW n \in 1..N, n - 1 \in P PROVE n \in P
  <2>1. f[n] = SetKey(d, f[n - 1], s, ps[n])
    BY <1>1 DEF InSection
  <2>2. Shaped(d, f[n - 1]) /\ SectionRead(d, c, f[n - 1], s, ps, n - 1)
    BY <1>4
  <2>3. Shaped(d, f[n]) /\ Wrote(d, f[n - 1], f[n], s, ps[n])
    BY <2>1, <2>2, SetKeyEffect
  <2>4. n \in Nat /\ n # 0
    BY <1>2
  <2>5. SectionRead(d, c, f[n], s, ps, n)
    BY <2>2, <2>3, <2>4, ReadOne
  <2> QED
    BY <2>3, <2>5
<1>5. N \in P
  <2> HIDE DEF P
  <2> QED
    BY <1>2, <1>3, <1>4, EveryRound
<1> QED
  BY <1>1, <1>5 DEF N, ps

\* The sections named s among the first n.
SectionsTo(file, s, n) == {i \in 1..n : file.pairs[i][1] = s /\ IsMap(file.pairs[i][2])}

\* The values of key k in section number i.
GivenIn(d, file, s, k, i) == Usable(d, s, k, file.pairs[i][2].pairs, Len(file.pairs[i][2].pairs))

\* v is what the first n sections say of a setting.
SettingTo(d, file, s, k, v, n) ==
    \/ (\A i \in SectionsTo(file, s, n) : GivenIn(d, file, s, k, i) = {}) /\ v = Defaults(d)[s][k]
    \/ \E i \in SectionsTo(file, s, n) : \E j \in GivenIn(d, file, s, k, i) :
          /\ v = Parse(Kinds(d)[s][k], file.pairs[i][2].pairs[j][2])[1]
          /\ \A m \in GivenIn(d, file, s, k, i) : m <= j
          /\ \A h \in SectionsTo(file, s, n) : h > i => GivenIn(d, file, s, k, h) = {}

\* All settings are.
FileRead(d, c, file, n) ==
    \A s \in DOMAIN Kinds(d) : \A k \in DOMAIN Kinds(d)[s] : SettingTo(d, file, s, k, c[s][k], n)

\* A section that is no section of the setting changes nothing about it.
LEMMA PassedOver ==
    ASSUME NEW d, NEW file, NEW s, NEW k, NEW v, NEW n \in Nat, n # 0, SettingTo(d, file, s, k, v, n - 1),
           n \in SectionsTo(file, s, n) => GivenIn(d, file, s, k, n) = {}
    PROVE  SettingTo(d, file, s, k, v, n)
<1> DEFINE A == SectionsTo(file, s, n - 1)
           B == SectionsTo(file, s, n)
           G(i) == GivenIn(d, file, s, k, i)
           val(i, j) == Parse(Kinds(d)[s][k], file.pairs[i][2].pairs[j][2])[1]
<1>1. A \subseteq B /\ \A i \in B : i \in A \/ (i = n /\ G(i) = {})
  <2>1. 1..n = (1..(n - 1)) \cup {n}
    OBVIOUS
  <2> QED
    BY <2>1 DEF SectionsTo
<1>2. \/ (\A i \in A : G(i) = {}) /\ v = Defaults(d)[s][k]
      \/ \E i \in A : \E j \in G(i) :
             v = val(i, j) /\ (\A m \in G(i) : m <= j) /\ \A h \in A : h > i => G(h) = {}
  BY DEF SettingTo
<1> HIDE DEF A, B, G, val
<1>3. \/ (\A i \in B : G(i) = {}) /\ v = Defaults(d)[s][k]
      \/ \E i \in B : \E j \in G(i) :
             v = val(i, j) /\ (\A m \in G(i) : m <= j) /\ \A h \in B : h > i => G(h) = {}
  BY <1>1, <1>2
<1> QED
  BY <1>3 DEF SettingTo, B, G, val

\* A section that gives a value for the setting decides it.
LEMMA Decided ==
    ASSUME NEW d, NEW file, NEW s, NEW k, NEW n \in Nat, n \in SectionsTo(file, s, n),
           NEW j \in GivenIn(d, file, s, k, n), \A m \in GivenIn(d, file, s, k, n) : m <= j
    PROVE  SettingTo(d, file, s, k, Parse(Kinds(d)[s][k], file.pairs[n][2].pairs[j][2])[1], n)
<1>1. \A h \in SectionsTo(file, s, n) : ~(h > n)
  BY DEF SectionsTo
<1> QED
  BY <1>1 DEF SettingTo

\* One section more.
LEMMA FileOne ==
    ASSUME NEW d, NEW file, NEW n \in Nat, n # 0, NEW c, Shaped(d, c), FileRead(d, c, file, n - 1),
           IsMap(file.pairs[n][2]) => Len(file.pairs[n][2].pairs) \in Nat
    PROVE  LET e == ParseSection(d, c, file.pairs[n][1], file.pairs[n][2])
           IN  Shaped(d, e) /\ FileRead(d, e, file, n)
<1> DEFINE t1 == file.pairs[n][1]
           node == file.pairs[n][2]
           e == ParseSection(d, c, t1, node)
<1>0. n \in 1..n
  OBVIOUS
<1>1. CASE t1 \in DOMAIN Kinds(d) /\ IsMap(node)
  <2>1. Shaped(d, e) /\ SectionRead(d, c, e, t1, node.pairs, Len(node.pairs))
    BY <1>1, SectionEffect
  <2> HIDE DEF e
  <2>2. ASSUME NEW s \in DOMAIN Kinds(d), NEW k \in DOMAIN Kinds(d)[s]
        PROVE  SettingTo(d, file, s, k, e[s][k], n)
    <3>1. SettingTo(d, file, s, k, c[s][k], n - 1)
      BY DEF FileRead
    <3>2. CASE e[s][k] = c[s][k] /\ (s = t1 => Usable(d, s, k, node.pairs, Len(node.pairs)) = {})
      <4>1. n \in SectionsTo(file, s, n) => GivenIn(d, file, s, k, n) = {}
        BY <3>2 DEF SectionsTo, GivenIn
      <4> QED
        BY <3>1, <3>2, <4>1, PassedOver
    <3>3. CASE s = t1 /\ \E j \in Usable(d, s, k, node.pairs, Len(node.pairs)) :
                            /\ e[s][k] = Parse(Kinds(d)[s][k], node.pairs[j][2])[1]
                            /\ \A m \in Usable(d, s, k, node.pairs, Len(node.pairs)) : m <= j
      <4>1. PICK j \in GivenIn(d, file, s, k, n) : /\ e[s][k] = Parse(Kinds(d)[s][k], node.pairs[j][2])[1]
                                                   /\ \A m \in GivenIn(d, file, s, k, n) : m <= j
        BY <3>3 DEF GivenIn
      <4>2. n \in SectionsTo(file, s, n)
        BY <1>0, <1>1, <3>3 DEF SectionsTo
      <4>3. SettingTo(d, file, s, k, Parse(Kinds(d)[s][k], file.pairs[n][2].pairs[j][2])[1], n)
        BY <4>1, <4>2, Decided
      <4> QED
        BY <4>1, <4>3
    <3> QED
      BY <2>1, <3>2, <3>3 DEF SectionRead
  <2> QED
    BY <2>1, <2>2 DEF FileRead, e
<1>2. CASE ~(t1 \in DOMAIN Kinds(d) /\ IsMap(node))
  <2>1. e = c
    BY <1>2 DEF ParseSection
  <2> HIDE DEF e
  <2>2. ASSUME NEW s \in DOMAIN Kinds(d), NEW k \in DOMAIN Kinds(d)[s]
        PROVE  SettingTo(d, file, s, k, c[s][k], n)
    <3>1. SettingTo(d, file, s, k, c[s][k], n - 1)
      BY DEF FileRead
    <3>2. n \notin SectionsTo(file, s, n)
      BY <1>2 DEF SectionsTo
    <3> QED
      BY <3>1, <3>2, PassedOver
  <2> QED
    BY <2>1, <2>2 DEF FileRead, e
<1> QED
  BY <1>1, <1>2

\* The defaults are a configuration.
LEMMA DefaultsShaped ==
    ASSUME NEW d \in Sources
    PROVE  Shaped(d, Defaults(d))
<1>1. CASE d = "dns"
  <2>1. /\ DOMAIN DnsKinds = {"service", "capture", "stats", "queues", "redis", "dns"}
        /\ DOMAIN DnsDefaults = {"service", "capture", "stats", "queues", "redis", "dns"}
    BY DEF DnsKinds, DnsDefaults, Joined, CommonKinds, CommonDefaults
  <2>2. \A s \in {"service", "capture", "stats"} : DOMAIN DnsDefaults[s] = DOMAIN DnsKinds[s]
    BY DEF DnsKinds, DnsDefaults, Joined, CommonKinds, CommonDefaults
  <2>3. /\ DOMAIN DnsDefaults["queues"] = DOMAIN DnsKinds["queues"]
        /\ DOMAIN DnsDefaults["dns"] = DOMAIN DnsKinds["dns"]
    BY DEF DnsKinds, DnsDefaults, Joined, CommonKinds, CommonDefaults
  <2>4. DOMAIN DnsDefaults["redis"] = DOMAIN DnsKinds["redis"]
    BY DEF DnsKinds, DnsDefaults, Joined, CommonKinds, CommonDefaults, RedisKinds,
             RedisDefaults
  <2> QED
    BY <1>1, <2>1, <2>2, <2>3, <2>4 DEF Shaped, Kinds, Defaults
<1>2. CASE d = "dhcp"
  <2>1. /\ DOMAIN DhcpKinds = {"service", "capture", "stats", "queues", "redis"}
        /\ DOMAIN DhcpDefaults = {"service", "capture", "stats", "queues", "redis"}
    BY DEF DhcpKinds, DhcpDefaults, Joined, CommonKinds, CommonDefaults
  <2>2. \A s \in {"service", "capture", "stats"} : DOMAIN DhcpDefaults[s] = DOMAIN DhcpKinds[s]
    BY DEF DhcpKinds, DhcpDefaults, Joined, CommonKinds, CommonDefaults
  <2>3. DOMAIN DhcpDefaults["queues"] = DOMAIN DhcpKinds["queues"]
    BY DEF DhcpKinds, DhcpDefaults, Joined, CommonKinds, CommonDefaults
  <2>4. DOMAIN DhcpDefaults["redis"] = DOMAIN DhcpKinds["redis"]
    BY DEF DhcpKinds, DhcpDefaults, Joined, CommonKinds, CommonDefaults, RedisKinds,
             RedisDefaults
  <2> QED
    BY <1>2, <2>1, <2>2, <2>3, <2>4 DEF Shaped, Kinds, Defaults
<1> QED
  BY <1>1, <1>2 DEF Sources

\* What the loop over a document makes of the defaults.
LEMMA FileEffect ==
    ASSUME NEW d \in Sources, NEW file, IsMap(file), IsDocument(file)
    PROVE  LET c == ParseFile(d, file)
           IN  /\ Shaped(d, c)
               /\ \A s \in DOMAIN Kinds(d) : \A k \in DOMAIN Kinds(d)[s] : IsSetting(d, file, s, k, c[s][k])
<1> DEFINE ps == file.pairs
           N == Len(ps)
           c == ParseFile(d, file)
<1>1. N \in Nat /\ DOMAIN ps = 1..N
  BY DEF IsDocument, IsList
<1>2. \A i \in 1..N : IsMap(ps[i][2]) => /\ Len(ps[i][2].pairs) \in Nat
                                         /\ DOMAIN ps[i][2].pairs = 1..Len(ps[i][2].pairs)
  BY <1>1 DEF IsDocument, IsSection, IsList
<1>3. PICK f : InFile(f, d, ps, N) /\ c = f[N]
  BY <1>1, FileLoop
<1> HIDE DEF N, c
<1> DEFINE P == {n \in 0..N : Shaped(d, f[n]) /\ FileRead(d, f[n], file, n)}
<1>4. 0 \in P
  <2>1. f[0] = Defaults(d) /\ \A s : SectionsTo(file, s, 0) = {}
    BY <1>3 DEF InFile, SectionsTo
  <2>2. Shaped(d, Defaults(d))
    BY DefaultsShaped
  <2> QED
    BY <1>1, <2>1, <2>2 DEF FileRead, SettingTo
<1>5. ASSUME NEW n \in 1..N, n - 1 \in P PROVE n \in P
  <2>1. f[n] = ParseSection(d, f[n - 1], ps[n][1], ps[n][2])
    BY <1>3 DEF InFile
  <2>2. Shaped(d, f[n - 1]) /\ FileRead(d, f[n - 1], file, n - 1)
    BY <1>5
  <2>3. n \in Nat /\ n # 0
    BY <1>1
  <2>4. Shaped(d, f[n]) /\ FileRead(d, f[n], file, n)
    BY <1>2, <2>1, <2>2, <2>3, FileOne
  <2> QED
    BY <2>4
<1>6. N \in P
  <2> HIDE DEF P
  <2> QED
    BY <1>1, <1>4, <1>5, EveryRound
<1>7. Shaped(d, c) /\ FileRead(d, c, file, N)
  BY <1>3, <1>6
<1>8. ASSUME NEW s \in DOMAIN Kinds(d), NEW k \in DOMAIN Kinds(d)[s] PROVE IsSetting(d, file, s, k, c[s][k])
  <2>1. Sections(file, s) = SectionsTo(file, s, N)
    BY <1>1 DEF Sections, SectionsTo
  <2>2. ASSUME NEW i \in SectionsTo(file, s, N) PROVE Given(d, file, s, k, i) = GivenIn(d, file, s, k, i)
    <3>1. DOMAIN ps[i][2].pairs = 1..Len(ps[i][2].pairs)
      BY <1>2 DEF SectionsTo
    <3> QED
      BY <3>1 DEF Given, GivenIn, Usable
  <2>3. SettingTo(d, file, s, k, c[s][k], N)
    BY <1>7 DEF FileRead
  <2> QED
    BY <2>1, <2>2, <2>3 DEF IsSetting, SettingTo
<1> QED
  BY <1>7, <1>8 DEF c

-----------------------------------------------------------------------------
(* What the rest of a source relies on.                                    *)

\* The settings that the other parts of a source depend on, and what is built in.
LEMMA KindsAre ==
    ASSUME NEW d \in Sources
    PROVE  /\ {"service", "capture", "stats", "queues", "redis"} \subseteq DOMAIN Kinds(d)
           /\ "on_full" \in DOMAIN Kinds(d)["queues"] /\ "interval_s" \in DOMAIN Kinds(d)["stats"]
           /\ "xadd_batch_size" \in DOMAIN Kinds(d)["redis"]
           /\ "xadd_flush_interval_ms" \in DOMAIN Kinds(d)["redis"]
           /\ Kinds(d)["queues"]["on_full"] = "on_full" /\ Kinds(d)["stats"]["interval_s"] = "positive"
           /\ Kinds(d)["redis"]["xadd_batch_size"] = "u32"
           /\ Kinds(d)["redis"]["xadd_flush_interval_ms"] = "u32"
           /\ Defaults(d)["queues"]["on_full"] = "drop_newest" /\ Defaults(d)["stats"]["interval_s"] = 10
           /\ Defaults(d)["redis"]["xadd_batch_size"] = 100
           /\ Defaults(d)["redis"]["xadd_flush_interval_ms"] = 10
<1>1. CASE d = "dns"
  BY <1>1 DEF Kinds, Defaults, DnsKinds, DnsDefaults, Joined, CommonKinds, CommonDefaults, RedisKinds,
             RedisDefaults
<1>2. CASE d = "dhcp"
  BY <1>2 DEF Kinds, Defaults, DhcpKinds, DhcpDefaults, Joined, CommonKinds, CommonDefaults, RedisKinds,
             RedisDefaults
<1> QED
  BY <1>1, <1>2 DEF Sources

\* What the parsers let through.
LEMMA ParsedIs ==
    ASSUME NEW node, IsNumeral(node)
    PROVE  /\ Parse("on_full", node) # <<>> => Parse("on_full", node)[1] \in {"drop_newest", "block"}
           /\ Parse("positive", node) # <<>> => Parse("positive", node)[1] \in Nat \ {0}
           /\ Parse("u32", node) # <<>> => Parse("u32", node)[1] \in Nat
<1>1. /\ Parse("on_full", node) = ParseWord(node, OnFullWords) /\ Parse("positive", node) = ParsePositive(node)
      /\ Parse("u32", node) = ParseU32(node)
  BY DEF Parse
<1>2. ParseWord(node, OnFullWords) # <<>> => ParseWord(node, OnFullWords)[1] \in {"drop_newest", "block"}
  <2>1. \A w \in DOMAIN OnFullWords : OnFullWords[w] \in {"drop_newest", "block"}
    BY DEF OnFullWords
  <2> QED
    BY <2>1 DEF ParseWord
<1>3. ParseU32(node) # <<>> => ParseU32(node) = node.number /\ node.number[1] \in Nat
  BY DEF ParseU32, IsNumeral
<1>4. ParsePositive(node) # <<>> => ParsePositive(node) = node.number /\ node.number[1] \in Nat \ {0}
  BY <1>3 DEF ParsePositive
<1> QED
  BY <1>1, <1>2, <1>3, <1>4

\* So a setting read from a document is the default or such a value.
LEMMA SettingIs ==
    ASSUME NEW d, NEW file, IsMap(file), IsDocument(file), NEW s, NEW k, NEW v, IsSetting(d, file, s, k, v)
    PROVE  \/ v = Defaults(d)[s][k]
           \/ \E node : /\ IsNumeral(node) /\ Parse(Kinds(d)[s][k], node) # <<>>
                        /\ v = Parse(Kinds(d)[s][k], node)[1]
<1>1. CASE v = Defaults(d)[s][k]
  BY <1>1
<1>2. CASE \E i \in Sections(file, s) : \E j \in Given(d, file, s, k, i) :
               v = Parse(Kinds(d)[s][k], file.pairs[i][2].pairs[j][2])[1]
  <2>0. PICK i \in Sections(file, s) : \E j \in Given(d, file, s, k, i) :
               v = Parse(Kinds(d)[s][k], file.pairs[i][2].pairs[j][2])[1]
    BY <1>2
  <2>1. PICK j \in Given(d, file, s, k, i) : v = Parse(Kinds(d)[s][k], file.pairs[i][2].pairs[j][2])[1]
    BY <2>0
  <2> DEFINE node == file.pairs[i][2].pairs[j][2]
  <2>2. IsNumeral(node)
    BY DEF Sections, Given, IsDocument, IsSection
  <2>3. Parse(Kinds(d)[s][k], node) # <<>>
    BY DEF Given
  <2> HIDE DEF node
  <2>4. v = Parse(Kinds(d)[s][k], node)[1]
    BY <2>1 DEF node
  <2> QED
    BY <2>2, <2>3, <2>4
<1> QED
  BY <1>1, <1>2 DEF IsSetting

\* The environment changes at most the three settings it decides.
LEMMA EnvEffect ==
    ASSUME NEW d \in Sources, NEW c, Shaped(d, c)
    PROVE  LET e == ApplyEnvOverrides(c, deployment[d].env)
           IN  /\ Shaped(d, e)
               /\ \A s \in DOMAIN Kinds(d) : \A k \in DOMAIN Kinds(d)[s] : FromEnv(d, s, k) \/ e[s][k] = c[s][k]
<1> DEFINE env == deployment[d].env
           e == ApplyEnvOverrides(c, env)
           blank == \A i \in DOMAIN env.endpoints : env.endpoints[i] = ""
           x == IF blank THEN c.redis.endpoints ELSE SelectSeq(env.endpoints, LAMBDA h : h # "")
<1>1. PICK y, z : /\ e = [c EXCEPT !.redis.endpoints = x, !.capture.interface = y, !.service.source_host = z]
                  /\ y = c.capture.interface \/ env.interface # ""
                  /\ z = c.service.source_host \/ env.source_host # ""
  <2> DEFINE y == IF env.interface = "" THEN c.capture.interface ELSE env.interface
             z == IF env.source_host = "" THEN c.service.source_host ELSE env.source_host
  <2>1. e = [c EXCEPT !.redis.endpoints = x, !.capture.interface = y, !.service.source_host = z]
    BY DEF ApplyEnvOverrides
  <2> QED
    BY <2>1
<1>2. x = c.redis.endpoints \/ \E i \in DOMAIN env.endpoints : env.endpoints[i] # ""
  OBVIOUS
<1> HIDE DEF x, e, env
<1>3. {"redis", "capture", "service"} \subseteq DOMAIN c
  BY KindsAre DEF Shaped
<1>4. DOMAIN e = DOMAIN c /\ \A s \in DOMAIN c : DOMAIN e[s] = DOMAIN c[s]
  BY <1>1, <1>3
<1>5. ASSUME NEW s \in DOMAIN c, NEW k \in DOMAIN c[s]
      PROVE  e[s][k] = IF s = "redis" /\ k = "endpoints" THEN x
                       ELSE IF s = "capture" /\ k = "interface" THEN y
                       ELSE IF s = "service" /\ k = "source_host" THEN z ELSE c[s][k]
  BY <1>1, <1>3
<1>6. Shaped(d, e)
  BY <1>4 DEF Shaped
<1>7. ASSUME NEW s \in DOMAIN Kinds(d), NEW k \in DOMAIN Kinds(d)[s], ~FromEnv(d, s, k) PROVE e[s][k] = c[s][k]
  <2>1. s \in DOMAIN c /\ k \in DOMAIN c[s]
    BY DEF Shaped
  <2>2. CASE s = "redis" /\ k = "endpoints"
    <3>1. x = c.redis.endpoints
      BY <1>2, <1>7, <2>2 DEF FromEnv, env
    <3> QED
      BY <1>5, <2>1, <2>2, <3>1
  <2>3. CASE s = "capture" /\ k = "interface"
    <3>1. y = c.capture.interface
      BY <1>1, <1>7, <2>3 DEF FromEnv, env
    <3> QED
      BY <1>5, <2>1, <2>3, <3>1
  <2>4. CASE s = "service" /\ k = "source_host"
    <3>1. z = c.service.source_host
      BY <1>1, <1>7, <2>4 DEF FromEnv, env
    <3> QED
      BY <1>5, <2>1, <2>4, <3>1
  <2>5. CASE ~(s = "redis" /\ k = "endpoints") /\ ~(s = "capture" /\ k = "interface")
             /\ ~(s = "service" /\ k = "source_host")
    BY <1>5, <2>1, <2>5
  <2> QED
    BY <2>2, <2>3, <2>4, <2>5
<1> QED
  BY <1>6, <1>7 DEF e, env

\* The part of SourcesSound that the loader sees to, of a configuration c.
LoadedSound(d, c) ==
    /\ c.queues.on_full # "drop_oldest"
    /\ PipelineMax(c) \in 1..4096 /\ FlushInterval(c) > 0 /\ c.stats.interval_s > 0
    /\ \A s \in DOMAIN c : \A k \in DOMAIN c[s] :
           FromEnv(d, s, k) \/ IsSetting(d, deployment[d].file, s, k, c[s][k])

\* cf_config_load() sees to it.
LEMMA LoadedIsSound ==
    ASSUME NEW d \in Sources, IsDocument(deployment[d].file),
           ConfigLoad(d, deployment[d].file, deployment[d].env) # <<>>
    PROVE  LoadedSound(d, ConfigLoad(d, deployment[d].file, deployment[d].env)[1])
<1> DEFINE file == deployment[d].file
           c == ParseFile(d, file)
           e == ApplyEnvOverrides(c, deployment[d].env)
<1>1. IsMap(file) /\ ConfigLoad(d, file, deployment[d].env)[1] = e
  BY DEF ConfigLoad
<1>2. /\ Shaped(d, c)
      /\ \A s \in DOMAIN Kinds(d) : \A k \in DOMAIN Kinds(d)[s] : IsSetting(d, file, s, k, c[s][k])
  BY <1>1, FileEffect
<1> HIDE DEF c
<1>3. /\ Shaped(d, e)
      /\ \A s \in DOMAIN Kinds(d) : \A k \in DOMAIN Kinds(d)[s] : FromEnv(d, s, k) \/ e[s][k] = c[s][k]
  BY <1>2, EnvEffect
<1> HIDE DEF e
<1>4. \A s \in DOMAIN e : \A k \in DOMAIN e[s] : FromEnv(d, s, k) \/ IsSetting(d, file, s, k, e[s][k])
  BY <1>2, <1>3 DEF Shaped
<1>5. /\ ~FromEnv(d, "queues", "on_full") /\ ~FromEnv(d, "stats", "interval_s")
      /\ ~FromEnv(d, "redis", "xadd_batch_size") /\ ~FromEnv(d, "redis", "xadd_flush_interval_ms")
  BY DEF FromEnv
<1>6. /\ IsSetting(d, file, "queues", "on_full", e["queues"]["on_full"])
      /\ IsSetting(d, file, "stats", "interval_s", e["stats"]["interval_s"])
      /\ IsSetting(d, file, "redis", "xadd_batch_size", e["redis"]["xadd_batch_size"])
      /\ IsSetting(d, file, "redis", "xadd_flush_interval_ms", e["redis"]["xadd_flush_interval_ms"])
  BY <1>3, <1>4, <1>5, KindsAre DEF Shaped
<1> HIDE DEF file
<1>a. IsDocument(file)
  BY DEF file
<1>7. e["queues"]["on_full"] \in {"drop_newest", "block"}
  <2>1. \/ e["queues"]["on_full"] = "drop_newest"
        \/ \E node : /\ IsNumeral(node) /\ Parse("on_full", node) # <<>>
                     /\ e["queues"]["on_full"] = Parse("on_full", node)[1]
    BY <1>1, <1>6, <1>a, KindsAre, SettingIs
  <2> QED
    BY <2>1, ParsedIs
<1>8. e["stats"]["interval_s"] \in Nat \ {0}
  <2>1. \/ e["stats"]["interval_s"] = 10
        \/ \E node : /\ IsNumeral(node) /\ Parse("positive", node) # <<>>
                     /\ e["stats"]["interval_s"] = Parse("positive", node)[1]
    BY <1>1, <1>6, <1>a, KindsAre, SettingIs
  <2> QED
    BY <2>1, ParsedIs
<1>9. ASSUME NEW k \in {"xadd_batch_size", "xadd_flush_interval_ms"} PROVE e["redis"][k] \in Nat
  <2>1. \/ e["redis"][k] = 100 \/ e["redis"][k] = 10
        \/ \E node : IsNumeral(node) /\ Parse("u32", node) # <<>> /\ e["redis"][k] = Parse("u32", node)[1]
    BY <1>1, <1>6, <1>a, KindsAre, SettingIs
  <2> QED
    BY <2>1, ParsedIs
<1>10. PipelineMax(e) \in 1..4096 /\ FlushInterval(e) > 0
  <2> DEFINE a == e.redis.xadd_batch_size
             b == e.redis.xadd_flush_interval_ms
  <2>1. a \in Nat /\ b \in Nat
    BY <1>9
  <2>2. /\ PipelineMax(e) = IF a = 0 THEN 512 ELSE IF a > 4096 THEN 4096 ELSE a
        /\ FlushInterval(e) = IF b = 0 THEN 100 ELSE b
    BY DEF PipelineMax, FlushInterval
  <2> HIDE DEF a, b
  <2> QED
    BY <2>1, <2>2
<1> QED
  BY <1>1, <1>4, <1>7, <1>8, <1>10 DEF LoadedSound, file

-----------------------------------------------------------------------------
(* The sinks' names.                                                       *)

\* The group a sink joins when its file names none.
GroupOf(d) == IF d = "clickhouse" THEN ClickHouseGroup ELSE DefaultGroup

\* Every sink's redis section is read by the same rules, with its own group.
LEMMA SinkRedis ==
    ASSUME NEW d \in Sinks, NEW root, SinkLoad(d, root) # <<>>
    PROVE  SinkLoad(d, root)[1].redis = Redis(MapGet(root, "redis"), GroupOf(d))
<1> DEFINE R(g) == Redis(MapGet(root, "redis"), g)
<1>1. SplunkBase(root) # <<>> =>
          "redis" \in DOMAIN SplunkBase(root)[1] /\ SplunkBase(root)[1].redis = R(DefaultGroup)
  BY DEF SplunkBase
<1>2. ASSUME NEW b, "redis" \in DOMAIN b, NEW g PROVE Joined(b, g).redis = b.redis
  BY <1>2 DEF Joined
<1> HIDE DEF R
<1>3. CASE d = "splunk"
  <2>1. SinkLoad(d, root) = SplunkLoad(root)
    BY <1>3 DEF SinkLoad
  <2>2. SplunkBase(root) # <<>> /\ \E g : SplunkLoad(root) = <<Joined(SplunkBase(root)[1], g)>>
    BY <2>1 DEF SplunkLoad
  <2> QED
    BY <1>1, <1>2, <1>3, <2>1, <2>2 DEF GroupOf, R
<1>4. CASE d = "metrics"
  <2>1. SinkLoad(d, root) = MetricsLoad(root)
    BY <1>4 DEF SinkLoad
  <2>2. SplunkBase(root) # <<>> /\ \E g : MetricsLoad(root) = <<Joined(SplunkBase(root)[1], g)>>
    BY <2>1 DEF MetricsLoad
  <2> QED
    BY <1>1, <1>2, <1>4, <2>1, <2>2 DEF GroupOf, R
<1>5. CASE d = "clickhouse"
  <2>1. SinkLoad(d, root) = ClickHouseLoad(root)
    BY <1>5 DEF SinkLoad
  <2> DEFINE ch == MapGet(root, "clickhouse")
             url == TextOr(ch, "url", "")
             user == TextOr(ch, "user_env", "")
             password == TextOr(ch, "password_env", "")
             Valid == /\ SharedOk(root) /\ IsMap(ch)
                      /\ HasNone(ch, {"password", "user_password", "key", "secret"})
                      /\ url # "" /\ {user, password} \subseteq EnvNames \cup {""}
             Loaded == [redis |-> Redis(MapGet(root, "redis"), ClickHouseGroup),
                        delivery |-> Batching(ch, 10000), url |-> url,
                        database |-> TextOr(ch, "database", "cloudflow"),
                        table |-> TextOr(ch, "table", "events"), credentials |-> user, password |-> password]
  <2>2. ClickHouseLoad(root) = IF Valid THEN <<Loaded>> ELSE <<>>
    BY DEF ClickHouseLoad
  <2>3. Loaded.redis = Redis(MapGet(root, "redis"), ClickHouseGroup)
    OBVIOUS
  <2> HIDE DEF Valid, Loaded
  <2>4. ClickHouseLoad(root) = <<Loaded>>
    BY <2>1, <2>2, Zenon
  <2>5. ClickHouseLoad(root)[1] = Loaded
    BY <2>4
  <2> QED
    BY <1>5, <2>1, <2>3, <2>5 DEF GroupOf
<1> QED
  BY <1>3, <1>4, <1>5 DEF Sinks

\* The names of a sink's group and dead-letter stream.
LEMMA NamesOf ==
    ASSUME NEW d \in Sinks
    PROVE  LET r == Redis(MapGet(deployment[d].file, "redis"), GroupOf(d))
           IN  /\ ~Names(d, "consumer_group") => r.consumer_group = GroupOf(d)
               /\ IF Names(d, "deadletter_stream") THEN \E x : r.deadletter_stream = <<x>>
                  ELSE r.deadletter_stream = <<"deadletter", r.consumer_group>>
<1> DEFINE m == MapGet(deployment[d].file, "redis")
           r == Redis(m, GroupOf(d))
<1>1. ~Names(d, "consumer_group") => TextOr(m, "consumer_group", GroupOf(d)) = GroupOf(d)
  BY DEF Names, TextOr
<1>2. /\ r.consumer_group = TextOr(m, "consumer_group", GroupOf(d))
      /\ r.deadletter_stream = IF TextOr(m, "deadletter_stream", "") = ""
                               THEN <<"deadletter", TextOr(m, "consumer_group", GroupOf(d))>>
                               ELSE <<TextOr(m, "deadletter_stream", "")>>
  BY DEF Redis
<1>3. Names(d, "deadletter_stream") <=> TextOr(m, "deadletter_stream", "") # ""
  BY DEF Names
<1> HIDE DEF m, r
<1>4. IF Names(d, "deadletter_stream") THEN \E x : r.deadletter_stream = <<x>>
      ELSE r.deadletter_stream = <<"deadletter", r.consumer_group>>
  BY <1>2, <1>3
<1> QED
  BY <1>1, <1>2, <1>4 DEF m, r

\* The loaders keep two sinks apart.
LEMMA LoadedApart ==
    ASSUME NEW d \in Sinks, NEW e \in Sinks, d # e
    PROVE  LET mine == Redis(MapGet(deployment[d].file, "redis"), GroupOf(d))
               other == Redis(MapGet(deployment[e].file, "redis"), GroupOf(e))
           IN  /\ mine.consumer_group = other.consumer_group =>
                      \/ Names(d, "consumer_group") \/ Names(e, "consumer_group")
                      \/ {d, e} = {"splunk", "metrics"}
               /\ mine.deadletter_stream = other.deadletter_stream =>
                      \/ mine.consumer_group = other.consumer_group
                      \/ Names(d, "deadletter_stream") /\ Names(e, "deadletter_stream")
<1> DEFINE mine == Redis(MapGet(deployment[d].file, "redis"), GroupOf(d))
           other == Redis(MapGet(deployment[e].file, "redis"), GroupOf(e))
<1>1. /\ ~Names(d, "consumer_group") => mine.consumer_group = GroupOf(d)
      /\ IF Names(d, "deadletter_stream") THEN \E x : mine.deadletter_stream = <<x>>
         ELSE mine.deadletter_stream = <<"deadletter", mine.consumer_group>>
  BY NamesOf
<1>2. /\ ~Names(e, "consumer_group") => other.consumer_group = GroupOf(e)
      /\ IF Names(e, "deadletter_stream") THEN \E x : other.deadletter_stream = <<x>>
         ELSE other.deadletter_stream = <<"deadletter", other.consumer_group>>
  BY NamesOf
<1> HIDE DEF mine, other
<1>3. GroupOf(d) = GroupOf(e) => {d, e} = {"splunk", "metrics"}
  BY DEF GroupOf, Sinks, ClickHouseGroup, DefaultGroup
<1>4. mine.consumer_group = other.consumer_group =>
          Names(d, "consumer_group") \/ Names(e, "consumer_group") \/ {d, e} = {"splunk", "metrics"}
  BY <1>1, <1>2, <1>3
<1>5. ASSUME mine.deadletter_stream = other.deadletter_stream,
             ~(Names(d, "deadletter_stream") /\ Names(e, "deadletter_stream"))
      PROVE  mine.consumer_group = other.consumer_group
  <2>1. \A x, a, b : <<x>> # <<a, b>>
    OBVIOUS
  <2>2. ~Names(d, "deadletter_stream") /\ ~Names(e, "deadletter_stream")
    BY <1>1, <1>2, <1>5, <2>1, Zenon
  <2>3. <<"deadletter", mine.consumer_group>> = <<"deadletter", other.consumer_group>>
    BY <1>1, <1>2, <1>5, <2>2
  <2> QED
    BY <2>3
<1> QED
  BY <1>4, <1>5 DEF mine, other

(* The settings of a daemon that has started.                              *)

\* What was loaded is what the file says, and every component started so far has
\* accepted it.
Settled(d) ==
    /\ cfg[d] # <<>> => cfg[d] = IF d \in Sources THEN ConfigLoad(d, deployment[d].file, deployment[d].env)
                                 ELSE SinkLoad(d, deployment[d].file)
    /\ pc[d] = "load" => tried[d] = 0
    /\ pc[d] \in {"start", "running"} => \A i \in 1..tried[d] : Accepts(d, Order(d)[i], cfg[d][1])

\* A step that leaves a daemon's variables alone leaves it settled.
LEMMA StaysSettled ==
    ASSUME NEW e, Settled(e), UNCHANGED deployment, cfg'[e] = cfg[e],
           pc'[e] \in {"start", "running"} => pc[e] \in {"start", "running"} /\ tried'[e] = tried[e],
           pc'[e] # "load" \/ (pc[e] = "load" /\ tried'[e] = tried[e])
    PROVE  Settled(e)'
<1>1. Order(e)' = Order(e)
  BY SameOrders
<1> QED
  BY <1>1 DEF Settled

\* Load() and Acquire() settle a daemon; no other step unsettles it.
LEMMA StepSettles ==
    ASSUME IndInv, NEW d \in Daemons, Settled(d),
           Load(d) \/ Acquire(d) \/ Refused(d) \/ Stop(d) \/ Release(d)
    PROVE  Settled(d)'
<1>0. PerDaemon /\ Orderly(d)
  BY DEF IndInv
<1>1. CASE Load(d)
  <2> DEFINE loaded == IF d \in Sources THEN ConfigLoad(d, deployment[d].file, deployment[d].env)
                       ELSE SinkLoad(d, deployment[d].file)
  <2>1. /\ cfg' = [cfg EXCEPT ![d] = loaded] /\ UNCHANGED <<deployment, tried>> /\ pc[d] = "load"
        /\ pc' = [pc EXCEPT ![d] = IF loaded = <<>> THEN "exited" ELSE "start"]
    BY <1>1, Zenon DEF Load
  <2> HIDE DEF loaded
  <2>2. cfg'[d] = loaded /\ pc'[d] # "load" /\ tried'[d] = 0 /\ deployment' = deployment
    BY <1>0, <2>1 DEF PerDaemon, Settled
  <2> QED
    BY <2>2 DEF Settled, loaded
<1>2. CASE Acquire(d)
  <2>1. /\ pc[d] = "start" /\ UNCHANGED <<deployment, cfg>> /\ tried' = [tried EXCEPT ![d] = @ + 1]
        /\ Accepts(d, Order(d)[tried[d] + 1], cfg[d][1])
        /\ \E x : pc' = [pc EXCEPT ![d] = x] /\ x \in {"start", "running"}
    BY <1>2 DEF Acquire, Current
  <2>2. tried'[d] = tried[d] + 1 /\ pc'[d] # "load"
    BY <1>0, <2>1 DEF PerDaemon
  <2>3. tried[d] \in Nat
    <3>1. Len(Order(d)) \in Nat
      BY <1>0, AcquiredInOrder DEF Orderly, AfterWhatItUses
    <3> QED
      BY <1>0, <3>1 DEF Orderly
  <2>4. \A i \in 1..(tried[d] + 1) : i \in 1..tried[d] \/ i = tried[d] + 1
    BY <2>3
  <2>5. \A i \in 1..(tried[d] + 1) : Accepts(d, Order(d)[i], cfg[d][1])
    BY <2>1, <2>4 DEF Settled
  <2>6. Order(d)' = Order(d)
    BY <2>1, SameOrders
  <2> QED
    BY <2>1, <2>2, <2>5, <2>6 DEF Settled
<1>3. CASE Refused(d) \/ Stop(d) \/ Release(d)
  <2>1. UNCHANGED <<deployment, cfg, tried>> /\ pc'[d] \notin {"load", "start", "running"}
    <3>1. CASE Refused(d) \/ Stop(d)
      BY <1>0, <3>1 DEF Refused, Stop, PerDaemon
    <3>2. CASE Release(d)
      <4>1. /\ pc[d] = "cleanup" /\ (pc' = pc \/ pc' = [pc EXCEPT ![d] = "exited"])
            /\ UNCHANGED <<deployment, cfg, tried>>
        BY <3>2 DEF Release
      <4> QED
        BY <1>0, <4>1 DEF PerDaemon
    <3> QED
      BY <1>3, <3>1, <3>2
  <2> QED
    BY <2>1, StaysSettled
<1> QED
  BY <1>1, <1>2, <1>3

-----------------------------------------------------------------------------
(* The settings of a running deployment.                                   *)

\* A daemon runs with what its loader made of its file and its environment, for as
\* long as it runs, and main() goes past a component only if that component has
\* accepted those settings.
THEOREM SettledCorrect == Spec => [](\A d \in Daemons : Settled(d))
<1>1. Init => \A d \in Daemons : Settled(d)
  BY DEF Init, Settled
<1>2. IndInv /\ (\A d \in Daemons : Settled(d)) /\ [Next]_vars => (\A d \in Daemons : Settled(d))'
  <2> SUFFICES ASSUME IndInv, \A d \in Daemons : Settled(d), [Next]_vars PROVE (\A d \in Daemons : Settled(d))'
    OBVIOUS
  <2>1. ASSUME NEW d \in Daemons, Load(d) \/ Acquire(d) \/ Refused(d) \/ Stop(d) \/ Release(d)
        PROVE  (\A e \in Daemons : Settled(e))'
    <3>1. Settled(d)'
      BY <2>1, StepSettles
    <3>2. UNCHANGED deployment /\ Daemons' = Daemons
      BY <2>1 DEF Load, Acquire, Refused, Stop, Release, Daemons
    <3>3. ASSUME NEW e \in Daemons, e # d PROVE Settled(e)'
      <4>1. PerDaemon /\ Settled(e)
        BY DEF IndInv
      <4>2. pc'[e] = pc[e] /\ cfg'[e] = cfg[e] /\ tried'[e] = tried[e]
        BY <2>1, <3>3, <4>1 DEF Load, Acquire, Refused, Stop, Release, PerDaemon
      <4> QED
        BY <3>2, <4>1, <4>2, StaysSettled
    <3> QED
      BY <3>1, <3>2, <3>3
  <2>2. CASE UNCHANGED vars
    <3>1. Daemons' = Daemons
      BY <2>2 DEF vars, Daemons
    <3>2. ASSUME NEW e \in Daemons PROVE Settled(e)'
      BY <2>2, StaysSettled DEF vars
    <3> QED
      BY <3>1, <3>2
  <2> QED
    BY <2>1, <2>2 DEF Next
<1> QED
  BY <1>1, <1>2, Inductive, PTL DEF Spec

\* A source that is up has passed every resource of its order.
LEMMA AllAccepted ==
    ASSUME IndInv, NEW d \in Daemons, d \in Sources, Settled(d), pc[d] = "running"
    PROVE  LET c == cfg[d][1]
           IN  /\ QueueCapacity(d, c, "q_pkt") >= 2 /\ QueueCapacity(d, c, "q_evt") >= 2
               /\ c.redis.endpoints # <<>>
               /\ d = "dns" => c.dns.pending_table_capacity \in 1..IntMax /\ c.dns.query_timeout_ms > 0
<1> DEFINE c == cfg[d][1]
<1>1. tried[d] = Len(Order(d)) /\ deployment[d].offline \in BOOLEAN
  BY DEF IndInv, Orderly
<1>2. \A i \in 1..Len(Order(d)) : Accepts(d, Order(d)[i], c)
  BY <1>1 DEF Settled
<1>3. Accepts(d, "q_pkt", c) /\ Accepts(d, "q_evt", c) /\ Accepts(d, "producer", c) /\ Accepts(d, "stage", c)
  <2> HIDE DEF c
  <2>1. CASE d = "dns"
    <3>1. /\ Len(Order(d)) = 9 /\ Order(d)[1] = "q_pkt" /\ Order(d)[2] = "q_evt" /\ Order(d)[7] = "producer"
          /\ Order(d)[8] = "stage"
      BY <2>1 DEF Order, SourceOrder, Sources
    <3> QED
      BY <1>2, <3>1
  <2>2. CASE d = "dhcp"
    <3>1. /\ Len(Order(d)) = 6 /\ Order(d)[1] = "q_pkt" /\ Order(d)[2] = "q_evt" /\ Order(d)[4] = "producer"
          /\ Order(d)[5] = "stage"
      BY <2>2 DEF Order, SourceOrder, Sources
    <3> QED
      BY <1>2, <3>1
  <2> QED
    BY <2>1, <2>2 DEF Sources
<1> HIDE DEF c
<1>4. QueueCapacity(d, c, "q_pkt") >= 2 /\ QueueCapacity(d, c, "q_evt") >= 2
  BY <1>3, Zenon DEF Accepts
<1>5. c.redis.endpoints # <<>>
  BY <1>3 DEF Accepts
<1>6. d = "dns" => c.dns.pending_table_capacity \in 1..IntMax /\ c.dns.query_timeout_ms > 0
  BY <1>3 DEF Accepts
<1> QED
  BY <1>4, <1>5, <1>6 DEF c

\* What SourcesSound says of a source d that runs with the settings c.
RunsSound(d, c) ==
    /\ QueueCapacity(d, c, "q_pkt") >= 2 /\ QueueCapacity(d, c, "q_evt") >= 2
    /\ c.queues.on_full # "drop_oldest"
    /\ c.redis.endpoints # <<>>
    /\ PipelineMax(c) \in 1..4096 /\ FlushInterval(c) > 0 /\ c.stats.interval_s > 0
    /\ d = "dns" => c.dns.pending_table_capacity \in 1..IntMax /\ c.dns.query_timeout_ms > 0
    /\ \A s \in DOMAIN c : \A k \in DOMAIN c[s] :
           FromEnv(d, s, k) \/ IsSetting(d, deployment[d].file, s, k, c[s][k])

\* Whatever the file and the environment say, a source that has started runs with
\* settings its parts are correct under, each the last acceptable value given for it;
\* and two sinks share a group or a dead-letter stream only where a file says so or
\* both are Splunk sinks.
THEOREM SettingsSoundCorrect == Spec => []SettingsSound
<1>1. IndInv /\ (\A d \in Daemons : Settled(d)) => SettingsSound
  <2> SUFFICES ASSUME IndInv, \A d \in Daemons : Settled(d) PROVE SettingsSound
    OBVIOUS
  <2>0. \A d \in Daemons : d \in Sources \cup Sinks /\ (d \in Sources => IsDocument(deployment[d].file))
    BY DeploymentsAssumption DEF IndInv, PerDaemon, Daemons
  <2>1. SourcesSound
    <3> SUFFICES ASSUME NEW d \in Daemons \cap Sources, pc[d] = "running"
                 PROVE  RunsSound(d, cfg[d][1])
      BY Zenon DEF SourcesSound, RunsSound
    <3> DEFINE c == cfg[d][1]
    <3>1. d \in Daemons /\ d \in Sources /\ IsDocument(deployment[d].file) /\ Settled(d)
      BY <2>0
    <3>2. cfg[d] # <<>>
      BY <3>1 DEF IndInv, Orderly
    <3>3. cfg[d] = ConfigLoad(d, deployment[d].file, deployment[d].env)
      BY <3>1, <3>2 DEF Settled
    <3>4. LoadedSound(d, c)
      BY <3>1, <3>2, <3>3, LoadedIsSound
    <3>5. /\ QueueCapacity(d, c, "q_pkt") >= 2 /\ QueueCapacity(d, c, "q_evt") >= 2
          /\ c.redis.endpoints # <<>>
          /\ d = "dns" => c.dns.pending_table_capacity \in 1..IntMax /\ c.dns.query_timeout_ms > 0
      BY <3>1, AllAccepted
    <3> HIDE DEF c
    <3>6. /\ c.queues.on_full # "drop_oldest"
          /\ PipelineMax(c) \in 1..4096 /\ FlushInterval(c) > 0 /\ c.stats.interval_s > 0
          /\ \A s \in DOMAIN c : \A k \in DOMAIN c[s] :
                 FromEnv(d, s, k) \/ IsSetting(d, deployment[d].file, s, k, c[s][k])
      BY <3>4, Zenon DEF LoadedSound
    <3>7. RunsSound(d, c)
      BY <3>5, <3>6 DEF RunsSound
    <3> QED
      BY <3>7 DEF c
  <2>2. SinksApart
    <3> SUFFICES ASSUME NEW d \in Daemons \ Sources, NEW e \in Daemons \ Sources,
                        d # e, cfg[d] # <<>>, cfg[e] # <<>>
                 PROVE  LET mine == cfg[d][1].redis
                            other == cfg[e][1].redis
                        IN  /\ mine.consumer_group = other.consumer_group =>
                                   \/ Names(d, "consumer_group") \/ Names(e, "consumer_group")
                                   \/ {d, e} = {"splunk", "metrics"}
                            /\ mine.deadletter_stream = other.deadletter_stream =>
                                   \/ mine.consumer_group = other.consumer_group
                                   \/ Names(d, "deadletter_stream") /\ Names(e, "deadletter_stream")
      BY Zenon DEF SinksApart
    <3>1. d \in Sinks /\ e \in Sinks /\ d \notin Sources /\ e \notin Sources
      BY <2>0
    <3>2. cfg[d] = SinkLoad(d, deployment[d].file) /\ cfg[e] = SinkLoad(e, deployment[e].file)
      BY <3>1 DEF Settled
    <3>3. /\ cfg[d][1].redis = Redis(MapGet(deployment[d].file, "redis"), GroupOf(d))
          /\ cfg[e][1].redis = Redis(MapGet(deployment[e].file, "redis"), GroupOf(e))
      BY <3>1, <3>2, SinkRedis
    <3> DEFINE mine == cfg[d][1].redis
               other == cfg[e][1].redis
    <3>4. /\ mine.consumer_group = other.consumer_group =>
                 \/ Names(d, "consumer_group") \/ Names(e, "consumer_group")
                 \/ {d, e} = {"splunk", "metrics"}
          /\ mine.deadletter_stream = other.deadletter_stream =>
                 \/ mine.consumer_group = other.consumer_group
                 \/ Names(d, "deadletter_stream") /\ Names(e, "deadletter_stream")
      <4> HIDE DEF mine, other
      <4>1. /\ mine = Redis(MapGet(deployment[d].file, "redis"), GroupOf(d))
            /\ other = Redis(MapGet(deployment[e].file, "redis"), GroupOf(e))
        BY <3>3 DEF mine, other
      <4> QED
        BY <3>1, <4>1, LoadedApart
    <3> QED
      BY <3>4
  <2> QED
    BY <2>1, <2>2 DEF SettingsSound
<1> QED
  BY <1>1, Inductive, SettledCorrect, PTL
=============================================================================
