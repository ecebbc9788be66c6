-------------------------- MODULE CorrelatorConfig --------------------------
(* The parameters of a DNS correlator: cf_dns_correlator_config_t, the input *)
(* it is given and the counters of cf_dns_correlator_stats_t.                *)
EXTENDS Integers

CONSTANTS
    Keys,          \* correlation keys (DNS-D6)
    Times,         \* capture times
    Capacity,      \* pending table size
    Timeout,       \* query_timeout_nanos
    EvictMax,      \* CF_DNS_AMORTIZED_EVICT_MAX
    FullPolicies,  \* the on_table_full policies a configuration may select
    MaxQueries,    \* bound: queries offered
    MaxResponses   \* bound: responses offered

ASSUME CapacityAssumption == Capacity \in Nat \ {0}
ASSUME TimesAssumption == Times \subseteq Int
ASSUME TimeoutAssumption == Timeout \in Nat \ {0}
ASSUME EvictAssumption == EvictMax \in Nat
ASSUME FullPoliciesAssumption == FullPolicies \subseteq {"drop_newest", "drop_oldest"}
ASSUME BoundsAssumption == MaxQueries \in Nat /\ MaxResponses \in Nat

Counters == {"observed", "unanswered", "unmatched", "collision", "drop", "rtt_invalid"}

=============================================================================
