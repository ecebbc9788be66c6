-------------------------- MODULE MCDnsCorrelator --------------------------
(* DnsCorrelator for TLC: two slots, three keys of which two share a bucket. *)
EXTENDS DnsCorrelator

MCHash(k) == IF k = "c" THEN 1 ELSE 0
=============================================================================
