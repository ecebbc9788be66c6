----------------------------- MODULE MCDnsStage -----------------------------
EXTENDS DnsStage

Exchange(client, cport, server, sport, id, qtype, rcode) ==
    { [class |-> "ok", src |-> client, sport |-> cport, dst |-> server, dport |-> sport, qr |-> FALSE,
       id |-> id, qtype |-> qtype, rcode |-> 0],
      [class |-> "ok", src |-> server, sport |-> sport, dst |-> client, dport |-> cport, qr |-> TRUE,
       id |-> id, qtype |-> qtype, rcode |-> rcode] }
Junk == [class |-> "dns_tcp_partial", qr |-> FALSE]

\* A client of ours, a resolver of ours that sends from port 53, and a query
\* to a backend that never answers.
MCTemplates == Exchange("client", 1000, "us", 53, "sampled", "A", 0)
               \cup {p \in Exchange("us", 2000, "backend", 53, "kept", "MX", 3) : ~p.qr}
               \cup Exchange("us", 53, "root", 53, "sampled", "A", 3)
               \cup {Junk}
MCRoleMap == << <<"us", "resolver">>, <<"us", "shadowed">> >>
MCKeys == {BuildKey(p) : p \in MCTemplates \ {Junk}}
MCTimes == 0..MaxTime
=============================================================================
