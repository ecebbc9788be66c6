--------------------------- MODULE WireReference ----------------------------
(***************************************************************************)
(* The reference the parsers are compared with: descriptions of frames and *)
(* messages, the bytes the RFCs give them, and what a reader of those      *)
(* bytes should report.  Nothing here is translated from the code.         *)
(***************************************************************************)
EXTENDS Wire
LOCAL INSTANCE TLC
LOCAL INSTANCE SequencesExt

------------------------------------------------------------------------------
\* A frame: [tags, version, words, frag, total, ext, proto, sport, dport, tcpWords, pad].
\*   tags      <<tpid, vlan id>> from the outside in      version  4, 6 or neither
\*   words     32-bit words of IPv4 options               frag     <<offset, more>> of IPv4
\*   total     whether IPv4's total length is filled in   ext      the IPv6 extension headers,
\*   <<type, 8-byte units beyond the first, offset>>      pad      bytes after the IP packet

DstMac == <<2, 0, 0, 0, 0, 1>>
SrcMac == <<2, 0, 0, 0, 0, 2>>
Addr(version, last) == IF version = 4 THEN <<192, 0, 2, last>> ELSE <<32, 1>> \o Rep(0, 13) \o <<last>>
Tos == 185
Ttl == 61

Transport(d, payload) ==
    IF d.proto = 17 THEN Word(d.sport) \o Word(d.dport) \o Word(8 + Len(payload)) \o Word(4660) \o payload
    ELSE IF d.proto = 6
    THEN Word(d.sport) \o Word(d.dport) \o <<0, 0, 0, 7, 0, 0, 0, 9, (5 + d.tcpWords) * 16, 24>>
         \o Rep(0, 6) \o Rep(1, 4 * d.tcpWords) \o payload
    ELSE payload

\* The types of the chain of headers after the IPv6 header.
Chain(d) == Append([i \in DOMAIN d.ext |-> d.ext[i][1]], d.proto)
ExtHeader(d, i) ==
    IF d.ext[i][1] = 44 THEN <<Chain(d)[i + 1], 0>> \o Word(d.ext[i][3] * 8) \o <<0, 0, 0, 5>>
    ELSE <<Chain(d)[i + 1], d.ext[i][2]>> \o Rep(0, 6 + 8 * d.ext[i][2])

IpPacket(d, payload) ==
    LET l4 == Transport(d, payload)
        body == Join([i \in DOMAIN d.ext |-> ExtHeader(d, i)]) \o l4
    IN  IF d.version = 4
        THEN <<69 + d.words, Tos>> \o Word(IF d.total THEN 20 + 4 * d.words + Len(l4) ELSE 0) \o <<0, 1>>
             \o Word((IF d.frag[2] THEN 8192 ELSE 0) + d.frag[1]) \o <<Ttl, d.proto, 0, 0>>
             \o Addr(4, 1) \o Addr(4, 2) \o Rep(1, 4 * d.words) \o l4
        ELSE <<96 + Tos \div 16, (Tos % 16) * 16, 0, 0>> \o Word(Len(body)) \o <<Chain(d)[1], Ttl>>
             \o Addr(6, 1) \o Addr(6, 2) \o body

EtherType(d) == CASE d.version = 4 -> 2048 [] d.version = 6 -> 34525 [] OTHER -> 2054

Frame(d, payload) ==
    DstMac \o SrcMac \o Join([i \in DOMAIN d.tags |-> Word(d.tags[i][1]) \o Word(12288 + d.tags[i][2])])
    \o Word(EtherType(d)) \o (IF d.version \in {4, 6} THEN IpPacket(d, payload) ELSE payload) \o Rep(0, d.pad)

\* What the frame carries: "unsupported" beyond two tags, the
\* IPV6_MAX_EXT_HEADERS extension headers or IP; no transport header in a
\* fragment other than the first.
LaterFragment(d) == d.frag[1] # 0 \/ \E i \in DOMAIN d.ext : d.ext[i][1] = 44 /\ d.ext[i][3] # 0
FirstFragment(d) == ~LaterFragment(d) /\ (d.frag[2] \/ \E i \in DOMAIN d.ext : d.ext[i][1] = 44)
Carries(d) ==
    IF Len(d.tags) > 2 \/ d.version \notin {4, 6} \/ Len(d.ext) > 8 THEN "unsupported"
    ELSE IF LaterFragment(d) THEN "fragment"
    ELSE IF d.proto = 17 THEN "udp" ELSE IF d.proto = 6 THEN "tcp" ELSE "other"

FrameFields(d) ==
    [dst_mac |-> DstMac, src_mac |-> SrcMac, vlan_ids |-> [i \in DOMAIN d.tags |-> d.tags[i][2]],
     ethertype |-> EtherType(d), ip_version |-> d.version,
     src_ip |-> Addr(d.version, 1), dst_ip |-> Addr(d.version, 2), next_header |-> d.proto, ttl |-> Ttl,
     dscp |-> Tos \div 4, ecn |-> Tos % 4, fragmented |-> FirstFragment(d), fragment_offset |-> 0,
     src_port |-> d.sport, dst_port |-> d.dport]

------------------------------------------------------------------------------
\* A DNS name: its bytes and its text.  The message's first question stands at
\* offset 12, so a pointer to 12 is a name that repeats it.
QName == [wire |-> <<1, 65, 2, 98, 99, 0>>, text |-> <<97, 46, 98, 99>>]
Repeated == [wire |-> <<192, 12>>, text |-> QName.text]
Below == [wire |-> <<1, 120, 192, 12>>, text |-> <<120, 46>> \o QName.text]
Parent == [wire |-> <<192, 14>>, text |-> <<98, 99>>]
Root == [wire |-> <<0>>, text |-> <<>>]

\* A record: [name, type, class, rdata, text]; a message: [qr, rcode, questions,
\* answers, authority, additional, opt], with opt <<>> or <<[ext, options]>>.
Ttl4 == <<0, 0, 1, 44>>
RrWire(r) == r.name.wire \o Word(r.type) \o Word(r.class) \o Ttl4 \o Word(Len(r.rdata)) \o r.rdata
OptWire(o) ==
    LET rdata == Join([i \in DOMAIN o.options |->
                          Word(o.options[i][1]) \o Word(Len(o.options[i][2])) \o o.options[i][2]])
    IN  <<0>> \o Word(41) \o Word(1232) \o <<o.ext, 0, 128, 0>> \o Word(Len(rdata)) \o rdata
QuestionWire(n) == n.wire \o Word(1) \o Word(1)

RrWires(rrs) == [i \in DOMAIN rrs |-> RrWire(rrs[i])]
\* The entries of the four sections in the order of the message.
DnsEntries(m) ==
    [i \in DOMAIN m.questions |-> QuestionWire(m.questions[i])] \o RrWires(m.answers) \o RrWires(m.authority)
    \o RrWires(m.additional) \o [i \in DOMAIN m.opt |-> OptWire(m.opt[i])]
DnsWire(m) ==
    <<18, 52, IF m.qr THEN 129 ELSE 1, 128 + m.rcode>> \o Word(Len(m.questions)) \o Word(Len(m.answers))
    \o Word(Len(m.authority)) \o Word(Len(m.additional) + Len(m.opt)) \o Join(DnsEntries(m))

RrValue(r) == [name |-> r.name.text, type |-> r.type, class |-> r.class, ttl |-> Ttl4,
               rdata_raw |-> r.rdata, rdata_text |-> r.text, malformed |-> FALSE]
RrValues(rrs) == [i \in DOMAIN rrs |-> RrValue(rrs[i])]
DnsSections(m) == [questions |-> [i \in DOMAIN m.questions |-> m.questions[i].text],
                   answers |-> RrValues(m.answers), authority |-> RrValues(m.authority),
                   additional |-> RrValues(m.additional)]

\* Whether the first n bytes end inside the owner name of a record.
EndsInOwner(m, n) ==
    LET before == [i \in 0..Len(DnsEntries(m)) |-> 12 + Len(Join(SubSeq(DnsEntries(m), 1, i)))]
        owners == [i \in DOMAIN m.questions |-> <<>>] \o [i \in DOMAIN m.answers |-> m.answers[i].name.wire]
                  \o [i \in DOMAIN m.authority |-> m.authority[i].name.wire]
                  \o [i \in DOMAIN m.additional |-> m.additional[i].name.wire] \o [i \in DOMAIN m.opt |-> <<0>>]
    IN  \E i \in DOMAIN owners : before[i - 1] < n /\ n < before[i - 1] + Len(owners[i])

------------------------------------------------------------------------------
\* A DHCPv4 message: the pieces <<code, bytes>> in the options, file and sname
\* fields; a long option may be cut into pieces with the same code (RFC 3396).
Pieces(ps) == Join([i \in DOMAIN ps |-> <<ps[i][1], Len(ps[i][2])>> \o ps[i][2]])
Overloaded(m) == (IF m.file = <<>> THEN 0 ELSE 1) + (IF m.sname = <<>> THEN 0 ELSE 2)
OptionPieces(m) == (IF Overloaded(m) = 0 THEN <<>> ELSE << <<52, <<Overloaded(m)>> >> >>) \o m.options
FieldWire(ps, size) == LET b == Pieces(ps) \o <<255>> IN b \o Rep(0, size - Len(b))
Bootp == <<1, 1, 6, 0, 1, 2, 3, 4, 0, 0, 0, 0>> \o Rep(0, 16) \o SrcMac \o Rep(0, 10)
Dhcpv4Wire(m) ==
    Bootp \o (IF m.sname = <<>> THEN Rep(0, 64) ELSE FieldWire(m.sname, 64))
    \o (IF m.file = <<>> THEN Rep(0, 128) ELSE FieldWire(m.file, 128))
    \o <<99, 130, 83, 99>> \o Pieces(OptionPieces(m)) \o <<255>>

\* The whole value of each option, in the order the RFC gives the fields.
AllPieces(m) == OptionPieces(m) \o m.file \o m.sname
Whole(m, code) == Join([i \in DOMAIN AllPieces(m) |-> IF AllPieces(m)[i][1] = code THEN AllPieces(m)[i][2] ELSE <<>>])

------------------------------------------------------------------------------
\* A DHCPv6 message: [type, options], an option <<code, bytes>>.
V6Options(os) == Join([i \in DOMAIN os |-> Word(os[i][1]) \o Word(Len(os[i][2])) \o os[i][2]])
V6Lead(m) == IF m.type \in {12, 13} THEN <<m.type, 1>> \o Addr(6, 3) \o Addr(6, 4) ELSE <<m.type, 0, 0, 9>>
Dhcpv6Wire(m) == V6Lead(m) \o V6Options(m.options)

\* Whether the first n bytes end inside the code and length of an option.
EndsInOptionHeader(m, n) ==
    \E i \in DOMAIN m.options :
        LET at == Len(V6Lead(m)) + Len(V6Options(SubSeq(m.options, 1, i - 1)))
        IN  at < n /\ n < at + 4

------------------------------------------------------------------------------
\* The message a transport carries; over TCP a DNS message has its length before it.
Message(kind, proto, m) ==
    CASE kind = "v4" -> Dhcpv4Wire(m)
      [] kind = "v6" -> Dhcpv6Wire(m)
      [] kind = "dns" -> (IF proto = 6 THEN Word(Len(DnsWire(m))) ELSE <<>>) \o DnsWire(m)
=============================================================================
