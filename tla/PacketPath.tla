----------------------------- MODULE PacketPath -----------------------------
(***************************************************************************)
(* One packet's way through a source: the kernel filter (or a capture file *)
(* that is replayed without one), decapsulation, the parser, and for DHCP  *)
(* the formatter of formatter.c, for DNS the first half of                 *)
(* dns_stage_process_packet().  The packets are given as descriptions; the *)
(* invariants compare what comes out with the description.                 *)
(***************************************************************************)
EXTENDS WireReference
LOCAL INSTANCE SequencesExt
LOCAL INSTANCE TLC

CONSTANTS Packets,    \* see below
          EventMax    \* CLOUDFLOW_EVENT_MAX_SIZE, scaled to the messages used

VARIABLES packet,     \* the packet on the wire
          stage,      \* wire, filtered, captured (live), replayed, done
          link,       \* the decapsulation's result, <<>> before it
          built,      \* DHCP: <<>> or <<the event before its size is looked at>>
          event,      \* <<>> or <<what the parser and the formatter built>>
          outcome     \* the counter that accounts for the packet
vars == <<packet, stage, link, built, event, outcome>>

D == INSTANCE Decap
F == INSTANCE CaptureFilter
N == INSTANCE DnsMessage
V4 == INSTANCE Dhcpv4
V6 == INSTANCE Dhcpv6

\* A packet has its description (source, link, kind, message) and the bytes of
\* that: the message's, wire, of which sent are in the frame; the frame's, of
\* which captured were captured (the snap length).
Payload(p) == SubSeq(p.wire, 1, p.sent)
Bytes(p) == SubSeq(p.frame, 1, p.captured)
Uncut(p) == p.captured = Len(p.frame)
Complete(p) == p.sent = Len(p.wire)

Init ==
    /\ packet \in Packets
    /\ stage = "wire"
    /\ link = <<>> /\ built = <<>> /\ event = <<>> /\ outcome = "none"

\* Live: the filter attached to the socket sees the whole frame.
KernelFilter ==
    /\ stage = "wire"
    /\ stage' = IF F!Filter(IF packet.source = "dns" THEN F!DnsFilter ELSE F!DhcpFilter,
                            packet.frame)
                THEN "captured" ELSE "filtered"
    /\ UNCHANGED <<packet, link, built, event, outcome>>

\* --replay feeds every frame of the file to the stage.
Replay ==
    /\ stage = "wire"
    /\ stage' = "replayed"
    /\ UNCHANGED <<packet, link, built, event, outcome>>

\* dns_decode_frame() and cf_dns_parse(): UDP first, TCP when it is not UDP.
Udp == D!DecapUdp(Bytes(packet))
Decapped == IF Udp.rc = "not_udp" THEN D!DecapTcp(Bytes(packet)) ELSE Udp
Bare(d) == IF d.next_header = 17 THEN d.payload ELSE Slice(d.payload, 2, Be16(d.payload, 0))

DecodeFrame ==
    /\ stage \in {"captured", "replayed"} /\ packet.source = "dns"
    /\ stage' = "done"
    /\ link' = Decapped
    /\ LET overTcp == link'.next_header = 6
           skipped == link'.rc # "ok" \/ (overTcp /\ Len(link'.payload) < 2)
           partial == overTcp /\ Be16(link'.payload, 0) > Len(link'.payload) - 2
       IN  /\ event' = IF skipped \/ partial THEN <<>> ELSE N!DnsParse(Bare(link'))
           /\ outcome' = IF skipped THEN "packets_skipped"
                         ELSE IF partial THEN "dns_tcp_partial"
                         ELSE IF event' = <<>> THEN "decode_parse_failure" ELSE "parsed"
    /\ UNCHANGED <<packet, built>>

\* The packed size of an event (external): it grows with the parsed options and
\* with the raw payload.
PackedSize(parse, raw) ==
    40 + Len(Join([i \in DOMAIN parse.raw_options |-> Rep(0, 10) \o parse.raw_options[i].value])) + Len(raw)

\* Mutant of Capped: an event that does not fit is dropped with its raw payload.
CappedAtOnce(e) == IF PackedSize(e.parse, e.raw) <= EventMax THEN <<e>> ELSE <<>>

\* An event over the limit loses its raw payload, and is dropped if that is not
\* enough.
Capped(e) ==
    IF PackedSize(e.parse, e.raw) <= EventMax THEN <<e>>
    ELSE IF PackedSize(e.parse, <<>>) <= EventMax THEN <<[e EXCEPT !.raw = <<>>, !.raw_truncated = TRUE]>>
    ELSE <<>>

\* cf_format_packet(): the protocol by the ports, DHCPv4's first.
Protocol(d) ==
    IF {d.src_port, d.dst_port} \cap {67, 68} # {} THEN "v4"
    ELSE IF {d.src_port, d.dst_port} \cap {546, 547} # {} THEN "v6" ELSE "none"

FormatPacket ==
    /\ stage \in {"captured", "replayed"} /\ packet.source = "dhcp"
    /\ stage' = "done"
    /\ link' = Udp
    /\ LET protocol == Protocol(link')
           parsed == IF protocol = "v4" THEN V4!Dhcpv4Parse(link'.payload) ELSE V6!Dhcpv6Parse(link'.payload)
       IN  built' = IF link'.rc = "ok" /\ protocol # "none" /\ parsed # <<>>
                    THEN <<[protocol |-> protocol, parse |-> parsed[1], raw |-> link'.payload, raw_truncated |-> FALSE]>>
                    ELSE <<>>
    /\ \/ /\ built' = <<>>
          /\ event' = <<>> /\ outcome' = "packets_skipped"
       \/ /\ built' # <<>>
          /\ event' = Capped(built'[1])
          /\ outcome' = IF event' = <<>> THEN "events_oversize_dropped" ELSE "events_formatted"
       \* An allocation of the observation, the envelope or the event fails.
       \/ /\ built' # <<>>
          /\ event' = <<>> /\ outcome' = "failed"
    /\ UNCHANGED packet

Next == KernelFilter \/ Replay \/ DecodeFrame \/ FormatPacket
Spec == Init /\ [][Next]_vars

------------------------------------------------------------------------------
Parsed(kind) == stage = "done" /\ packet.kind = kind /\ event # <<>>
IsPrefixOf(s, t) == Len(s) <= Len(t) /\ SubSeq(t, 1, Len(s)) = s

\* The frames on which the walk falls one header short of what cf_decap.c:47-49
\* says of IPV6_MAX_EXT_HEADERS: it leaves the loop after the eighth extension
\* header without a look at what follows (288-348) and reports the chain as too
\* deep.
LongestChain(d) == Len(d.ext) = 8 /\ ~LaterFragment(d)

\* DecapFaithful: cf_decap reports of a frame exactly what was sent, through
\* tags, options, extension headers, fragments and padding, or, of the longest
\* chain, that it is too deep; of a frame cut anywhere it reports the same
\* fields or that it is truncated, never another port, address or verdict, and
\* over TCP only payload bytes that were sent.
DecapFaithful ==
    stage = "done" =>
        LET carried == Carries(packet.link)
            readable == IF packet.source = "dns" THEN carried \in {"udp", "tcp"} ELSE carried = "udp"
            fields == FrameFields(packet.link)
        IN  /\ link.rc = "ok" => /\ readable
                                 /\ \A x \in DOMAIN fields : link[x] = fields[x]
                                 /\ IF carried = "udp" THEN link.payload = Payload(packet)
                                    ELSE IsPrefixOf(link.payload, Payload(packet))
            /\ Uncut(packet) /\ ~LongestChain(packet.link) =>
                   /\ (link.rc = "ok") = readable
                   /\ (link.rc = "unsupported") = (carried = "unsupported")
                   /\ readable => link.payload = Payload(packet)
            /\ link.rc \in {"ok", "truncated"} \/ ~readable \/ LongestChain(packet.link)

\* FilterAgrees: the filter lets through what the stage behind it reads (a
\* whole first fragment at the source's ports, with at most one 802.1Q tag and
\* no IPv6 extension header) and nothing that is at other ports.
OurPorts(p) == IF p.source = "dns" THEN {53}
               ELSE IF p.link.version = 4 THEN {67, 68} ELSE {546, 547}
AtOurPorts(p) ==
    /\ Carries(p.link) \in (IF p.source = "dns" THEN {"udp", "tcp"} ELSE {"udp"})
    /\ {p.link.sport, p.link.dport} \cap OurPorts(p) # {}
FilterAgrees ==
    /\ stage = "captured" => AtOurPorts(packet)
    /\ stage = "filtered" => \/ ~AtOurPorts(packet)
                             \/ packet.link.ext # <<>>
                             \/ \E i \in DOMAIN packet.link.tags : i > 1 \/ packet.link.tags[i][1] # 33024

\* DnsFaithful: a complete message is reported as it was sent, with the rcode
\* of header and OPT put together and without a warning.  Of one that ends
\* early, each section is the first entries that were sent, the last of them
\* perhaps shortened and then marked malformed, and the loss is reported unless
\* the message ends inside the owner name of a record.
SectionFaithful(got, sent) ==
    LET n == Len(got)
    IN  /\ n <= Len(sent)
        /\ \A i \in 1..n : \/ got[i] = sent[i]
                           \/ /\ i = n /\ got[i].malformed
                              /\ got[i].name = sent[i].name /\ got[i].type = sent[i].type
                              /\ IsPrefixOf(got[i].rdata_raw, sent[i].rdata_raw)
DnsFaithful ==
    Parsed("dns") =>
        LET m == event[1]
            sent == DnsSections(packet.message)
            whole == Complete(packet)
            names == [i \in DOMAIN m.questions |-> m.questions[i].qname]
            opt == packet.message.opt
            all == /\ Len(names) = Len(sent.questions)
                   /\ \A s \in {"answers", "authority", "additional"} : m[s] = sent[s]
                   /\ Len(m.edns) = Len(opt)
        IN  /\ IsPrefixOf(names, sent.questions)
            /\ \A s \in {"answers", "authority", "additional"} : SectionFaithful(m[s], sent[s])
            /\ whole => /\ all /\ m.warnings = <<>>
                        /\ opt # <<>> => m.edns[1].options = opt[1].options
                        /\ m.header.rcode = packet.message.rcode + (IF opt = <<>> THEN 0 ELSE 16 * opt[1].ext)
            /\ ~all => m.warnings # <<>> \/ EndsInOwner(packet.message, packet.sent)

\* LongOptionsWhole: however a DHCPv4 option is cut into pieces over the
\* options, file and sname fields, the raw options are those pieces and every
\* decoder reads the whole value; of a message that ends early, the pieces of
\* the options field are the first that were sent, only the last shortened, and
\* then reported.
LongOptionsWhole ==
    Parsed("v4") =>
        LET e == event[1].parse
            got == SelectSeq(e.raw_options, LAMBDA x : x.field = "options")
            sent == OptionPieces(packet.message)
            n == Len(got)
        IN  /\ n <= Len(sent)
            /\ \A i \in 1..n :
                   /\ got[i].code = sent[i][1]
                   /\ \/ got[i].value = sent[i][2] /\ ~got[i].malformed
                      \/ i = n /\ got[i].malformed /\ IsPrefixOf(got[i].value, sent[i][2]) /\ e.warnings # <<>>
            /\ Complete(packet) =>
                   /\ [i \in DOMAIN e.raw_options |-> <<e.raw_options[i].code, e.raw_options[i].value>>]
                          = AllPieces(packet.message)
                   /\ e.warnings = <<>>
                   /\ \A c \in DOMAIN packet.message.values : e.decoded[c] = packet.message.values[c]

\* Dhcpv6Faithful: the options of a complete message are reported as sent and
\* decoded to its values, with a warning for each fault of what is nested in
\* them (a length that exceeds the option it is in) and nothing taken from the
\* option behind; of a message that ends early, the first that were sent, only
\* the last shortened, and reported, unless it ends inside the code and length
\* of an option.
Dhcpv6Faithful ==
    Parsed("v6") =>
        LET e == event[1].parse
            got == e.raw_options
            sent == packet.message.options
            n == Len(got)
        IN  \/ EndsInOptionHeader(packet.message, packet.sent)
            \/ /\ n <= Len(sent)
               /\ \A i \in 1..n :
                      /\ got[i].code = sent[i][1]
                      /\ \/ got[i].value = sent[i][2] /\ got[i].warning = ""
                         \/ i = n /\ IsPrefixOf(got[i].value, sent[i][2]) /\ e.warnings # <<>>
               /\ Complete(packet) =>
                      /\ n = Len(sent) /\ Len(e.warnings) = packet.message.warned
                      /\ \A x \in DOMAIN packet.message.values : e.decoded[x] = packet.message.values[x]

\* UsableIsKept: a DHCP packet whose frame can be read and whose message has its
\* header becomes an event, with its raw payload or marked as without it,
\* unless it is over the limit even so or memory runs out.
UsableIsKept ==
    (stage = "done" /\ packet.source = "dhcp") =>
        LET usable == /\ Uncut(packet) /\ Carries(packet.link) = "udp" /\ ~LongestChain(packet.link)
                      /\ Protocol(packet.link @@ [src_port |-> packet.link.sport, dst_port |-> packet.link.dport])
                             = packet.kind
                      /\ packet.sent >= (IF packet.kind = "v4" THEN 236 ELSE 4)
        IN  usable => /\ built # <<>> /\ built[1].protocol = packet.kind
                      /\ \/ outcome = "failed"
                         \/ outcome = "events_oversize_dropped" /\ PackedSize(built[1].parse, <<>>) > EventMax
                         \/ /\ outcome = "events_formatted"
                            /\ event[1].protocol = packet.kind /\ event[1].parse = built[1].parse
                            /\ event[1].raw_truncated = (event[1].raw # Payload(packet))
                            /\ PackedSize(event[1].parse, event[1].raw) <= EventMax
=============================================================================
