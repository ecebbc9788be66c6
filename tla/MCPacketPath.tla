---------------------------- MODULE MCPacketPath ----------------------------
(***************************************************************************)
(* The packets of the packet_path run.                                     *)
(***************************************************************************)
EXTENDS PacketPath, FiniteSets
LOCAL INSTANCE SequencesExt

Plain(version, proto, sport, dport) ==
    [tags |-> <<>>, version |-> version, words |-> 0, frag |-> <<0, FALSE>>, total |-> TRUE, ext |-> <<>>,
     proto |-> proto, sport |-> sport, dport |-> dport, tcpWords |-> 0, pad |-> 0]

MCTags == { <<>>, << <<33024, 5>> >>, << <<34984, 6>> >>, << <<33024, 6>>, <<33024, 5>> >>,
            << <<34984, 7>>, <<33024, 6>>, <<33024, 5>> >> }
MCPorts == { <<53, 4000>>, <<4000, 53>>, <<4000, 4001>> }
MCExts == { << <<0, 0, 0>> >>, << <<0, 0, 0>>, <<60, 1, 0>> >>, << <<43, 0, 0>>, <<44, 0, 0>> >>, << <<44, 0, 2>> >>,
            [i \in 1..7 |-> <<60, 0, 0>>], [i \in 1..8 |-> <<60, 0, 0>>],
            [i \in 1..9 |-> <<60, 0, 0>>] }

Based(version, proto) == {Plain(version, proto, q[1], q[2]) : q \in MCPorts}
MCLinks4 ==
    LET all == {[d EXCEPT !.tags = t, !.pad = p[1], !.words = p[2]] :
                    d \in UNION {Based(4, 17), Based(4, 6), Based(4, 1)}, t \in MCTags, p \in {<<0, 2>>, <<6, 0>>}}
        base == Based(4, 17) \cup Based(4, 6)
    IN  all \cup {[d EXCEPT !.frag = <<3, TRUE>>] : d \in base}
            \cup {[d EXCEPT !.frag = <<0, TRUE>>, !.tcpWords = 3] : d \in Based(4, 6)}
            \cup {[d EXCEPT !.total = FALSE, !.words = 1] : d \in base}
MCLinks6 ==
    LET base == Based(6, 17) \cup Based(6, 6)
    IN  {[d EXCEPT !.ext = e, !.pad = 2] : d \in base, e \in MCExts}
        \cup {[d EXCEPT !.tags = t] : d \in base, t \in MCTags}
MCLinks == MCLinks4 \cup MCLinks6 \cup {[Plain(4, 17, 53, 53) EXCEPT !.version = 0]}

\* Every frame around an empty DNS query, cut everywhere.
EmptyQuery == [qr |-> FALSE, rcode |-> 0, questions |-> <<>>, answers |-> <<>>, authority |-> <<>>,
               additional |-> <<>>, opt |-> <<>>]
Packet(source, d, kind, m, sent) ==
    LET wire == Message(kind, d.proto, m)
        frame == Frame(d, SubSeq(wire, 1, sent))
    IN  [source |-> source, link |-> d, kind |-> kind, message |-> m, wire |-> wire, frame |-> frame,
         sent |-> sent, captured |-> Len(frame)]
Whole0(source, d, kind, m) == Packet(source, d, kind, m, Len(Message(kind, d.proto, m)))
CutEverywhere(p) == {[p EXCEPT !.captured = n] : n \in 0..p.captured}
FramePackets == UNION {CutEverywhere(Whole0("dns", d, "dns", EmptyQuery)) : d \in MCLinks}

\* DNS messages, ending anywhere, over UDP and TCP.
Rr(name, type, rdata, text) == [name |-> name, type |-> type, class |-> 1, rdata |-> rdata, text |-> text]
A == Rr(Repeated, 1, <<192, 0, 2, 7>>, <<192, 0, 2, 7>>)
Cname == Rr(Repeated, 5, <<1, 89, 192, 12>>, <<121, 46>> \o QName.text)
Mx == Rr(Below, 15, <<0, 10, 192, 12>>, << <<10>>, QName.text>>)
Srv == Rr(Below, 33, <<0, 1, 0, 2, 0, 53, 192, 12>>, << <<1, 2, 53>>, QName.text>>)
Soa == Rr(Parent, 6, <<192, 12, 192, 14>> \o Rep(1, 20), <<QName.text, Parent.text, Rep(1, 20)>>)
Txt == Rr(QName, 16, <<2, 104, 105, 1, 33>>, <<104, 105, 32, 33>>)
Aaaa == Rr(Root, 28, Rep(9, 16), Rep(9, 16))
Other == Rr(Below, 99, <<1, 2, 3>>, <<>>)
MCDnsMessages ==
    { [EmptyQuery EXCEPT !.questions = <<QName>>],
      [EmptyQuery EXCEPT !.questions = <<QName>>, !.opt = <<[ext |-> 0, options |-> << <<10, <<1, 2>> >> >>]>>],
      [EmptyQuery EXCEPT !.qr = TRUE, !.rcode = 3, !.questions = <<QName>>, !.authority = <<Soa>>,
                         !.opt = <<[ext |-> 0, options |-> <<>>]>>],
      [EmptyQuery EXCEPT !.qr = TRUE, !.rcode = 7, !.questions = <<QName, Below>>, !.answers = <<Cname, A>>,
                         !.additional = <<Aaaa, Other>>,
                         !.opt = <<[ext |-> 1, options |-> << <<3, <<>> >>, <<15, <<0, 1>> >> >>]>>],
      [EmptyQuery EXCEPT !.qr = TRUE, !.questions = <<QName>>, !.answers = <<Mx, Txt>>, !.authority = <<Srv>>] }
DnsPackets ==
    UNION {{Packet("dns", Plain(4, proto, 53, 4000), "dns", m, n) :
               n \in 0..Len(DnsWire(m)) + (IF proto = 6 THEN 2 ELSE 0)} :
           m \in MCDnsMessages, proto \in {6, 17}}

\* DHCPv4: a long option cut at every two places, its pieces in the three
\* fields, or two of them in one with another option in between; and messages
\* ending anywhere in their options.
V4Message(options, file, sname, values) == [options |-> options, file |-> file, sname |-> sname, values |-> values]
DISCOVER == <<53, <<1>> >>
Piece(code, bytes) == IF bytes = <<>> THEN <<>> ELSE << <<code, bytes>> >>
Cuts(code, bytes, expected) ==
    LET piece(i, j) == Piece(code, SubSeq(bytes, i + 1, j))
        values == [c \in {code, 53} |-> IF c = 53 THEN <<1>> ELSE expected]
        pairs == {q \in (0..Len(bytes)) \X (0..Len(bytes)) : q[1] <= q[2]}
    IN  {V4Message(<<DISCOVER>> \o piece(0, q[1]), piece(q[1], q[2]), piece(q[2], Len(bytes)), values) : q \in pairs}
        \cup {V4Message(piece(0, q[1]) \o <<DISCOVER>> \o piece(q[1], q[2]), <<>>, piece(q[2], Len(bytes)), values) :
              q \in pairs}
SplitMessages ==
    UNION {
        Cuts(119, <<1, 97, 2, 98, 99, 0, 1, 120, 192, 2>>, << <<97, 46, 98, 99>>, <<120, 46, 98, 99>> >>),
        Cuts(12, <<104, 111, 115, 116>>, << <<104, 111, 115, 116>> >>),
        Cuts(121, <<24, 10, 0, 1, 192, 0, 2, 1, 0, 192, 0, 2, 9>>,
             <<[prefix |-> 24, destination |-> <<10, 0, 1, 0>>, router |-> <<192, 0, 2, 1>>],
               [prefix |-> 0, destination |-> <<0, 0, 0, 0>>, router |-> <<192, 0, 2, 9>>]>>),
        Cuts(82, <<1, 2, 5, 6, 2, 1, 65>>,
             <<[raw |-> <<1, 2, 5, 6, 2, 1, 65>>,
                suboptions |-> <<[code |-> 1, value |-> <<5, 6>>, malformed |-> FALSE, headless |-> FALSE],
                                 [code |-> 2, value |-> <<65>>, malformed |-> FALSE, headless |-> FALSE]>>,
                circuit_id |-> <<[printable |-> FALSE, bytes |-> <<5, 6>>]>>,
                remote_id |-> <<[printable |-> TRUE, bytes |-> <<65>>]>>, subscriber_id |-> <<>>]>>)}
EndingMessages ==
    { V4Message(<<DISCOVER, <<61, <<1>> \o SrcMac>>, <<1, <<255, 255, 255, 0>> >>, <<3, <<192, 0, 2, 1, 192, 0, 2, 2>> >>,
                  <<55, <<1, 3, 6>> >>, <<57, <<5, 220>> >>, <<60, <<77, 83>> >>, <<43, <<1, 1, 9>> >>>>, <<>>, <<>>,
                [c \in {53, 61, 1, 3, 55, 57, 60, 43} |->
                    CASE c = 53 -> <<1>>
                      [] c = 61 -> <<[raw |-> <<1>> \o SrcMac, text |-> SrcMac]>>
                      [] c = 1 -> << <<255, 255, 255, 0>> >>
                      [] c = 3 -> << << <<192, 0, 2, 1>>, <<192, 0, 2, 2>> >> >>
                      [] c = 55 -> << <<1, 3, 6>> >>
                      [] c = 57 -> << <<5, 220>> >>
                      [] c = 60 -> << <<77, 83>> >>
                      [] c = 43 -> <<[raw |-> <<1, 1, 9>>, attempted |-> TRUE, success |-> TRUE,
                                      suboptions |-> << <<1, [printable |-> FALSE, bytes |-> <<9>>]>> >>,
                                      warnings |-> <<>>]>>]),
      V4Message(<<DISCOVER, <<81, <<4, 0, 0, 1, 104, 0>> >>, <<12, <<104>> >>>>, << <<12, <<105>> >> >>,
                << <<12, <<106>> >> >>,
                [c \in {81, 12} |->
                    CASE c = 81 -> <<[flags |-> 4, rcode1 |-> 0, rcode2 |-> 0, raw |-> <<1, 104, 0>>,
                                      domain_name |-> <<104>>]>>
                      [] c = 12 -> << <<104, 105, 106>> >>]) }
V4Link == Plain(4, 17, 68, 67)
V4Packets ==
    {Whole0("dhcp", V4Link, "v4", m) : m \in SplitMessages}
    \cup UNION {{Packet("dhcp", V4Link, "v4", m, n) : n \in {0, 235} \cup 236..Len(Dhcpv4Wire(m))} : m \in EndingMessages}

\* DHCPv6: messages ending anywhere.
Enterprise == <<0, 0, 1, 55>>
Iaaddr(last) == Word(5) \o Word(24) \o Addr(6, last) \o Rep(0, 8)
\* Lengths one option deeper that exceed it: of an address that is there, of one
\* that is not (which has a warning of its own), of a vendor's class and option.
Nested ==
    [type |-> 3, warned |-> 5,
     options |-> << <<3, Rep(7, 12) \o Word(5) \o Word(24) \o Addr(6, 1)>>, <<6, <<0, 23>> >>,
                    <<4, Rep(7, 4) \o Word(5) \o Word(24) \o Rep(9, 15)>>, <<2, <<8>> >>,
                    <<16, Enterprise \o <<0, 9, 77>> >>, <<17, Enterprise \o <<0, 1, 0, 9, 5>> >>, <<1, <<10>> >> >>,
     values |-> [client_duid |-> <<10>>, server_duid |-> <<8>>, oro |-> <<23>>, addresses |-> <<Addr(6, 1)>>,
                 vendor_class |-> <<77>>,
                 vendor_options |-> <<[raw |-> Enterprise \o <<0, 1, 0, 9, 5>>, enterprise |-> Enterprise,
                                       suboptions |-> << <<1, <<5>> >> >>]>>]]
MCV6Messages ==
    { [type |-> 1, warned |-> 0,
       options |-> << <<1, <<0, 3, 0, 1>> \o SrcMac>>, <<6, <<0, 23, 0, 24>> >>,
                      <<3, Rep(7, 12) \o Iaaddr(1) \o Iaaddr(2)>>, <<16, Enterprise \o <<0, 2, 77, 83>> >>,
                      <<17, Enterprise \o <<0, 1, 0, 1, 5>> >> >>,
       values |-> [client_duid |-> <<0, 3, 0, 1>> \o SrcMac, server_duid |-> <<>>, oro |-> <<23, 24>>,
                   addresses |-> <<Addr(6, 1), Addr(6, 2)>>, vendor_class |-> <<77, 83>>,
                   vendor_options |-> <<[raw |-> Enterprise \o <<0, 1, 0, 1, 5>>, enterprise |-> Enterprise,
                                         suboptions |-> << <<1, <<5>> >> >>]>>]],
      [type |-> 7, warned |-> 0,
       options |-> << <<1, <<8>> >>, <<2, <<9>> >>, <<1, <<10>> >>, <<2, <<11>> >>, <<6, <<0, 1>> >>, <<6, <<0, 2>> >>,
                      <<4, Rep(7, 4) \o Iaaddr(3)>>, <<13, <<0, 0>> >> >>,
       values |-> [client_duid |-> <<8>>, server_duid |-> <<9>>, oro |-> <<1, 2>>, addresses |-> <<Addr(6, 3)>>]],
      [type |-> 12, warned |-> 0, options |-> << <<9, <<1, 0, 0, 9>> >>, <<18, <<101>> >> >>,
       values |-> [client_duid |-> <<>>]],
      Nested }
Oversized == [type |-> 1, warned |-> 0, options |-> << <<99, Rep(1, 300)>> >>, values |-> [oro |-> <<>>]]
V6Packets ==
    UNION {{Packet("dhcp", Plain(6, 17, 546, 547), "v6", m, n) : n \in 0..Len(Dhcpv6Wire(m))} : m \in MCV6Messages}
    \cup {Packet("dhcp", Plain(6, 17, 546, 547), "v6", Oversized, n) : n \in {130, 200, 308}}

\* DHCP frames at and beside the ports, cut everywhere.
DhcpFramePackets ==
    UNION {CutEverywhere(Whole0("dhcp", [d EXCEPT !.tags = t], "v6",
                                [type |-> 1, warned |-> 0, options |-> <<>>, values |-> [oro |-> <<>>]])) :
           d \in {Plain(6, 17, 546, 547), Plain(6, 17, 547, 546), Plain(6, 6, 546, 547), Plain(4, 17, 546, 547),
                  Plain(6, 17, 67, 68), Plain(6, 17, 545, 548), Plain(4, 17, 67, 67), Plain(4, 17, 66, 69)},
           t \in MCTags}

MCPackets == FramePackets \cup DnsPackets \cup V4Packets \cup V6Packets \cup DhcpFramePackets
=============================================================================
