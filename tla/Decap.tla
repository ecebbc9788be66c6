------------------------------- MODULE Decap --------------------------------
(***************************************************************************)
(* cf_decap.c: Ethernet, up to two VLAN tags, IPv4 or IPv6 with extension  *)
(* headers, UDP or TCP.  decap_walk() resolves the link and network fields *)
(* and stops at the L4 header; cf_decap_udp() and cf_decap_tcp() parse     *)
(* their transport there.  A result is [rc |-> code] or, with rc "ok", all *)
(* the fields: on any other code the callers look at nothing else.         *)
(***************************************************************************)
EXTENDS Wire
LOCAL INSTANCE TLC

VLAN == 33024
QINQ == 34984
IPV4 == 2048
IPV6 == 34525
TCP == 6
UDP == 17
HOPOPTS == 0
ROUTING == 43
FRAGMENT == 44
DSTOPTS == 60
MaxExtHeaders == 8

Error(rc) == [rc |-> rc]

\* The fields of an OK walk; l4 is <<>> for a fragment that is not the first.
Walked(w, frag, l4) == w @@ frag @@ [rc |-> "ok", l4 |-> l4]
Unfragmented == [fragmented |-> FALSE, fragment_offset |-> 0]

\* Mutant of PayloadEnd4: a total length of 0 is believed.
PayloadEnd4Believed(f, off, ihl) ==
    LET total == Be16(f, off + 2)
    IN  IF off + total > Len(f) THEN Len(f) ELSE off + total

\* The IPv4 header at off.  A total length that is too small, or past the
\* captured bytes, gives the end of the frame as the end of the payload.
PayloadEnd4(f, off, ihl) ==
    LET total == Be16(f, off + 2)
    IN  IF total < ihl \/ off + total > Len(f) THEN Len(f) ELSE off + total

WalkIpv4(f, off, w) ==
    LET ihl == (At(f, off) % 16) * 4
        fragOff == Be16(f, off + 6) % 8192
        more == (Be16(f, off + 6) \div 8192) % 2 = 1
        net == [ip_version |-> 4, src_ip |-> Slice(f, off + 12, 4), dst_ip |-> Slice(f, off + 16, 4),
                next_header |-> At(f, off + 9), ttl |-> At(f, off + 8),
                dscp |-> At(f, off + 1) \div 4, ecn |-> At(f, off + 1) % 4,
                payload_end |-> PayloadEnd4(f, off, ihl)]
    IN  IF Remain(f, off) < 20 THEN Error("truncated")
        ELSE IF At(f, off) \div 16 # 4 THEN Error("unsupported")
        ELSE IF ihl < 20 \/ Remain(f, off) < ihl THEN Error("truncated")
        ELSE Walked(w @@ net, [fragmented |-> more \/ fragOff # 0, fragment_offset |-> fragOff],
                    IF fragOff # 0 THEN <<>> ELSE <<off + ihl>>)

\* The chain of IPv6 extension headers from cur on, i headers into it.
RECURSIVE WalkExtHeaders(_, _, _, _, _, _)
WalkExtHeaders(f, cur, next, i, w, frag) ==
    LET here == w @@ [next_header |-> next]
        fragOff == Be16(f, cur + 2) \div 8
        size == (At(f, cur + 1) + 1) * 8
    IN  IF i = MaxExtHeaders THEN Error("unsupported")
        ELSE IF next = FRAGMENT THEN
            IF Remain(f, cur) < 8 THEN Error("truncated")
            ELSE IF fragOff # 0
            THEN Walked(w @@ [next_header |-> At(f, cur)], [fragmented |-> TRUE, fragment_offset |-> fragOff], <<>>)
            ELSE WalkExtHeaders(f, cur + 8, At(f, cur), i + 1, w, [fragmented |-> TRUE, fragment_offset |-> 0])
        ELSE IF next \in {HOPOPTS, ROUTING, DSTOPTS} THEN
            IF Remain(f, cur) < 2 \/ Remain(f, cur) < size THEN Error("truncated")
            ELSE WalkExtHeaders(f, cur + size, At(f, cur), i + 1, w, frag)
        ELSE Walked(here, frag, <<cur>>)

WalkIpv6(f, off, w) ==
    LET class == (At(f, off) % 16) * 16 + At(f, off + 1) \div 16
        end == off + 40 + Be16(f, off + 4)
        net == [ip_version |-> 6, src_ip |-> Slice(f, off + 8, 16), dst_ip |-> Slice(f, off + 24, 16),
                ttl |-> At(f, off + 7), dscp |-> class \div 4, ecn |-> class % 4,
                payload_end |-> IF end > Len(f) THEN Len(f) ELSE end]
    IN  IF Remain(f, off) < 40 THEN Error("truncated")
        ELSE IF At(f, off) \div 16 # 6 THEN Error("unsupported")
        ELSE WalkExtHeaders(f, off + 40, At(f, off + 6), 0, w @@ net, Unfragmented)

\* The tags from off on; ids holds those already taken off.
RECURSIVE WalkTags(_, _, _, _, _)
WalkTags(f, ethertype, off, ids, w) ==
    LET link == w @@ [vlan_ids |-> ids, ethertype |-> ethertype]
    IN  IF ethertype \in {VLAN, QINQ} THEN
            IF Len(ids) = 2 THEN Error("unsupported")
            ELSE IF Remain(f, off) < 4 THEN Error("truncated")
            ELSE WalkTags(f, Be16(f, off + 2), off + 4, Append(ids, Be16(f, off) % 4096), w)
        ELSE IF ethertype = IPV4 THEN WalkIpv4(f, off, link)
        ELSE IF ethertype = IPV6 THEN WalkIpv6(f, off, link)
        ELSE Error("unsupported")

DecapWalk(f) ==
    IF Remain(f, 0) < 14 THEN Error("truncated")
    ELSE WalkTags(f, Be16(f, 12), 14, <<>>, [dst_mac |-> Slice(f, 0, 6), src_mac |-> Slice(f, 6, 6)])

\* The transport header at off, for a walk w that found one there.
ParseUdp(f, off, w) ==
    LET length == Be16(f, off + 4)
    IN  IF Remain(f, off) < 8 THEN Error("truncated")
        ELSE IF length < 8 \/ Remain(f, off + 8) < length - 8 THEN Error("truncated")
        ELSE w @@ [src_port |-> Be16(f, off), dst_port |-> Be16(f, off + 2), udp_length |-> length,
                   udp_checksum_present |-> Be16(f, off + 6) # 0,
                   payload |-> Slice(f, off + 8, length - 8)]

\* The TCP payload ends with the IP payload, never past the frame, and is
\* empty when the IP length does not even cover the TCP header.
ParseTcp(f, off, w) ==
    LET size == (At(f, off + 12) \div 16) * 4
        start == off + size
        end == IF w.payload_end < start THEN start
               ELSE IF w.payload_end > Len(f) THEN Len(f) ELSE w.payload_end
    IN  IF Remain(f, off) < 20 \/ size < 20 \/ Remain(f, off) < size THEN Error("truncated")
        ELSE w @@ [src_port |-> Be16(f, off), dst_port |-> Be16(f, off + 2), seq |-> Slice(f, off + 4, 4),
                   tcp_flags |-> At(f, off + 13), payload |-> Slice(f, start, end - start)]

DecapUdp(f) ==
    LET w == DecapWalk(f)
    IN  IF w.rc # "ok" THEN w
        ELSE IF w.l4 = <<>> \/ w.next_header # UDP THEN Error("not_udp")
        ELSE ParseUdp(f, w.l4[1], w)

DecapTcp(f) ==
    LET w == DecapWalk(f)
    IN  IF w.rc # "ok" THEN w
        ELSE IF w.l4 = <<>> \/ w.next_header # TCP THEN Error("not_tcp")
        ELSE ParseTcp(f, w.l4[1], w)
=============================================================================
