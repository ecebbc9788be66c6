----------------------------- MODULE DnsMessage -----------------------------
(***************************************************************************)
(* cf_dns.c: the DNS message parser.  It trusts no length and no pointer:  *)
(* names are decompressed with strictly backward pointers and hard limits, *)
(* a record that runs past the message is clamped, and parsing goes on as  *)
(* far as it makes sense, with warnings.  Presentation formats (addresses, *)
(* numbers, type names) are left as the values they print.                 *)
(***************************************************************************)
EXTENDS Wire
LOCAL INSTANCE SequencesExt

HeaderLen == 12
MaxNameOctets == 255
MaxPointerJumps == 128
OPT == 41

Bit(byte, weight) == (byte \div weight) % 2 = 1

\* decode_name() from position pos on.  n collects the text, the octets and
\* jumps so far, and what the name consumes at its start: nothing until its
\* end or its first pointer is seen.
NameFailed(n) == [ok |-> FALSE, name |-> CString(n.text), consumed |-> n.consumed]
NameEnds(n, pos) ==
    [ok |-> TRUE, name |-> CString(n.text),
     consumed |-> IF n.consumed = 0 THEN pos + 1 - n.start ELSE n.consumed]

\* A pointer must lead to an offset before itself.
Backward(target, pos) == target < pos

RECURSIVE NameFrom(_, _, _)
NameFrom(msg, pos, n) ==
    LET len == At(msg, pos)
        label == Lower(Slice(msg, pos + 1, len))
        grown == [n EXCEPT !.octets = @ + len + 1,
                           !.text = (IF n.octets = 0 THEN @ ELSE Append(@, 46)) \o label]
        target == (len % 64) * 256 + At(msg, pos + 1)
        jumped == [n EXCEPT !.jumps = @ + 1, !.consumed = IF @ = 0 THEN pos + 2 - n.start ELSE @]
    IN  IF pos >= Len(msg) THEN NameFailed(n)
        ELSE IF len = 0 THEN NameEnds(n, pos)
        ELSE IF TopBits(len) = 0 THEN
            IF pos + 1 + len > Len(msg) \/ grown.octets > MaxNameOctets THEN NameFailed(n)
            ELSE NameFrom(msg, pos + 1 + len, grown)
        ELSE IF TopBits(len) # 3 \/ pos + 2 > Len(msg) THEN NameFailed(n)
        ELSE IF ~Backward(target, pos) \/ jumped.jumps > MaxPointerJumps THEN NameFailed(jumped)
        ELSE NameFrom(msg, target, jumped)

DecodeName(msg, start) ==
    NameFrom(msg, start, [start |-> start, text |-> <<>>, octets |-> 0, jumps |-> 0, consumed |-> 0])

\* RDATA as text, by type: [text, malformed].  Names may compress backward
\* into the whole message.
NoText == [text |-> <<>>, malformed |-> TRUE]
NumbersAndName(msg, off, rdlen, n) ==
    LET name == DecodeName(msg, off + 2 * n)
    IN  IF rdlen < 2 * n + 1 \/ ~Fits(msg, off, 2 * n) THEN NoText
        ELSE [text |-> <<[i \in 1..n |-> Be16(msg, off + 2 * (i - 1))], name.name>>, malformed |-> ~name.ok]

SoaText(msg, off, rdlen) ==
    LET mname == DecodeName(msg, off)
        rname == DecodeName(msg, off + mname.consumed)
        p == off + mname.consumed + rname.consumed
    IN  IF ~mname.ok THEN [text |-> mname.name, malformed |-> TRUE]
        ELSE IF ~rname.ok THEN [text |-> rname.name, malformed |-> TRUE]
        ELSE IF p + 20 > off + rdlen \/ ~Fits(msg, p, 20) THEN NoText
        ELSE [text |-> <<mname.name, rname.name, Slice(msg, p, 20)>>, malformed |-> FALSE]

RECURSIVE TxtStrings(_, _, _)
TxtStrings(msg, p, end) ==
    LET len == At(msg, p)
        short == p + 1 + len > end
        use == IF short THEN end - (p + 1) ELSE len
        rest == TxtStrings(msg, p + 1 + use, end)
    IN  IF p >= end THEN [strings |-> <<>>, malformed |-> FALSE]
        ELSE [strings |-> <<Slice(msg, p + 1, use)>> \o rest.strings, malformed |-> short \/ rest.malformed]

TxtText(msg, off, rdlen) ==
    LET over == off + rdlen > Len(msg)
        txt == TxtStrings(msg, off, IF over THEN Len(msg) ELSE off + rdlen)
        spaced == [i \in DOMAIN txt.strings |-> (IF i = 1 THEN <<>> ELSE <<32>>) \o txt.strings[i]]
    IN  [text |-> CString(Join(spaced)), malformed |-> over \/ txt.malformed]

RdataText(msg, type, off, rdlen) ==
    LET name == DecodeName(msg, off)
        address(n) == IF rdlen # n \/ ~Fits(msg, off, n) THEN NoText
                      ELSE [text |-> Slice(msg, off, n), malformed |-> FALSE]
    IN  CASE type = 1 -> address(4)
          [] type = 28 -> address(16)
          [] type \in {2, 5, 12} -> [text |-> name.name, malformed |-> ~name.ok]
          [] type = 15 -> NumbersAndName(msg, off, rdlen, 1)
          [] type = 33 -> NumbersAndName(msg, off, rdlen, 3)
          [] type = 6 -> SoaText(msg, off, rdlen)
          [] type = 16 -> TxtText(msg, off, rdlen)
          [] OTHER -> [text |-> <<>>, malformed |-> FALSE]

Header(msg) ==
    [id |-> Be16(msg, 0), qr |-> Bit(At(msg, 2), 128), opcode |-> (At(msg, 2) \div 8) % 16,
     aa |-> Bit(At(msg, 2), 4), tc |-> Bit(At(msg, 2), 2), rd |-> Bit(At(msg, 2), 1),
     ra |-> Bit(At(msg, 3), 128), ad |-> Bit(At(msg, 3), 32), cd |-> Bit(At(msg, 3), 16),
     rcode |-> At(msg, 3) % 16,
     qdcount |-> Be16(msg, 4), ancount |-> Be16(msg, 6), nscount |-> Be16(msg, 8), arcount |-> Be16(msg, 10)]

\* The parse so far: the cursor, the sections, the warnings; stop ends a section.
Warn(m, code, field) == [m EXCEPT !.warnings = Append(@, Warning(code, field))]
Stop(m) == [m EXCEPT !.stop = TRUE]

BuildQuestion(msg, m) ==
    LET name == DecodeName(msg, m.pos)
        p == m.pos + name.consumed
        named == IF name.ok THEN m ELSE Warn(m, "dns_name_malformed", "questions")
    IN  IF name.consumed = 0 THEN Stop(Warn(m, "dns_question_truncated", "questions"))
        ELSE IF ~Fits(msg, p, 4) THEN Stop(Warn(named, "dns_question_truncated", "questions"))
        ELSE [named EXCEPT !.pos = p + 4,
                 !.questions = Append(@, [qname |-> name.name, qname_wire |-> Slice(msg, m.pos, name.consumed),
                                          qtype |-> Be16(msg, p), qclass |-> Be16(msg, p + 2)])]

\* parse_rr_header(): the fixed part of a record at offset p after its name,
\* with the RDATA clamped to the message.  A name that takes no bytes ends the
\* section without a warning.
RrHeader(msg, name, p) ==
    LET off == p + 10
        over == off + Be16(msg, p + 8) > Len(msg)
    IN  [name |-> name.name, type |-> Be16(msg, p), class |-> Be16(msg, p + 2), ttl |-> Slice(msg, p + 4, 4),
         off |-> off, rdlen |-> IF over THEN Len(msg) - off ELSE Be16(msg, p + 8),
         name_malformed |-> ~name.ok, overrun |-> over]

\* Where the next record starts; after an overrun, nothing is left.
AfterRecord(msg, h) == IF h.overrun THEN Len(msg) ELSE h.off + h.rdlen

BuildRr(msg, h) ==
    LET rdata == RdataText(msg, h.type, h.off, h.rdlen)
    IN  [name |-> h.name, type |-> h.type, class |-> h.class, ttl |-> h.ttl,
         rdata_raw |-> Slice(msg, h.off, h.rdlen), rdata_text |-> rdata.text,
         malformed |-> h.name_malformed \/ h.overrun \/ rdata.malformed]

\* build_edns(): the options of an OPT record, each clamped to its RDATA.
RECURSIVE EdnsOptions(_, _, _)
EdnsOptions(msg, p, end) ==
    LET over == p + 4 + Be16(msg, p + 2) > end
        len == IF over THEN end - (p + 4) ELSE Be16(msg, p + 2)
        rest == EdnsOptions(msg, p + 4 + len, end)
    IN  IF p + 4 > end THEN [options |-> <<>>, warnings |-> <<>>]
        ELSE [options |-> << <<Be16(msg, p), Slice(msg, p + 4, len)>> >> \o rest.options,
              warnings |-> (IF over THEN <<Warning("dns_edns_option_overrun", "edns.options")>> ELSE <<>>)
                           \o rest.warnings]

BuildEdns(msg, h) ==
    [udp_payload_size |-> h.class, extended_rcode |-> h.ttl[1], version |-> h.ttl[2],
     do_bit |-> Bit(h.ttl[3], 128), options |-> EdnsOptions(msg, h.off, h.off + h.rdlen).options]

\* Mutant of FoldRcode: a byte instead of a nibble.
FoldRcodeByte(extended, rcode) == extended * 256 + (rcode % 16)

\* The first OPT of the additional section becomes the message's EDNS data and
\* its extended rcode goes above the header's four bits.
FoldRcode(extended, rcode) == extended * 16 + (rcode % 16)

TakeOpt(msg, m, h) ==
    IF m.edns # <<>> THEN Warn(m, "dns_multiple_opt", "additional")
    ELSE [m EXCEPT !.edns = <<BuildEdns(msg, h)>>,
                   !.header.rcode = FoldRcode(h.ttl[1], @),
                   !.warnings = @ \o EdnsOptions(msg, h.off, h.off + h.rdlen).warnings]

\* One record of section s.
ParseRecord(msg, s, m) ==
    LET name == DecodeName(msg, m.pos)
        p == m.pos + name.consumed
        h == RrHeader(msg, name, p)
        warned == IF h.overrun THEN Warn(m, "dns_rdata_overrun", s)
                  ELSE IF h.name_malformed THEN Warn(m, "dns_name_malformed", s) ELSE m
        moved == [warned EXCEPT !.pos = AfterRecord(msg, h), !.stop = h.overrun]
    IN  IF name.consumed = 0 THEN Stop(m)
        ELSE IF ~Fits(msg, p, 10) THEN Stop(Warn(m, "dns_rr_truncated", s))
        ELSE IF s = "additional" /\ h.type = OPT THEN TakeOpt(msg, moved, h)
        ELSE [moved EXCEPT ![s] = Append(@, BuildRr(msg, h))]

\* A section of count entries, the first of them at the cursor.
RECURSIVE Section(_, _, _, _)
Section(msg, s, count, m) ==
    IF count = 0 \/ m.stop THEN [m EXCEPT !.stop = FALSE]
    ELSE IF m.pos >= Len(msg) THEN Warn(m, "dns_section_truncated", s)
    ELSE Section(msg, s, count - 1, IF s = "questions" THEN BuildQuestion(msg, m) ELSE ParseRecord(msg, s, m))

\* cf_dns_parse(): <<>> without a complete header, else <<message>>.
DnsParse(msg) ==
    LET h == Header(msg)
        empty == [header |-> h, pos |-> HeaderLen, stop |-> FALSE, questions |-> <<>>, answers |-> <<>>,
                  authority |-> <<>>, additional |-> <<>>, edns |-> <<>>, warnings |-> <<>>]
        afterQd == Section(msg, "questions", h.qdcount, empty)
        afterAn == Section(msg, "answers", h.ancount, afterQd)
        afterNs == Section(msg, "authority", h.nscount, afterAn)
    IN  IF Len(msg) < HeaderLen THEN <<>>
        ELSE <<Section(msg, "additional", h.arcount, afterNs)>>
=============================================================================
