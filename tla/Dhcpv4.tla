------------------------------- MODULE Dhcpv4 -------------------------------
(***************************************************************************)
(* cf_dhcpv4.c and cf_dhcpv4_decode.c: the BOOTP header, the walk over the *)
(* options field and, with option 52, over the file and sname fields, the  *)
(* concatenation of an option's fragments (RFC 3396), the options' decoded *)
(* values and what the source derives from them.  Addresses and numbers    *)
(* are left as their bytes, names of codes as the codes.                   *)
(***************************************************************************)
EXTENDS Wire
LOCAL INSTANCE SequencesExt

FixedLen == 236
OptionsOff == 240
SnameOff == 44
SnameLen == 64
FileOff == 108
FileLen == 128
MagicCookie == <<99, 130, 83, 99>>

\* walk_options_field() from pos on, with the ordinal of the next option.  An
\* item is [code, field, ordinal, value, warning]; one with a warning is malformed
\* and the last of its field.
Item(code, field, ordinal, value, warning) ==
    [code |-> code, field |-> field, ordinal |-> ordinal, value |-> value, warning |-> warning]

RECURSIVE WalkOptions(_, _, _, _)
WalkOptions(bytes, field, pos, ordinal) ==
    LET code == At(bytes, pos)
        declared == At(bytes, pos + 1)
        avail == Len(bytes) - (pos + 2)
        over == declared > avail
        item == Item(code, field, ordinal, Slice(bytes, pos + 2, IF over THEN avail ELSE declared),
                     IF over THEN "opt_len_overrun" ELSE "")
    IN  IF pos >= Len(bytes) \/ code = 255 THEN <<>>
        ELSE IF code = 0 THEN WalkOptions(bytes, field, pos + 1, ordinal)
        ELSE IF ~Fits(bytes, pos, 2) THEN <<Item(code, field, ordinal, <<>>, "opt_missing_length")>>
        ELSE IF over THEN <<item>>
        ELSE <<item>> \o WalkOptions(bytes, field, pos + 2 + declared, ordinal + 1)

\* The value of the last option 52 of the options field; 0 without one.
Overload(items) ==
    LET values == SelectSeq(items, LAMBDA x : x.code = 52 /\ x.value # <<>>)
    IN  IF values = <<>> THEN 0 ELSE Last(values).value[1]

\* Options, then file (bit 1), then sname (bit 2).
RawItems(p) ==
    LET cookie == Fits(p, FixedLen, 4) /\ Slice(p, FixedLen, 4) = MagicCookie
        options == IF Len(p) > OptionsOff /\ cookie
                   THEN WalkOptions(Slice(p, OptionsOff, Len(p) - OptionsOff), "options", 0, 0) ELSE <<>>
        overload == Overload(options)
    IN  options
        \o (IF overload % 2 = 1 THEN WalkOptions(Slice(p, FileOff, FileLen), "file", 0, 0) ELSE <<>>)
        \o (IF (overload \div 2) % 2 = 1 THEN WalkOptions(Slice(p, SnameOff, SnameLen), "sname", 0, 0) ELSE <<>>)

\* The concatenation map: the fragments of a code, in the order of the walk.
Has(items, code) == \E x \in Range(items) : x.code = code
Fragments(items, code) == SelectSeq(items, LAMBDA x : x.code = code)

\* Mutant of Concat: the last fragment wins.
ConcatLast(items, code) == Last(Fragments(items, code)).value

Concat(items, code) == Join([i \in DOMAIN Fragments(items, code) |-> Fragments(items, code)[i].value])

RawOptions(items) ==
    [i \in DOMAIN items |->
        [code |-> items[i].code, value |-> items[i].value, field |-> items[i].field,
         ordinal |-> items[i].ordinal, malformed |-> items[i].warning # "",
         long_option_fragment |-> Len(Fragments(items, items[i].code)) > 1]]

WalkWarnings(items) ==
    LET bad == SelectSeq(items, LAMBDA x : x.warning # "")
    IN  [i \in DOMAIN bad |-> Warning(bad[i].warning, "raw_options")]

\* A decoder's result: <<value>> or <<>> for the default, and its warnings.
Decoded(value) == [value |-> <<value>>, warnings |-> <<>>]
Undecoded(code, field) == [value |-> <<>>, warnings |-> <<Warning(code, field)>>]
Absent == [value |-> <<>>, warnings |-> <<>>]

Fixed(data, n, field) == IF Len(data) < n THEN Undecoded("opt_len_short", field) ELSE Decoded(SubSeq(data, 1, n))
Text(data) == IF data = <<>> THEN Absent ELSE Decoded(CString(data))
FirstByte(data, field) == IF data = <<>> THEN Undecoded("opt_len_short", field) ELSE Decoded(data[1])

Ipv4List(data, field) ==
    [value |-> <<[i \in 1..Len(data) \div 4 |-> Slice(data, 4 * (i - 1), 4)]>>,
     warnings |-> IF Len(data) % 4 = 0 THEN <<>> ELSE <<Warning("opt_len_invalid", field)>>]

\* Option 61: text for the two common forms, the bytes always.
ClientId(data) ==
    LET text == IF Len(data) > 1 /\ data[1] = 0 /\ IsPrintable(Tail(data)) THEN Tail(data)
                ELSE IF Len(data) = 7 /\ data[1] = 1 THEN Tail(data) ELSE <<>>
    IN  Decoded([raw |-> data, text |-> text])

\* One name of a list of RFC 1035 names: labels from cursor on, pointers to
\* anywhere in the option, at most 64 of them.  next: where the list goes on.
BadName == [ok |-> FALSE, name |-> <<>>, next |-> 0]
RECURSIVE ListedName(_, _, _, _, _)
ListedName(data, cursor, name, jumps, next) ==
    LET b == At(data, cursor)
        target == (b % 64) * 256 + At(data, cursor + 1)
        grown == (IF name = <<>> THEN name ELSE Append(name, 46)) \o Slice(data, cursor + 1, b)
    IN  IF cursor >= Len(data) THEN BadName
        ELSE IF b = 0 THEN [ok |-> TRUE, name |-> name, next |-> IF jumps = 0 THEN cursor + 1 ELSE next]
        ELSE IF TopBits(b) = 3 THEN
            IF cursor + 1 >= Len(data) \/ jumps >= 64 \/ target >= Len(data) THEN BadName
            ELSE ListedName(data, target, name, jumps + 1, IF jumps = 0 THEN cursor + 2 ELSE next)
        ELSE IF TopBits(b) # 0 \/ cursor + 1 + b > Len(data) THEN BadName
        ELSE ListedName(data, cursor + 1 + b, grown, jumps, next)

RECURSIVE DomainNames(_, _, _)
DomainNames(data, pos, field) ==
    LET n == ListedName(data, pos, <<>>, 0, pos)
        rest == DomainNames(data, n.next, field)
    IN  IF pos >= Len(data) THEN [value |-> <<>>, warnings |-> <<>>]
        ELSE IF At(data, pos) = 0 THEN DomainNames(data, pos + 1, field)
        ELSE IF ~n.ok THEN Undecoded("domain_name_bad_encoding", field)
        ELSE [rest EXCEPT !.value = (IF n.name = <<>> THEN <<>> ELSE <<CString(n.name)>>) \o @]

\* Options 121 and 249: prefix length, significant octets, router.
RECURSIVE Routes(_, _, _)
Routes(data, pos, field) ==
    LET prefix == At(data, pos)
        octets == (prefix + 7) \div 8
        route == [prefix |-> prefix, destination |-> Slice(data, pos + 1, octets) \o Rep(0, 4 - octets),
                  router |-> Slice(data, pos + 1 + octets, 4)]
        rest == Routes(data, pos + 5 + octets, field)
    IN  IF pos >= Len(data) THEN [value |-> <<>>, warnings |-> <<>>]
        ELSE IF prefix > 32 THEN Undecoded("csr_bad_prefix_length", field)
        ELSE IF ~Fits(data, pos, 5 + octets) THEN Undecoded("csr_len_overrun", field)
        ELSE [rest EXCEPT !.value = <<route>> \o @]

\* A value that is printed as text when it can be, else in hexadecimal.
Shown(bytes) == [printable |-> IsPrintable(bytes), bytes |-> bytes]

\* Option 43, only when option 60 names a vendor: suboptions up to the first
\* that does not fit.
RECURSIVE VendorSuboptions(_, _)
VendorSuboptions(data, pos) ==
    LET rest == VendorSuboptions(data, pos + 2 + At(data, pos + 1))
    IN  IF pos >= Len(data) THEN [value |-> <<>>, warnings |-> <<>>]
        ELSE IF ~Fits(data, pos, 2) THEN Undecoded("vendor_subopt_truncated", "suboptions")
        ELSE IF ~Fits(data, pos, 2 + At(data, pos + 1)) THEN Undecoded("vendor_subopt_len_overrun", "suboptions")
        ELSE [rest EXCEPT !.value = << <<At(data, pos), Shown(Slice(data, pos + 2, At(data, pos + 1)))>> >> \o @]

VendorSpecific(data, vendorClass) ==
    LET walk == VendorSuboptions(data, 0)
    IN  IF vendorClass = <<>>
        THEN Decoded([raw |-> data, attempted |-> FALSE, success |-> FALSE, suboptions |-> <<>>, warnings |-> <<>>])
        ELSE Decoded([raw |-> data, attempted |-> TRUE, success |-> walk.warnings = <<>>,
                      suboptions |-> walk.value, warnings |-> walk.warnings])

\* Option 82: unlike option 43, a suboption that does not fit is kept, clamped.
RECURSIVE RelaySuboptions(_, _)
RelaySuboptions(data, pos) ==
    LET code == At(data, pos)
        over == ~Fits(data, pos, 2 + At(data, pos + 1))
        len == IF over THEN Len(data) - (pos + 2) ELSE At(data, pos + 1)
        sub == [code |-> code, value |-> Slice(data, pos + 2, len), malformed |-> over, headless |-> FALSE]
        rest == RelaySuboptions(data, pos + 2 + len)
    IN  IF pos >= Len(data) THEN [value |-> <<>>, warnings |-> <<>>]
        ELSE IF ~Fits(data, pos, 2)
        THEN [value |-> <<[code |-> code, value |-> <<>>, malformed |-> TRUE, headless |-> TRUE]>>,
              warnings |-> <<Warning("relay_subopt_truncated", "suboptions")>>]
        ELSE IF over THEN [value |-> <<sub>>, warnings |-> <<Warning("relay_subopt_len_overrun", "suboptions")>>]
        ELSE [rest EXCEPT !.value = <<sub>> \o @]

\* The circuit, remote and subscriber ids: the last suboption of that code
\* whose length byte was there.
RelayAgentInfo(data) ==
    LET walk == RelaySuboptions(data, 0)
        Id(code) == LET subs == SelectSeq(walk.value, LAMBDA x : x.code = code /\ ~x.headless)
                    IN  IF subs = <<>> THEN <<>> ELSE <<Shown(Last(subs).value)>>
    IN  [value |-> <<[raw |-> data, suboptions |-> walk.value,
                      circuit_id |-> Id(1), remote_id |-> Id(2), subscriber_id |-> Id(6)]>>,
         warnings |-> walk.warnings]

\* Option 81: flags, two rcodes, and a name in wire format when bit E is set.
Fqdn(data) ==
    LET name == Slice(data, 3, Len(data) - 3)
        encoded == (data[1] \div 4) % 2 = 1
        names == DomainNames(name, 0, "client_fqdn")
        result(n) == [flags |-> data[1], rcode1 |-> data[2], rcode2 |-> data[3], raw |-> name, domain_name |-> n]
    IN  IF Len(data) < 3 THEN Undecoded("opt_len_short", "client_fqdn")
        ELSE IF encoded
        THEN [value |-> <<result(IF names.value = <<>> THEN <<>> ELSE names.value[1])>>, warnings |-> names.warnings]
        ELSE Decoded(result(CString(name)))

\* cf_dhcpv4__build_decoded(), in its order: the decoder of each option.
DecodedCodes == <<53, 1, 3, 6, 12, 15, 50, 51, 52, 54, 55, 56, 57, 58, 59, 60, 61, 43, 66, 67, 81, 82, 119, 121, 249, 252>>

DecodeOption(items, code) ==
    LET data == Concat(items, code)
    IN  CASE ~Has(items, code) -> Absent
          [] code \in {53, 52} -> FirstByte(data, code)
          [] code \in {1, 50, 51, 54, 58, 59} -> Fixed(data, 4, code)
          [] code = 57 -> Fixed(data, 2, code)
          [] code \in {3, 6} -> Ipv4List(data, code)
          [] code \in {12, 15, 56, 60, 66, 67, 252} -> Text(data)
          [] code = 55 -> IF data = <<>> THEN Absent ELSE Decoded(data)
          [] code = 61 -> ClientId(data)
          [] code = 43 -> VendorSpecific(data, CString(Concat(items, 60)))
          [] code = 81 -> Fqdn(data)
          [] code = 82 -> RelayAgentInfo(data)
          [] code = 119 -> DomainNames(data, 0, code)
          [] code \in {121, 249} -> Routes(data, 0, code)

\* The decoded options, <<>> for one that is absent or was not decoded, and
\* the warnings of all decoders.
BuildDecoded(items) ==
    LET results == [c \in Range(DecodedCodes) |-> DecodeOption(items, c)]
    IN  [options |-> [c \in Range(DecodedCodes) |-> results[c].value],
         warnings |-> Join([i \in DOMAIN DecodedCodes |-> results[DecodedCodes[i]].warnings])]

\* build_header(): sname and file are shown as text only when they are a
\* printable string followed by zeros.
FieldText(b) ==
    LET text == CString(b)
    IN  IF IsPrintable(text) /\ \A i \in Len(text) + 1..Len(b) : b[i] = 0 THEN text ELSE <<>>

BootpHeader(p) ==
    [op |-> At(p, 0), htype |-> At(p, 1), hlen |-> At(p, 2), hops |-> At(p, 3), xid |-> Slice(p, 4, 4),
     secs |-> Be16(p, 8), flags |-> Be16(p, 10),
     ciaddr |-> Slice(p, 12, 4), yiaddr |-> Slice(p, 16, 4), siaddr |-> Slice(p, 20, 4), giaddr |-> Slice(p, 24, 4),
     chaddr_raw |-> Slice(p, 28, 16),
     chaddr_mac |-> IF At(p, 1) = 1 /\ At(p, 2) = 6 THEN Slice(p, 28, 6) ELSE <<>>,
     sname_text |-> FieldText(Slice(p, SnameOff, SnameLen)), file_text |-> FieldText(Slice(p, FileOff, FileLen)),
     magic_cookie_present |-> Fits(p, FixedLen, 4) /\ Slice(p, FixedLen, 4) = MagicCookie]

\* event_type_for_message_type() and build_interpretation(): 0 is the generic
\* event type.  A REQUEST with neither server nor requested address renews, or
\* rebinds when broadcast.
MessageType(decoded) ==
    IF decoded[53] # <<>> /\ decoded[53][1] \in 1..13 THEN decoded[53][1] ELSE 0

Interpretation(h, decoded) ==
    LET type == MessageType(decoded)
        clientId == IF decoded[61] = <<>> THEN <<>> ELSE decoded[61][1].raw
        broadcast == h.flags >= 32768
        renewing == type = 3 /\ decoded[54] = <<>> /\ decoded[50] = <<>>
    IN  [event_type |-> type,
         client_key |-> IF clientId # <<>> THEN clientId ELSE h.chaddr_mac,
         transaction_key |-> <<h.xid, IF h.chaddr_mac # <<>> THEN h.chaddr_mac ELSE clientId>>,
         lease_address |-> IF type \in {2, 5} THEN h.yiaddr ELSE <<>>,
         is_relayed |-> h.giaddr # <<0, 0, 0, 0>>, is_broadcast |-> broadcast,
         is_renewal |-> renewing /\ ~broadcast, is_rebind |-> renewing /\ broadcast]

\* cf_dhcpv4_parse(): <<>> for its NULL, else <<event>>.
Dhcpv4Parse(p) ==
    LET items == RawItems(p)
        decoded == BuildDecoded(items)
    IN  IF Len(p) < FixedLen THEN <<>>
        ELSE <<[header |-> BootpHeader(p), raw_options |-> RawOptions(items), decoded |-> decoded.options,
                interpretation |-> Interpretation(BootpHeader(p), decoded.options),
                warnings |-> WalkWarnings(items) \o decoded.warnings]>>
=============================================================================
