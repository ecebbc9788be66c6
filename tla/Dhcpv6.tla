------------------------------- MODULE Dhcpv6 -------------------------------
(***************************************************************************)
(* cf_dhcpv6.c and cf_dhcpv6_decode.c: the client/server or relay header,  *)
(* the walk over the options and their decoded values.                     *)
(***************************************************************************)
EXTENDS Wire
LOCAL INSTANCE SequencesExt

MinHeaderLen == 4
RelayHeaderLen == 34
IsRelay(type) == type \in {12, 13}

\* build_header(); the addresses of a relay message when they are there.
V6Header(p) ==
    LET type == At(p, 0)
        address(off) == IF Fits(p, off, 16) THEN Slice(p, off, 16) ELSE <<>>
    IN  [message_type |-> IF type \in 1..17 THEN type ELSE 0,
         transaction_id |-> IF IsRelay(type) THEN <<0, 0, 0>> ELSE Slice(p, 1, 3),
         hop_count |-> IF IsRelay(type) THEN At(p, 1) ELSE 0,
         link_address |-> IF IsRelay(type) THEN address(2) ELSE <<>>,
         peer_address |-> IF IsRelay(type) THEN address(18) ELSE <<>>]

OptionsStart(p) == IF IsRelay(At(p, 0)) THEN RelayHeaderLen ELSE MinHeaderLen

\* An option area: code, length, value, back to back.  An option that does not
\* fit is clamped and the last; of one whose own header is cut, the bytes that
\* are left are the value, and its code if two of them are.
V6Item(code, ordinal, value, warning) ==
    [code |-> code, ordinal |-> ordinal, value |-> value, warning |-> warning]

RECURSIVE WalkV6(_, _, _)
WalkV6(bytes, pos, ordinal) ==
    LET left == Len(bytes) - pos
        declared == Be16(bytes, pos + 2)
        over == declared > left - 4
    IN  IF left <= 0 THEN <<>>
        ELSE IF left < 4
        THEN <<V6Item(IF left >= 2 THEN Be16(bytes, pos) ELSE 0, ordinal, Slice(bytes, pos, left), "opt_missing_header")>>
        ELSE IF over THEN <<V6Item(Be16(bytes, pos), ordinal, Slice(bytes, pos + 4, left - 4), "opt_len_overrun")>>
        ELSE <<V6Item(Be16(bytes, pos), ordinal, Slice(bytes, pos + 4, declared), "")>>
             \o WalkV6(bytes, pos + 4 + declared, ordinal + 1)

\* The same walk inside an option (an IA, option 17), from its options on: a
\* cut header ends it silently.
Suboptions(data, off) == SelectSeq(WalkV6(Slice(data, off, Len(data) - off), 0, 0),
                                   LAMBDA x : x.warning # "opt_missing_header")
Overruns(subs, field) ==
    IF subs # <<>> /\ Last(subs).warning # "" THEN <<Warning("opt_len_overrun", field)>> ELSE <<>>

\* IA_NA and IA_TA: the addresses of their IAADDR options, 16 bytes or more.
AddressesOfIa(data, headerLen) ==
    LET subs == Suboptions(data, headerLen)
        iaaddrs == SelectSeq(subs, LAMBDA x : x.code = 5)
        whole == SelectSeq(iaaddrs, LAMBDA x : Len(x.value) >= 16)
    IN  IF Len(data) < headerLen THEN [value |-> <<>>, warnings |-> <<Warning("ia_len_short", "assigned_addresses")>>]
        ELSE [value |-> [i \in DOMAIN whole |-> SubSeq(whole[i].value, 1, 16)],
              warnings |-> [i \in 1..Len(iaaddrs) - Len(whole) |-> Warning("iaaddr_len_short", "assigned_addresses")]
                           \o Overruns(subs, "assigned_addresses")]

\* Option 16: the first chunk after the enterprise number.
VendorClass(data) ==
    LET len == Be16(data, 4)
        avail == Len(data) - 6
        over == len > avail
        chunk == Slice(data, 6, IF over THEN avail ELSE len)
        short == [value |-> <<>>, warnings |-> <<Warning("opt_len_short", "vendor_class")>>]
    IN  IF Len(data) < 4 \/ Len(data) = 5 THEN short
        ELSE IF Len(data) = 4 THEN [value |-> <<>>, warnings |-> <<>>]
        ELSE [value |-> chunk, warnings |-> IF over THEN <<Warning("opt_len_overrun", "vendor_class")>> ELSE <<>>]

\* Option 17: enterprise number and suboptions.
VendorOptions(data) ==
    LET subs == Suboptions(data, 4)
    IN  IF Len(data) < 4 THEN [value |-> <<[raw |-> data, enterprise |-> <<0, 0, 0, 0>>, suboptions |-> <<>>]>>,
                               warnings |-> <<Warning("opt_len_short", "vendor_options")>>]
        ELSE [value |-> <<[raw |-> data, enterprise |-> Slice(data, 0, 4),
                           suboptions |-> [i \in DOMAIN subs |-> <<subs[i].code, subs[i].value>>]]>>,
              warnings |-> Overruns(subs, "vendor_options")]

Oro(data) ==
    [value |-> [i \in 1..Len(data) \div 2 |-> Be16(data, 2 * (i - 1))],
     warnings |-> IF Len(data) % 2 = 0 THEN <<>> ELSE <<Warning("opt_len_invalid", "option_request")>>]

\* cf_dhcpv6__build_decoded(): one option after the other; single values are
\* taken from the first option of their code, lists from all of them.
NothingDecoded == [client_duid |-> <<>>, server_duid |-> <<>>, addresses |-> <<>>, oro |-> <<>>,
                   vendor_class |-> <<>>, vendor_options |-> <<>>, seen |-> {}, warnings |-> <<>>]

\* Mutant of DecodeItem: the last client and server DUIDs win.
DecodeItemLast(d, item) ==
    IF item.code = 1 THEN [d EXCEPT !.client_duid = item.value]
    ELSE IF item.code = 2 THEN [d EXCEPT !.server_duid = item.value]
    ELSE d

DecodeItem(d, item) ==
    LET first == item.code \notin d.seen
        ia == AddressesOfIa(item.value, IF item.code = 3 THEN 12 ELSE 4)
        oro == Oro(item.value)
        class == VendorClass(item.value)
        opts == VendorOptions(item.value)
    IN  CASE item.code = 1 /\ first -> [d EXCEPT !.client_duid = item.value, !.seen = @ \cup {1}]
          [] item.code = 2 /\ first -> [d EXCEPT !.server_duid = item.value, !.seen = @ \cup {2}]
          [] item.code \in {3, 4} -> [d EXCEPT !.addresses = @ \o ia.value, !.warnings = @ \o ia.warnings]
          [] item.code = 6 -> [d EXCEPT !.oro = @ \o oro.value, !.warnings = @ \o oro.warnings]
          [] item.code = 16 /\ first -> [d EXCEPT !.vendor_class = class.value, !.warnings = @ \o class.warnings,
                                                  !.seen = @ \cup {16}]
          [] item.code = 17 /\ first -> [d EXCEPT !.vendor_options = opts.value, !.warnings = @ \o opts.warnings,
                                                  !.seen = @ \cup {17}]
          [] OTHER -> d

V6Event(type) == IF type \in 1..13 THEN type ELSE 0

\* cf_dhcpv6_parse(): <<>> for its NULL, else <<event>>.
Dhcpv6Parse(p) ==
    LET start == OptionsStart(p)
        items == IF Len(p) > start THEN WalkV6(Slice(p, start, Len(p) - start), 0, 0) ELSE <<>>
        decoded == FoldLeft(DecodeItem, NothingDecoded, items)
        bad == SelectSeq(items, LAMBDA x : x.warning # "")
    IN  IF Len(p) < MinHeaderLen THEN <<>>
        ELSE <<[header |-> V6Header(p), event_type |-> V6Event(At(p, 0)),
                raw_options |-> items, decoded |-> [decoded EXCEPT !.warnings = <<>>],
                warnings |-> [i \in DOMAIN bad |-> Warning(bad[i].warning, "raw_options")] \o decoded.warnings]>>
=============================================================================
