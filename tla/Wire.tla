-------------------------------- MODULE Wire --------------------------------
(***************************************************************************)
(* Bytes on the wire, as libs/cloudflow-packet reads them                  *)
(* (cf_parse_util.c, cf_ipfmt.c, and the same helpers in cf_decap.c,       *)
(* cf_dhcpv4_util.c, cf_dhcpv6_util.c).  A buffer is a sequence of bytes;  *)
(* offsets count from 0, as in the code.  A 32-bit field stays the         *)
(* sequence of its four bytes, since the code only passes it on, and a     *)
(* C string is the sequence of its characters before the NUL.              *)
(***************************************************************************)
EXTENDS Integers, Sequences
LOCAL INSTANCE SequencesExt

\* The bounds check in front of every read, and the reads.
Fits(d, off, n) == off + n <= Len(d)
At(d, off) == d[off + 1]
Be16(d, off) == d[off + 1] * 256 + d[off + 2]
Slice(d, off, n) == SubSeq(d, off + 1, off + n)

\* Bytes left from off on, 0 when off is past the end.
Remain(d, off) == IF off > Len(d) THEN 0 ELSE Len(d) - off

\* A byte with the top two bits clear, or set.
TopBits(b) == b \div 64

IsPrintable(b) == Len(b) > 0 /\ \A i \in 1..Len(b) : b[i] \in 32..126

\* A C string ends at its first NUL, whatever was copied after it.
CString(b) ==
    LET nul == {i \in 1..Len(b) : b[i] = 0}
    IN  IF nul = {} THEN b ELSE SubSeq(b, 1, (CHOOSE i \in nul : \A j \in nul : i <= j) - 1)

Lower(b) == [i \in 1..Len(b) |-> IF b[i] \in 65..90 THEN b[i] + 32 ELSE b[i]]

\* A parser warning: its code and field; up to 16 bytes of context are left out.
Warning(code, field) == <<code, field>>

\* Word(n) is a 16-bit number in network order, Rep(b, n) n bytes b: for the
\* inputs the runs build.
Word(n) == <<n \div 256, n % 256>>
Rep(b, n) == [i \in 1..n |-> b]
Join(seqs) == FoldLeft(LAMBDA a, b : a \o b, <<>>, seqs)
=============================================================================
