--------------------------- MODULE CaptureFilter ----------------------------
(***************************************************************************)
(* The kernel packet filters of the two sources: the assembler with labels *)
(* of cf_bpf.c, the programs dns_bpf.c and dhcp_bpf.c write with it, and   *)
(* (external) how the kernel runs a classic BPF program.                   *)
(*                                                                         *)
(* A leaf's calls of the assembler are a sequence: <<"label", l>>,         *)
(* <<"stmt", code, k>> or <<"jump", code, k, jt, jf>>; a label is a number *)
(* and Next means the following instruction.                               *)
(***************************************************************************)
EXTENDS Wire
LOCAL INSTANCE SequencesExt

MaxInsns == 96
MaxFixups == 96
MaxLabels == 32
Fallthrough == -1

EmptyProgram == [insns |-> <<>>, labels |-> [l \in 0..MaxLabels - 1 |-> -1],
                 fixups |-> <<>>, error |-> FALSE]

\* One call: bpf_asm_label(), bpf_asm_stmt() or bpf_asm_jump().  A jump's
\* fixups, <<instruction, field, label>>, are resolved at the end.
Emit(a, call) ==
    LET full == Len(a.insns) >= MaxInsns
        insn == [code |-> call[2], k |-> call[3], jt |-> 0, jf |-> 0]
        wanted == SelectSeq(<< <<Len(a.insns), "jt", call[4]>>, <<Len(a.insns), "jf", call[5]>> >>,
                            LAMBDA x : x[3] # Fallthrough)
    IN  CASE call[1] = "label" ->
               IF call[2] \in DOMAIN a.labels THEN [a EXCEPT !.labels[call[2]] = Len(a.insns)]
               ELSE [a EXCEPT !.error = TRUE]
          [] call[1] # "label" /\ full -> [a EXCEPT !.error = TRUE]
          [] call[1] = "stmt" /\ ~full -> [a EXCEPT !.insns = Append(@, insn)]
          [] call[1] = "jump" /\ ~full ->
               [a EXCEPT !.insns = Append(@, insn), !.fixups = @ \o wanted,
                         !.error = @ \/ Len(a.fixups) + Len(wanted) > MaxFixups]

\* bpf_asm_finish(): <<>> stands for its -1, else the program.
Delta(a, fixup) == a.labels[fixup[3]] - (fixup[1] + 1)

Finish(a) ==
    LET bad == \E x \in Range(a.fixups) :
                   \/ x[3] \notin DOMAIN a.labels
                   \/ a.labels[x[3]] < 0
                   \/ Delta(a, x) \notin 0..255
        Fix(insns, x) == IF x[2] = "jt" THEN [insns EXCEPT ![x[1] + 1].jt = Delta(a, x)]
                         ELSE [insns EXCEPT ![x[1] + 1].jf = Delta(a, x)]
    IN  IF a.error \/ bad THEN <<>> ELSE FoldLeft(Fix, a.insns, a.fixups)

Assemble(calls) == Finish(FoldLeft(Emit, EmptyProgram, calls))

\* Source, then destination port against two ports; a load is relative to X.
TwoPorts(k, port1, port2, accept, otherwise) ==
    << <<"stmt", "ldh_ind", k>>,
       <<"jump", "jeq", port1, accept, Fallthrough>>,
       <<"jump", "jeq", port2, accept, otherwise>> >>

\* Mutant of Ipv4Branch: the ports of any fragment are looked at.
Ipv4BranchAnyFragment(proto, base, port1, port2, accept, otherwise) ==
    << <<"stmt", "ldb_abs", base + 9>>,
       <<"jump", "jeq", proto, Fallthrough, otherwise>>,
       <<"stmt", "ldx_msh", base>> >>
    \o TwoPorts(base, port1, port2, accept, Fallthrough)
    \o TwoPorts(base + 2, port1, port2, accept, otherwise)

\* The transport branches of an IP header at base: protocol, first fragment,
\* header length, ports.
Ipv4Branch(proto, base, port1, port2, accept, otherwise) ==
    << <<"stmt", "ldb_abs", base + 9>>,
       <<"jump", "jeq", proto, Fallthrough, otherwise>>,
       <<"stmt", "ldh_abs", base + 6>>,
       <<"jump", "jset", 8191, otherwise, Fallthrough>>,
       <<"stmt", "ldx_msh", base>> >>
    \o TwoPorts(base, port1, port2, accept, Fallthrough)
    \o TwoPorts(base + 2, port1, port2, accept, otherwise)

Ipv6Branch(proto, base, port1, port2, accept, otherwise) ==
    << <<"stmt", "ldb_abs", base + 6>>,
       <<"jump", "jeq", proto, Fallthrough, otherwise>>,
       <<"stmt", "ldx_imm", base + 40>> >>
    \o TwoPorts(0, port1, port2, accept, Fallthrough)
    \o TwoPorts(2, port1, port2, accept, otherwise)

\* The dispatch both filters start with: EtherType, one 802.1Q tag taken off.
Dispatch(vlan, ip4, ip6, ip4Tagged, ip6Tagged, drop) ==
    << <<"stmt", "ldh_abs", 12>>,
       <<"jump", "jeq", 33024, vlan, Fallthrough>>,
       <<"jump", "jeq", 2048, ip4, Fallthrough>>,
       <<"jump", "jeq", 34525, ip6, drop>>,
       <<"label", vlan>>,
       <<"stmt", "ldh_abs", 16>>,
       <<"jump", "jeq", 2048, ip4Tagged, Fallthrough>>,
       <<"jump", "jeq", 34525, ip6Tagged, drop>> >>

Verdicts(accept, drop) ==
    << <<"label", accept>>, <<"stmt", "ret", -1>>, <<"label", drop>>, <<"stmt", "ret", 0>> >>

\* udp/53, else tcp/53, else drop, for each IP version, untagged and tagged.
\* Labels: 0 the tag, 1..8 the branches, 9 accept, 10 drop.
DnsFilter ==
    LET Chain4(l, base) == << <<"label", l>> >> \o Ipv4Branch(17, base, 53, 53, 9, l + 1)
                           \o << <<"label", l + 1>> >> \o Ipv4Branch(6, base, 53, 53, 9, 10)
        Chain6(l, base) == << <<"label", l>> >> \o Ipv6Branch(17, base, 53, 53, 9, l + 1)
                           \o << <<"label", l + 1>> >> \o Ipv6Branch(6, base, 53, 53, 9, 10)
    IN  Assemble(Dispatch(0, 1, 3, 5, 7, 10) \o Chain4(1, 14) \o Chain6(3, 14)
                 \o Chain4(5, 18) \o Chain6(7, 18) \o Verdicts(9, 10))

\* Labels: 0 the tag, 1..4 the branches, 5 accept, 6 drop.
DhcpFilter ==
    Assemble(Dispatch(0, 1, 2, 3, 4, 6)
             \o << <<"label", 1>> >> \o Ipv4Branch(17, 14, 67, 68, 5, 6)
             \o << <<"label", 2>> >> \o Ipv6Branch(17, 14, 546, 547, 5, 6)
             \o << <<"label", 3>> >> \o Ipv4Branch(17, 18, 67, 68, 5, 6)
             \o << <<"label", 4>> >> \o Ipv6Branch(17, 18, 546, 547, 5, 6)
             \o Verdicts(5, 6))

\* The kernel's interpreter (external) from instruction pc on: whether the
\* frame is accepted.  A load outside the frame ends the program with 0.  The
\* only jset mask in use is 2^13 - 1.
RECURSIVE Accepts(_, _, _, _, _)
Accepts(program, f, pc, A, X) ==
    LET insn == program[pc + 1]
        Load(off, n) == IF ~Fits(f, off, n) THEN FALSE
                        ELSE Accepts(program, f, pc + 1, IF n = 1 THEN At(f, off) ELSE Be16(f, off), X)
        Jump(test) == Accepts(program, f, pc + 1 + (IF test THEN insn.jt ELSE insn.jf), A, X)
    IN  CASE insn.code = "ldb_abs" -> Load(insn.k, 1)
          [] insn.code = "ldh_abs" -> Load(insn.k, 2)
          [] insn.code = "ldh_ind" -> Load(X + insn.k, 2)
          [] insn.code = "ldx_imm" -> Accepts(program, f, pc + 1, A, insn.k)
          [] insn.code = "ldx_msh" ->
               Fits(f, insn.k, 1) /\ Accepts(program, f, pc + 1, A, 4 * (At(f, insn.k) % 16))
          [] insn.code = "jeq" -> Jump(A = insn.k)
          [] insn.code = "jset" -> Jump(A % (insn.k + 1) # 0)
          [] insn.code = "ret" -> insn.k # 0

\* A filter that could not be assembled is not attached; the build fails.
Filter(program, f) == program # <<>> /\ Accepts(program, f, 0, 0, 0)
=============================================================================
