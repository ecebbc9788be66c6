----------------------------- MODULE ConfigNode -----------------------------
(***************************************************************************)
(* The YAML document both kinds of configuration loader walk, as libyaml   *)
(* gives it to them, and the integer types they read into.                 *)
(*                                                                         *)
(* A node is [type |-> "none"] (no node), a mapping with its pairs         *)
(* <<key, node>> in order, a sequence with its items, or a scalar:         *)
(*   text    what it says                                                  *)
(*   number  <<n>> if the whole text is a decimal number, <<>> if not      *)
(*   signed  whether the number is written with a sign                     *)
(*   lead    the number strtol() reads at its start, 0 if there is none    *)
(***************************************************************************)
EXTENDS Integers, Sequences

CONSTANT W   \* bits of a uint32_t and of an int
ASSUME WidthAssumption == W \in Nat /\ W > 1

NoNode == [type |-> "none"]
IsScalar(node) == node.type = "scalar"
IsMap(node) == node.type = "map"

UInt32Max == 2^W - 1
IntMax == 2^(W - 1) - 1
\* The conversion of a long to an int.
ToInt(n) == ((n + 2^(W - 1)) % 2^W) - 2^(W - 1)

\* f, and g where f has no value: f @@ g of the TLC module, spelled out for the proofs.
Joined(f, g) == [x \in DOMAIN f \cup DOMAIN g |-> IF x \in DOMAIN f THEN f[x] ELSE g[x]]

\* A document as libyaml gives it, down to the values of its sections: the pairs
\* of a mapping are a list, a number is an integer, a negative one has a sign.
IsList(s) == Len(s) \in Nat /\ DOMAIN s = 1..Len(s)
IsNumeral(node) ==
    (IsScalar(node) /\ node.number # <<>>) => node.number[1] \in Int /\ (node.signed \/ node.number[1] >= 0)
IsSection(node) ==
    IsMap(node) => IsList(node.pairs) /\ \A j \in DOMAIN node.pairs : IsNumeral(node.pairs[j][2])
IsDocument(root) ==
    IsMap(root) => IsList(root.pairs) /\ \A i \in DOMAIN root.pairs : IsSection(root.pairs[i][2])

\* The texts of the items of a sequence that are scalars.
ScalarItems(node) ==
    LET scalars == SelectSeq(node.items, IsScalar)
    IN  [i \in DOMAIN scalars |-> scalars[i].text]
=============================================================================
