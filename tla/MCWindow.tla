------------------------------- MODULE MCWindow -------------------------------
(***************************************************************************)
(* Instance of Window: two UEs that are counted and one that is not, two   *)
(* peers hashed to the same bit, GTP-U with six and seven extension        *)
(* headers, every protocol, and segments with both SYN and RST.            *)
(***************************************************************************)
EXTENDS Window, TLC

CONSTANTS u1, u2, u3, p1, p2

ThreeUes == {u1, u2, u3}
TwoCounted == {u1, u2}
TwoPeers == {p1, p2}
SameBit == [p \in TwoPeers |-> 7]
SomeFlags == {{"SYN"}, {"RST"}, {"ACK"}, {"SYN", "RST"}}
SomeKinds == {k \in AllKinds : k.proto = "tcp" => k.flags \in SomeFlags}
SomeLengths == [k \in SomeKinds |-> IF k.flags = {"ACK"} THEN 1400 ELSE 60]
Logarithms == <<0, 30, 48, 60, 70, 78, 85, 90, 95, 100>>
Symmetry == Permutations(TwoCounted) \cup Permutations(TwoPeers)

=============================================================================
