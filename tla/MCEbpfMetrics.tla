--------------------------- MODULE MCEbpfMetrics ---------------------------
(***************************************************************************)
(* Instance of EbpfMetrics: two CPUs and three UEs, each may stand for     *)
(* another of its kind.                                                    *)
(***************************************************************************)
EXTENDS EbpfMetrics, TLC

CONSTANTS c1, c2, u1, u2, u3

BothCpus == {c1, c2}
ThreeUes == {u1, u2, u3}

Symmetry == Permutations(BothCpus) \cup Permutations(ThreeUes)

=============================================================================
