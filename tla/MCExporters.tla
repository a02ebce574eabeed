------------------------------ MODULE MCExporters ------------------------------
(***************************************************************************)
(* Instance of Exporters: two workers with two batches and a result, the   *)
(* records of one batch with the same SUPI twice ("unknown"), and polls    *)
(* that read fewer and more entries than a row has room for.               *)
(***************************************************************************)
EXTENDS Exporters, TLC

CONSTANTS w1, w2, monitor

TwoWorkers == {w1, w2}
Symmetry == Permutations(TwoWorkers)

Msg(id, f, ranks) == [id |-> id, file |-> f, ranks |-> ranks]

SomeMessages ==
  {Msg(1, "traffic", <<2, 1, 1>>), Msg(2, "traffic", <<3, 1>>), Msg(3, "inference", <<1>>),
   Msg(4, "topn", <<1, 3, 2, 3>>), Msg(5, "topn", <<2>>)}

=============================================================================
