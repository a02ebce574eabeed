----------------------------- MODULE MCPipeline -----------------------------
(* Two addresses, two SUPIs, and a table that may be empty, grow, or give  *)
(* an address to the other UE.                                             *)
EXTENDS Pipeline

CONSTANTS x1, x2, d1  \* export workers and an inference worker

TwoTables == {(1 :> 1 @@ 2 :> 2), (1 :> 2)}
=============================================================================
