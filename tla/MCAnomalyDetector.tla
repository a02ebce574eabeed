------------------------- MODULE MCAnomalyDetector -------------------------
(* Batches of up to three records, two of them of one SUPI (two sessions   *)
(* of a UE), against a semaphore of two slots.                             *)
EXTENDS AnomalyDetector

Active(supi) == [supi |-> supi, ul |-> TRUE]
Silent(supi) == [supi |-> supi, ul |-> FALSE]

ThreeRecords ==
  {<<>>, <<Active(3), Active(1), Active(2)>>, <<Active(2), Silent(1), Active(2)>>}
=============================================================================
