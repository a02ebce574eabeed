SPECIFICATION FairSpec
CONSTANTS
  Workers = {w1}
  Batches <- ThreeRecords
  MaxConcurrent = 2
  LLMScores = {2, 9}
  Cutoff = 7
  RiskScoring = TRUE
  MaxRecords = 3
  MaxBatches = 2
INVARIANTS Inductive OneResultPerRecord ExportedInOrder
PROPERTY BatchFinishes
CHECK_DEADLOCK FALSE
