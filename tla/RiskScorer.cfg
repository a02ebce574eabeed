SPECIFICATION Spec
CONSTANTS
  Workers = {w1, w2}
  UEs = {u1}
  Batches <- OneUE
  MaxScore = 10
  HitsToBan = 2
  SecondsToForgive = 5
  Configurations <- TwoFiles
  DefaultBlock = 8
  DefaultUnblock = 5
  AdminResets = TRUE
  MaxTime = 3
  MaxBatches = 4
SYMMETRY WorkersAreAlike
INVARIANTS Inductive RiskIsEarned EveryAttackCounts
PROPERTIES NoFlapping
CHECK_DEADLOCK FALSE
