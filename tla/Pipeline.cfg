SPECIFICATION FairSpec
CONSTANTS
  x1 = x1
  x2 = x2
  d1 = d1
  Ips = {1, 2}
  Tables <- TwoTables
  Unknown = 9
  FeatureCap = 1
  ExportCap = 2
  InferCap = 1
  Exporters = {x1, x2}
  Inferers = {d1}
  DetectorEnabled = TRUE
  MaxPolls = 2
  MaxRefreshes = 1
INVARIANTS Inductive EveryRecordAccounted OvertakenByFew PollReflectsTable
PROPERTIES ConsumersNeverBlock QueuesKeepPromise
CHECK_DEADLOCK FALSE
