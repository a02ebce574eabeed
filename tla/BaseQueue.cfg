SPECIFICATION FairSpec
CONSTANTS
  Workers = {w1, w2}
  Msgs = {m1, m2, m3}
  BufferSize = 2
  NoMsg = NoMsg
INVARIANTS Inductive Conservation DrainedIfAWorkerDrained
PROPERTIES QuietAfterStop KeepsPromise Progress
CHECK_DEADLOCK FALSE
