SPECIFICATION Spec
CONSTANTS
  Workers = {w1, w2}
  Msgs = {m1, m2, m3}
  BufferSize = 2
  NoMsg = NoMsg
INVARIANT StopProcessedBacklog
CHECK_DEADLOCK FALSE
