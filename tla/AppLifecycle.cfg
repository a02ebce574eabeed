SPECIFICATION FairSpec
CONSTANTS
  Kind <- OneOfEach
  StopTimeout = 1
  ServerTimeout = 1
  ShutdownTimeout = 2
  WaitTimeout = 3
INVARIANTS Inductive ProducersFirst ExitAfterTerminate
PROPERTY ProgramEnds
