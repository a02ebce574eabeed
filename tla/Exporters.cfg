SPECIFICATION Spec
CONSTANTS
  w1 = w1
  w2 = w2
  monitor = monitor
  Workers <- TwoWorkers
  Monitor = monitor
  Messages <- SomeMessages
INVARIANTS Inductive SortedAndWhole ReportedIsWritten
SYMMETRY Symmetry
