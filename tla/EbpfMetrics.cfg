SPECIFICATION Spec
CONSTANTS
  c1 = c1
  c2 = c2
  u1 = u1
  u2 = u2
  u3 = u3
  Cpus <- BothCpus
  Ues <- ThreeUes
  MaxEntries = 2
  MaxPackets = 3
INVARIANTS Inductive NeverOvercounted LossIsBounded
SYMMETRY Symmetry
