SPECIFICATION WindowSpec
CONSTANTS
  u1 = u1
  u2 = u2
  u3 = u3
  p1 = p1
  p2 = p2
  KnownUes <- ThreeUes
  Subnet <- TwoCounted
  Peers <- TwoPeers
  BitOf <- SameBit
  Kinds <- SomeKinds
  LengthOf <- SomeLengths
  Extensions = {6, 7}
  MaxArrivals = 4
  Log10 <- Logarithms
INVARIANTS CountersMatchTraffic AskedIfItSent AveragesOfActive
SYMMETRY Symmetry
