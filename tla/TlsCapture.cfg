SPECIFICATION Spec
CONSTANTS
  c1 = c1
  c2 = c2
  f1 = f1
  f2 = f2
  f3 = f3
  u1 = u1
  u2 = u2
  Cpus <- TwoCpus
  Https <- HttpsFlows
  Tcp <- NoFlows
  Udp <- UdpFlows
  UeOf <- Owners
  MaxFlows = 1
  RingSize = 2
  MaxPackets = 4
INVARIANTS Inductive OncePerFlow NewestOfItsRing
CHECK_DEADLOCK FALSE
