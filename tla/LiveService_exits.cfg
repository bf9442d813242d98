SPECIFICATION Spec
CONSTANTS
  pub1 = pub1
  play1 = play1
  pub2 = pub2
  loop1 = loop1
  loop2 = loop2
  Conns <- Connections
  Loops <- TwoLoops
  Kinds <- KindsOfConn
  LoopOf <- LoopOfConn
  Timer = Timer
  None = None
  MaxUsers = 3
INVARIANT ChecksPass
CHECK_DEADLOCK FALSE
