SPECIFICATION FairSpec
CONSTANTS
  Pods = {p1, p2}
  Nodes = {n1, n2}
  Modes = {"docker", "collector"}
  RingSize = 2
  TailSize = 1
  ChanSize = 1
  MaxLines = 2
  MaxTime = 2
  MaxFaults = 1
INVARIANTS TypeOK StreamMissesNothing
 
CHECK_DEADLOCK FALSE
