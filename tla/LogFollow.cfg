SPECIFICATION Spec
CONSTANTS
  Pods = {p1}
  Nodes = {n1}
  Modes = {"collector"}
  RingSize = 2
  TailSize = 1
  ChanSize = 1
  MaxLines = 2
  MaxTime = 2
  MaxFaults = 0
INVARIANT FollowedWhileRunning
CHECK_DEADLOCK FALSE
