SPECIFICATION FairSpec
CONSTANTS
  Invocations = {c1, c2}
  Pollers = {p1, p2}
  MaxQueue = 1
  None = None
INVARIANTS TypeOK DispatchedOnce NothingLeftBehind NoLostWakeup OneAnswer
PROPERTY CallEnds
