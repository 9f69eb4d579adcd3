SPECIFICATION FairSpec
CONSTANTS
  Requests = {r1, r2, r3, r4}
  MaxInflight = 1
  MaxQueue = 2
INVARIANTS TypeOK SlotsExact QueueExact NoIdleSlot StatusMissesNobody
PROPERTY WaitEnds
