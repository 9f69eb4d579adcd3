SPECIFICATION FairSpec
CONSTANTS
  d1 = d1
  d2 = d2
  Keys = {1, 2, 3}
  Unknown = {3}
  Definitions <- MCDefinitions
  Offers <- MCOffers
  Local <- MCLocal
  Tasks = {1, 2, 3, 4, 5, 6}
  MaxChanges = 1
  MaxFaults = 1
  None = None
INVARIANTS TypeOK EntryIsLive OneConsumer
PROPERTIES  RemovedStops
