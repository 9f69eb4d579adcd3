SPECIFICATION Spec
CONSTANTS
  d1 = d1
  d2 = d2
  Keys = {1, 2, 3}
  Unknown = {3}
  Definitions <- MCDefinitions
  Offers <- MCOffers
  Local <- MCLocal
  Tasks = {1, 2, 3, 4, 5}
  MaxChanges = 3
  MaxFaults = 0
  None = None
INVARIANT RemovedIsCancelled
