SPECIFICATION FairSpec
CONSTANTS
  Instances = {i1, i2}
  TargetConcurrency = 1
  ScaleUpUtilPct = 80
  ScaleDownUtilPct = 20
  MinReplicas = 1
  MaxReplicas = 2
  MaxQueued = 2
  MaxFaults = 1
  None = None
INVARIANT StaysInBounds
  
