SPECIFICATION FairSpec
CONSTANTS
  Functions = {f1}
  Versions = {v1}
  Invokers = {h1}
  Workers = {w1}
  Warmers = {}
  Admins = {a1}
  LeaseIds = {l1}
  NoFunction = NoFunction
  NoConfig = NoConfig
  NoCode = NoCode
  NoLease = NoLease
  Docker = TRUE
  Faults = {"code", "net"}
  MaxPort = 2
  MaxEpoch = 1
PROPERTIES LeasesEnd  RetiredStops
