SPECIFICATION Spec
CONSTANTS
  Functions = {f1}
  Versions = {v1}
  Invokers = {h1}
  Workers = {}
  Warmers = {}
  Admins = {a1}
  LeaseIds = {l1}
  NoFunction = NoFunction
  NoConfig = NoConfig
  NoCode = NoCode
  NoLease = NoLease
  Docker = TRUE
  Faults = {}
  MaxPort = 2
  MaxEpoch = 1
INVARIANT RunsCurrentCode
