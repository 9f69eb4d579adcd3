SPECIFICATION Spec
CONSTANTS
  Functions = {f1}
  Versions = {v1}
  Invokers = {h1}
  Workers = {w1}
  Warmers = {u1}
  Admins = {a1}
  LeaseIds = {l1, l2}
  NoFunction = NoFunction
  NoConfig = NoConfig
  NoCode = NoCode
  NoLease = NoLease
  Docker = FALSE
  Faults = {}
  MaxPort = 2
  MaxEpoch = 2
SYMMETRY Symmetry
INVARIANTS OneHolder RegistryDurable
