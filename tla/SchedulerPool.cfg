SPECIFICATION Spec
CONSTANTS
  Functions = {f1}
  Versions = {v1}
  Invokers = {h1}
  Workers = {w1}
  Warmers = {u1}
  Admins = {a1}
  LeaseIds = {l1, l2}
  NoFunction = NoFunction
  NoConfig = NoConfig
  NoCode = NoCode
  NoLease = NoLease
  Docker = TRUE
  Faults = {"start","stop","store","net"}
  MaxPort = 2
  MaxEpoch = 1
SYMMETRY Symmetry
INVARIANTS TypeOK OneHolder IdleIsFree BusyIsAccounted 
PROPERTY ImplementsExclusiveUse
