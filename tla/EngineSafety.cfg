\* One app with two workloads, concurrent requests, two crashes or shutdowns.
SPECIFICATION Spec
CONSTANTS
  MaxId = 1
  TargetCount <- TwoTargets
  Versions = {v1, v2}
  NoVersion = NoVersion
  Callers = {c1, c2}
  QueueCap = 1
  PurgeEnabled = TRUE
  MaxGen = 1
  MaxRequests = 2
  MaxStops = 2
SYMMETRY CallerVersionSymmetry
INVARIANTS
  TypeOK
  OneDeployPerApp
  OpenEventOwned
PROPERTIES
  VerdictIsFinal
  SuccessIsLiveToTheSecond
  ShutdownDrains
CHECK_DEADLOCK FALSE
