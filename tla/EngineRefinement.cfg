\* Two apps, one of them without workloads: the history as a DeployLog.
SPECIFICATION Spec
CONSTANTS
  MaxId = 2
  TargetCount <- SomeTargets
  Versions = {v1}
  NoVersion = NoVersion
  Callers = {c1, c2}
  QueueCap = 1
  PurgeEnabled = TRUE
  MaxGen = 1
  MaxRequests = 2
  MaxStops = 1
SYMMETRY CallerSymmetry
PROPERTIES
  ImplementsLog
CHECK_DEADLOCK FALSE
