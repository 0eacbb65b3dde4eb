\* The id of a deleted app is given to a new one.
SPECIFICATION Spec
CONSTANTS
  MaxId = 1
  TargetCount <- OneTarget
  Versions = {v1, v2}
  NoVersion = NoVersion
  Callers = {c1, c2}
  QueueCap = 1
  PurgeEnabled = FALSE
  MaxGen = 2
  MaxRequests = 2
  MaxStops = 0
SYMMETRY CallerVersionSymmetry
INVARIANT
  OneDeployInHistory
CHECK_DEADLOCK FALSE
