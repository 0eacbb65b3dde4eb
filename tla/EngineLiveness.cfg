\* One app, one workload, one caller and the workers, one crash or shutdown.
SPECIFICATION FairSpec
CONSTANTS
  MaxId = 1
  TargetCount <- OneTarget
  Versions = {v1}
  NoVersion = NoVersion
  Callers = {c1}
  QueueCap = 1
  PurgeEnabled = FALSE
  MaxGen = 1
  MaxRequests = 2
  MaxStops = 1
PROPERTIES
  EventSettles
  JobsAreTaken
  CallReturns
  ShutdownEnds
CHECK_DEADLOCK FALSE
