\* A rolling tag with webhooks and polls.
SPECIFICATION FairSpec
CONSTANTS
  Strategies = {"latest"}
  HookStrategies = {"latest"}
  MaxVersion = 2
  Allowed <- AllAllowed
  QueueCap = 2
  MaxFaults = 0
PROPERTY
  CatchesUp
CHECK_DEADLOCK FALSE
