\* Polls for every strategy, and webhooks where the tag names the image.
SPECIFICATION FairSpec
CONSTANTS
  Strategies = {"latest", "semver", "exact"}
  HookStrategies = {"semver", "exact"}
  MaxVersion = 3
  Allowed <- SomeAllowed
  QueueCap = 2
  MaxFaults = 3
INVARIANTS
  TypeOK
  SeenIsRunning
  OnlyAdmitted
PROPERTIES
  CatchesUpUnlessHidden
  DeploysEnd
CHECK_DEADLOCK FALSE
