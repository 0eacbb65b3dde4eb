\* Deployments and StatefulSets of up to two pods, with two patches or scalings.
SPECIFICATION FairSpec
CONSTANTS
  Kinds = {"Deployment", "StatefulSet"}
  MaxReplicas = 2
  Surge = 1
  MaxGeneration = 3
INVARIANTS
  TypeOK
  RolledOut
PROPERTIES
  RolloutIsSeen
CHECK_DEADLOCK FALSE
