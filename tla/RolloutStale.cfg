\* A Deployment whose first rollout gets stuck, and a second deploy.
SPECIFICATION Spec
CONSTANTS
  Kinds = {"Deployment"}
  MaxReplicas = 1
  Surge = 1
  MaxGeneration = 3
INVARIANT
  FailureIsOwn
CHECK_DEADLOCK FALSE
