\* One app that may be deleted, three events, an Activity page of one event per
\* request, a channel for one.
SPECIFICATION Spec
CONSTANTS
  Apps = {a}
  NoApp = NoApp
  Keep = 1
  BufCap = 1
  Page = 1
  MaxId = 3
  MaxFaults = 1
SYMMETRY AppSymmetry
INVARIANTS
  TypeOK
  PagesAreComplete
  ShownOnce
  FeedIsCurrent
PROPERTIES
  NoIdReused
CHECK_DEADLOCK FALSE
