\* Two webhooks to one agent, whose polls overlap; its queue holds one.
SPECIFICATION Spec
CONSTANTS
  Agents = {a1}
  Messages = {m1, m2}
  Polls = {p1, p2}
  MaxQueue = 1
SYMMETRY RelaySymmetry
INVARIANTS
  TypeOK
  NoLostWakeup
  AtMostOnce
  ForgottenGetsNothing
  RefusalIsFinal
PROPERTIES
  ImplementsDelivery
CHECK_DEADLOCK FALSE
