\* One agent that gives up a poll and starts another one.
SPECIFICATION Spec
CONSTANTS
  Agents = {a1}
  Messages = {m1}
  Polls = {p1, p2}
  MaxQueue = 1
SYMMETRY RelaySymmetry
PROPERTY
  OpenPollGetsIt
CHECK_DEADLOCK FALSE
