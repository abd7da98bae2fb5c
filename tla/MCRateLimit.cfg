\* Both strategies: five messages, two per window; the clock outlasts every stall.
CONSTANTS
  N = 5
  Count = 2
  Window = 3
  Slack = 1
  Late = 2
  ArriveBy = 7
  MaxTime = 30
SPECIFICATION Spec
CHECK_DEADLOCK FALSE
INVARIANTS
  WindowBound
  InOrder
PROPERTIES
  EveryMessagePasses
