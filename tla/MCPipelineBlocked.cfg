\* A message that the content check blocks.
CONSTANTS
  e1 = e1
  e2 = e2
  group = group
  Event = {e1}
  Umo = {group}
  RawUmo <- Group
  OwnUmo <- Group
  UniqueSession = FALSE
  MaxReplies = 1
SPECIFICATION Spec
CHECK_DEADLOCK FALSE
INVARIANTS
  BlockedIsNotProcessed
