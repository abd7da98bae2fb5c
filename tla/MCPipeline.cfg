\* Two messages of one session: up to two replies of the first, handlers and
\* resets of both.
CONSTANTS
  e1 = e1
  e2 = e2
  group = group
  Event = {e1, e2}
  Umo = {group}
  RawUmo <- Group
  OwnUmo <- Group
  UniqueSession = FALSE
  MaxReplies = 2
SPECIFICATION Spec
CHECK_DEADLOCK FALSE
CONSTRAINT
  OneReplies
INVARIANTS
  RegistryExact
  RepliesDelivered
  ResentOnlyIfCaught
PROPERTIES
  StoppedIsNotProcessed
