\* Two clients, three connections, one tool call, one shutdown.
CONSTANTS
  t1 = t1
  Client = {1, 2}
  Conn = {1, 2, 3}
  Call = {t1}
  None = None
SPECIFICATION Spec
INVARIANTS TypeOK RegistryIsTrue NoStrayConnection
PROPERTY EveryRequestEnds
CHECK_DEADLOCK FALSE
