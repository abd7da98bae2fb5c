\* Three starts of one server, one of them at boot; no tool is called.
CONSTANTS
  t1 = t1
  Client = {1, 2, 3}
  Conn = {1, 2}
  None = None
  Call = {}
SPECIFICATION Spec
INVARIANT OneServerRuns
CHECK_DEADLOCK FALSE
