\* Three waiters, three messages, two sessions, two filters.
CONSTANTS
  w1 = w1  w2 = w2  w3 = w3
  m1 = m1  m2 = m2  m3 = m3
  s1 = s1  s2 = s2  f1 = f1  f2 = f2
  Waiter = {w1, w2, w3}
  Msg = {m1, m2, m3}
  Session = {s1, s2}
  Filter = {f1, f2}
  None = None
  FilterOf <- MCFilterOf
  SessionOf <- MCSessionOf
  Key <- MCKey
SPECIFICATION Spec
INVARIANTS TypeOK LiveWaiterIsFound
PROPERTIES TriggersAreSerial EverythingEnds
CHECK_DEADLOCK FALSE
