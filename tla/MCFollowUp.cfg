\* Safety, runs that fail included: three messages of one sender, one of another.
CONSTANTS
  e1 = e1
  e2 = e2
  e3 = e3
  e4 = e4
  alice = alice
  bob = bob
  Event = {e1, e2, e3, e4}
  Sender = {alice, bob}
  SenderOf <- TwoSenders
  Failing = {e1, e2, e3, e4}
  None = None
SPECIFICATION Spec
CHECK_DEADLOCK FALSE
SYMMETRY AliceSymmetry
INVARIANTS
  ResumeInOrder
  TurnIsHeld
