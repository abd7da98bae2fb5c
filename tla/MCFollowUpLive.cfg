\* Liveness, runs that fail included: one sender, three messages.
CONSTANTS
  e1 = e1
  e2 = e2
  e3 = e3
  e4 = e4
  alice = alice
  bob = bob
  Event = {e1, e2, e3}
  Sender = {alice, bob}
  None = None
  SenderOf <- OneSender
  Failing = {e1, e2, e3}
SPECIFICATION FairSpec
INVARIANT OpenTicketHasRunner
PROPERTIES
  EveryMessageSettles
  ImplementsFollowUpQueue
CHECK_DEADLOCK FALSE
