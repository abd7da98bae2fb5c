\* Three tasks on the main loop, one on a second loop, two sessions: at most
\* three entries are in use at once.
CONSTANTS
  t1 = t1
  t2 = t2
  t3 = t3
  t4 = t4
  s1 = s1
  s2 = s2
  loopA = loopA
  loopB = loopB
  k1 = k1
  k2 = k2
  k3 = k3

  Task = {t1, t2, t3, t4}
  Session = {s1, s2}
  Loop = {loopA, loopB}
  LoopOf <- MCLoopOf
  LockId = {k1, k2, k3}
  NoLock = NoLock
SPECIFICATION FairSpec
INVARIANTS
  TypeOK
  MutualExclusion
  NoLeak
PROPERTIES
  ImplementsKeyedMutex
  EveryWaiterServed
