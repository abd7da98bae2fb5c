--------------------------- MODULE MCSessionLock ---------------------------
(* An instance of SessionLock for TLC. *)
EXTENDS SessionLock

CONSTANTS t1, t2, t3, t4, s1, s2, loopA, loopB, k1, k2, k3

\* Three tasks on the main loop, one on a second loop.
MCLoopOf == [t \in Task |-> IF t = t4 THEN loopB ELSE loopA]
=============================================================================
