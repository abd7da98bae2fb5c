--------------------------- MODULE FollowUpQueue ---------------------------
(***************************************************************************)
(* What follow_up.py promises for one session: captured messages queue up  *)
(* in order of arrival; the running agent may absorb any of them; the      *)
(* others are served one at a time, each when nobody is ahead of it.       *)
(* FollowUp implements this module.                                        *)
(***************************************************************************)
CONSTANT Event

VARIABLES seen,      \* the messages captured so far
          waiting,   \* those not absorbed and not served yet
          ahead,     \* [Event -> SUBSET Event]: who was captured before a
                     \* waiting message and waits still
          serving    \* the one that resumed and has not finished, if any

qvars == <<seen, waiting, ahead, serving>>

QInit == /\ seen = {} /\ waiting = {} /\ serving = {}
         /\ ahead = [e \in Event |-> {}]

QCapture(e) == /\ e \notin seen
               /\ seen' = seen \cup {e}
               /\ waiting' = waiting \cup {e}
               /\ ahead' = [ahead EXCEPT ![e] = waiting]
               /\ UNCHANGED serving

\* e waits no more: nobody waits behind it.
QLeaveQueue(e) == /\ e \in waiting
                  /\ waiting' = waiting \ {e}
                  /\ ahead' = [f \in Event |-> IF f = e THEN {} ELSE ahead[f] \ {e}]
                  /\ UNCHANGED seen

QAbsorb(e) == QLeaveQueue(e) /\ UNCHANGED serving

QServe(e) == /\ serving = {} /\ ahead[e] = {}
             /\ QLeaveQueue(e)
             /\ serving' = {e}

QFinish == /\ serving # {}
           /\ serving' = {}
           /\ UNCHANGED <<seen, waiting, ahead>>

QNext == QFinish \/ \E e \in Event : QCapture(e) \/ QAbsorb(e) \/ QServe(e)

QSpec == QInit /\ [][QNext]_qvars
=============================================================================
