----------------------------- MODULE KeyedMutex -----------------------------
(***************************************************************************)
(* What astrbot/core/utils/session_lock.py promises its callers: a mutual  *)
(* exclusion lock per key, granted in the order of the requests, whose     *)
(* waiters may give up.  No lock objects, no deques, no counters, no       *)
(* wake-ups: those are SessionLock's, which implements this module.        *)
(***************************************************************************)
CONSTANTS Task, Key

VARIABLES inside,    \* [Key -> SUBSET Task]: the task inside the lock, if any
          waiting,   \* [Key -> SUBSET Task]: the tasks waiting for it
          ahead      \* [Task -> SUBSET Task]: who asked before a waiting task
                     \* and still waits for the same key

kvars == <<inside, waiting, ahead>>

KInit == /\ inside = [k \in Key |-> {}]
         /\ waiting = [k \in Key |-> {}]
         /\ ahead = [t \in Task |-> {}]

KIdle(t) == \A k \in Key : t \notin inside[k] \cup waiting[k]

\* t waits no more: nobody waits behind it.
KLeaveQueue(t, k) == /\ t \in waiting[k]
                     /\ waiting' = [waiting EXCEPT ![k] = @ \ {t}]
                     /\ ahead' = [u \in Task |-> IF u = t THEN {} ELSE ahead[u] \ {t}]

\* A task that finds the lock free and nobody waiting enters at once.
KEnter(t, k) == /\ KIdle(t)
                /\ inside[k] = {} /\ waiting[k] = {}
                /\ inside' = [inside EXCEPT ![k] = {t}]
                /\ UNCHANGED <<waiting, ahead>>

\* Any other request queues behind those that wait.
KJoin(t, k) == /\ KIdle(t)
               /\ waiting' = [waiting EXCEPT ![k] = @ \cup {t}]
               /\ ahead' = [ahead EXCEPT ![t] = waiting[k]]
               /\ UNCHANGED inside

\* Only a task that nobody is ahead of is let in.
KGrant(t, k) == /\ inside[k] = {} /\ ahead[t] = {}
                /\ KLeaveQueue(t, k)
                /\ inside' = [inside EXCEPT ![k] = {t}]

KGiveUp(t, k) == /\ KLeaveQueue(t, k)
                 /\ UNCHANGED inside

KLeave(t, k) == /\ t \in inside[k]
                /\ inside' = [inside EXCEPT ![k] = {}]
                /\ UNCHANGED <<waiting, ahead>>

KNext == \E t \in Task, k \in Key :
            KEnter(t, k) \/ KJoin(t, k) \/ KGrant(t, k) \/ KGiveUp(t, k) \/ KLeave(t, k)

KSpec == KInit /\ [][KNext]_kvars
=============================================================================
