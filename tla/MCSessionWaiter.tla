-------------------------- MODULE MCSessionWaiter --------------------------
(* Three waiters over two sessions: w1 and w3 share both session and filter. *)
EXTENDS SessionWaiter

CONSTANTS w1, w2, w3, m1, m2, m3, s1, s2, f1, f2

MCFilterOf == [w \in Waiter |-> IF w = w2 THEN f2 ELSE f1]
MCSessionOf == [w \in Waiter |-> IF w = w2 THEN s2 ELSE s1]

\* m3 comes from the session of w2; f2 also leads m2 there, as a filter by
\* sender does.
MCKey == [f \in Filter |-> [m \in Msg |->
            IF m = m3 \/ (m = m2 /\ f = f2) THEN s2 ELSE s1]]
=============================================================================
