----------------------------- MODULE MCPipeline -----------------------------
(* Instances of Pipeline for TLC: messages of a group. *)
EXTENDS Pipeline

CONSTANTS e1, e2, group

Group == [e \in Event |-> group]

\* Bound: e2 is a message of which only handlers may make something, so that it
\* can reset the session of e1 at every point, and be stopped by e1.
OneReplies == ~awake[e2] /\ ~hasSent[e2] /\ \A r \in Reply : reply[e2][r] = "unused"
=============================================================================
