----------------------------- MODULE MCChatRuns -----------------------------
(* Instances of ChatRuns for TLC. *)
EXTENDS ChatRuns

CONSTANTS r1, s1, s2
=============================================================================
