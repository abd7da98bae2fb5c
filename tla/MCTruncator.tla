---------------------------- MODULE MCTruncator ----------------------------
(* Instances of Truncator for TLC. *)
EXTENDS Truncator
=============================================================================
