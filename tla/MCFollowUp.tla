----------------------------- MODULE MCFollowUp -----------------------------
(* Instances of FollowUp for TLC. *)
EXTENDS FollowUp

CONSTANTS e1, e2, e3, e4, alice, bob

\* Every message is from one sender / e4 is from somebody else.
OneSender == [e \in Event |-> alice]
TwoSenders == [e \in Event |-> IF e = e4 THEN bob ELSE alice]

\* Messages of one sender are interchangeable.
Symmetry == Permutations(Event)
AliceSymmetry == Permutations(Event \ {e4})
=============================================================================
