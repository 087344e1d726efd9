----------------------------- MODULE MCFeedback -----------------------------
(* A small instance of Feedback for TLC.                                   *)
EXTENDS Feedback, TLC

Symm == Permutations(Calls)
=============================================================================
