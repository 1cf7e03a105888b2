---------------------------- MODULE MCFeedback ----------------------------
(* Instances of Feedback for TLC. *)
EXTENDS Feedback, TLC

CONSTANTS call, call2, hook, hook2

Symmetry == Permutations(Handlers) \cup Permutations(Hooks)
=============================================================================
