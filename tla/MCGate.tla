------------------------------- MODULE MCGate -------------------------------
(* Instances of Gate for TLC. *)
EXTENDS Gate, TLC

CONSTANTS grep, grep2
=============================================================================
