------------------------------ MODULE MCTriggers ------------------------------
(* An instance of Triggers for TLC: a trusted person and another. *)
EXTENDS Triggers

Spec == Init /\ [][Next]_triggerVars
==============================================================================
