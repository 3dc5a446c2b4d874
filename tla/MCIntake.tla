------------------------------- MODULE MCIntake -------------------------------
(* Instances of Intake for TLC: mentions a and b on card c1, d on card c2. *)
EXTENDS Intake

CONSTANTS c1, c2, a, b, d

OnCard == [m \in Mentions |-> IF m = d THEN c2 ELSE c1]
==============================================================================
