----------------------------- MODULE MCApprovals -----------------------------
(* An instance of Approvals for TLC: two requests for the same command, and *)
(* codes that always collide.                                               *)
EXTENDS Approvals

CONSTANTS r1, r2, ls, k1

SameCommand == [r \in Requests |-> ls]

Remark(mention, says) ==
  [mention |-> mention, trusted |-> TRUE, says |-> says, code |-> k1]

\* A mention that is work, an answer that is a mention too, and one that is not.
SomeRemarks == {Remark(TRUE, "other"), Remark(TRUE, "yes"), Remark(FALSE, "always")}
==============================================================================
