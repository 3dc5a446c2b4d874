---------------------------- MODULE MCCardWorker ----------------------------
(* Instances of CardWorker for TLC: items a, b and m are for card c1, items *)
(* j and k for card c2.  Which of them exist, and which are mentions by     *)
(* people, is in the cfg of each run.                                       *)
EXTENDS CardWorker, TLC

CONSTANTS c1, c2, a, b, j, k, m

OnCard == [i \in Items |-> IF i \in {j, k} THEN c2 ELSE c1]

\* Goroutines are interchangeable.
WorkerSymmetry == Permutations(Workers)
==============================================================================
