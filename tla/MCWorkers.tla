------------------------------ MODULE MCWorkers ------------------------------
(***************************************************************************)
(* The instance of CardWorker for TLC in which its safety is checked: two  *)
(* cards, mentions of people and messages of the agents.                   *)
(***************************************************************************)
EXTENDS MCCardWorker

\* The agent of card c1 had a turn before, that of card c2 did not.
OneStarted == [c \in Cards |-> c = c1]
WorkersInit == Init /\ sessionStarted = OneStarted
WorkersSpec == WorkersInit /\ [][Next]_vars

\* Bounds of the model: TLC goes on from the states in which the items of only one
\* of two stories are on their way.
Unused(S) == \A i \in S : stage[i] = "new"

\* Three people mention the bot, the cards take turns with one slot, and a drain,
\* a stop or a crash comes between.
Shared == Unused({m, j}) /\ slots <= 1

\* Two turns at a time send each other messages.
Talking == Unused({b}) /\ stops = 0

OneOfBoth == Shared \/ Talking
==============================================================================
