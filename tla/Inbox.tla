-------------------------------- MODULE Inbox --------------------------------
(***************************************************************************)
(* What the connector promises about the work of its cards, without any    *)
(* worker, turn or slot.  Work that a card accepted is finished in the     *)
(* order in which it was accepted, once for the record and without gaps.   *)
(* A step that finishes work can leave the card owing an answer to the     *)
(* people who asked; that answer is posted before more work is finished.   *)
(*                                                                         *)
(* CardWorker implements this specification: see CardWorker!Promise.       *)
(***************************************************************************)
EXTENDS Naturals, Sequences

CONSTANTS Cards, Items

VARIABLES
  accepted,  \* accepted[c]: every item that card c ever accepted, in order
  finished,  \* finished[c]: how many of them are finished
  owed       \* owed[c]: an answer to people is recorded and not posted yet

vars == <<accepted, finished, owed>>

TypeOK ==
  /\ accepted \in [Cards -> Seq(Items)]
  /\ finished \in [Cards -> Nat]
  /\ owed \in [Cards -> BOOLEAN]

Init ==
  /\ accepted = [c \in Cards |-> <<>>]
  /\ finished = [c \in Cards |-> 0]
  /\ owed = [c \in Cards |-> FALSE]

Accept(c, i) ==
  /\ accepted' = [accepted EXCEPT ![c] = Append(@, i)]
  /\ UNCHANGED <<finished, owed>>

Finish(c, n, answer) ==
  /\ ~ owed[c]
  /\ n \in 1..(Len(accepted[c]) - finished[c])
  /\ finished' = [finished EXCEPT ![c] = @ + n]
  /\ owed' = [owed EXCEPT ![c] = answer]
  /\ UNCHANGED accepted

PayAnswer(c) ==
  /\ owed[c]
  /\ owed' = [owed EXCEPT ![c] = FALSE]
  /\ UNCHANGED <<accepted, finished>>

Next ==
  \E c \in Cards :
    \/ \E i \in Items : Accept(c, i)
    \/ \E n \in 1..Len(accepted[c]), answer \in BOOLEAN : Finish(c, n, answer)
    \/ PayAnswer(c)

Spec == Init /\ [][Next]_vars
==============================================================================
