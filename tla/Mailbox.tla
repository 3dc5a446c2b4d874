------------------------------- MODULE Mailbox -------------------------------
(***************************************************************************)
(* What the connector promises about the way from the comments of a card   *)
(* to its queue, without any notification, scan, mark or failure: a card   *)
(* takes the comments in the order in which they were written, each once,  *)
(* and its queue gets those by trusted people at that moment.              *)
(*                                                                         *)
(* Intake implements this specification: see Intake!Promise.               *)
(***************************************************************************)
EXTENDS Naturals, Sequences, FiniteSets, Ordered

CONSTANTS Cards, Mentions, CardOf, Trusted

VARIABLES
  written,  \* written[c]: the mentions on card c, in order
  taken,    \* taken[c]: the places of those that it took
  queue     \* queue[c]: what it took for its turns

vars == <<written, taken, queue>>

TypeOK ==
  /\ written \in [Cards -> Seq(Mentions)]
  /\ \A c \in Cards : taken[c] \subseteq DOMAIN written[c]
  /\ queue \in [Cards -> Seq(Mentions)]

Init ==
  /\ written = [c \in Cards |-> <<>>]
  /\ taken = [c \in Cards |-> {}]
  /\ queue = [c \in Cards |-> <<>>]

Write(m) ==
  /\ \A k \in DOMAIN written[CardOf[m]] : written[CardOf[m]][k] # m
  /\ written' = [written EXCEPT ![CardOf[m]] = Append(@, m)]
  /\ UNCHANGED <<taken, queue>>

\* All up to the n-th, whatever of them was taken before.
Take(c, n) ==
  LET new == (1..n) \ taken[c]
  IN  /\ taken[c] \subseteq 1..n /\ new # {}
      /\ taken' = [taken EXCEPT ![c] = 1..n]
      /\ queue' = [queue EXCEPT ![c] =
                     @ \o ItemsAt(written[c], {k \in new : written[c][k] \in Trusted})]
      /\ UNCHANGED written

Next ==
  \/ \E m \in Mentions : Write(m)
  \/ \E c \in Cards : \E n \in DOMAIN written[c] : Take(c, n)

Spec == Init /\ [][Next]_vars
==============================================================================
