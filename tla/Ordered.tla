------------------------------- MODULE Ordered -------------------------------
(* Sets of comments, each given by its place on the card, as lists.          *)
EXTENDS Naturals, FiniteSets

\* The places of S, the oldest comment first: a scan goes through the comments
\* of a card in this order.
InOrder(S) ==
  CHOOSE s \in [1..Cardinality(S) -> S] : \A j, k \in DOMAIN s : j < k => s[j] < s[k]

\* The items of s at the places of K, in their order.
ItemsAt(s, K) == [j \in 1..Cardinality(K) |-> s[InOrder(K)[j]]]
==============================================================================
