------------------------------- MODULE MCParts -------------------------------
(* An instance of Parts for TLC. *)
EXTENDS Parts, MCSessions

\* ClaudeRun: a small and a large call, and a limit between them.
Prices == [small |-> 1, large |-> 2]

\* CardTools: two calls, most on the own card.  The name of bob contains the
\* address of ann, and "n" is in the names of both.
Tool(kind, word) == [kind |-> kind, card |-> "own", word |-> word]
Tools ==
  {Tool("assign", w) : w \in {"ann@x", "n"}} \cup
  {Tool(kind, "t") : kind \in {"tag", "untag"}} \cup
  {Tool(kind, "") : kind \in {"close", "reopen", "comment", "create"}} \cup
  {Tool("move", "doing"), Tool("moveToBoard", "other"),
   [kind |-> "comment", card |-> "another", word |-> ""]}
Emails == [ann |-> "ann@x", bob |-> "bob@x"]
NamesHave == [ann |-> {"n"}, bob |-> {"n", "ann@x"}]
Titles == [b1 |-> "first", b2 |-> "other", doing |-> "doing"]
Boards == [b1 |-> "b1", b2 |-> "b2", doing |-> "b1"]

\* Setup: the invite link is for the account of ann; claude has another one.
Homes == [claude |-> {"home"}, ann |-> {"work"}]

\* Intake: mentions a and b on card c1, d on card c2.
OnCard == [a |-> "c1", b |-> "c1", d |-> "c2"]
==============================================================================
