------------------------------ MODULE CardTools ------------------------------
(***************************************************************************)
(* The tools that change cards: internal/mcpserver/actions.go, with the    *)
(* requests of internal/fizzy/client.go that they end in.                  *)
(*                                                                         *)
(* Fizzy toggles assignments and tags, so a tool reads the card first and  *)
(* sends the toggle only when it changes what it should.  Tool calls of    *)
(* subagents and of turns on other cards run at the same time, people edit *)
(* cards, and a response can be lost after its request took effect, so     *)
(* that Claude calls the tool again.                                       *)
(*                                                                         *)
(* Left out: the tools that only list, the texts of cards and comments,    *)
(* and the parser of card references.                                      *)
(***************************************************************************)
EXTENDS Naturals, FiniteSets

CONSTANTS
  Callers,       \* tool calls that can run at the same time
  ToolCalls,     \* the calls that Claude makes: see ToolCall
  Targets,       \* the cards of this account
  OwnCard,       \* the card of the conversation
  Active,        \* the users that are active
  Email,         \* Email[u]
  NameHas,       \* NameHas[u]: the words that the name of u contains
  Spots,         \* boards and columns
  Columns,       \* those that are columns
  Title,         \* Title[s]: the name of a spot, in lower case
  BoardOf,       \* BoardOf[s]: the board of a column, or the board itself
  Edited,        \* bound of the model: the users and tags that people change
  MaxPosts       \* bound of the model: comments and new cards

VARIABLES
  facts,   \* facts[c]: the assigned users, the tags, and "closed"
  spot,    \* spot[c]: the column of c, or its board
  posts,   \* comments and cards that the tools made
  call     \* call[k]: see CallRecord

toolVars == <<facts, spot, posts, call>>

Kinds == {"assign", "tag", "untag", "close", "reopen", "move", "moveToBoard",
          "comment", "create"}
ToolCall == [kind : Kinds, card : Targets, word : STRING]

\* at: the tool read what it needs and sends its request ("sends"), or it
\* answered.  target: what the word stands for.  disturbed: somebody changed
\* the same thing after the read.  A call that ends with an error is NoCall.
NoCall == [at |-> "idle"]
IsCall(r) ==
  r = NoCall \/ /\ r.at \in {"sends", "done", "noChange"}
                /\ r.tool \in ToolCalls
                /\ r.disturbed \in BOOLEAN

TypeOK ==
  /\ spot \in [Targets -> Spots]
  /\ DOMAIN facts = Targets
  /\ posts \in 0..MaxPosts
  /\ \A k \in Callers : IsCall(call[k])

Init ==
  /\ facts = [c \in Targets |-> {}]
  /\ spot = [c \in Targets |-> BoardOf[CHOOSE s \in Spots : TRUE]]
  /\ posts = 0
  /\ call = [k \in Callers |-> NoCall]

-----------------------------------------------------------------------------
(* What a name stands for *)

\* The address of one person wins over the names that contain it.
ByEmail(word) == {u \in Active : Email[u] = word}
ByName(word) == {u \in Active : Email[u] # word /\ word \in NameHas[u]}
UsersFor(word) == IF ByEmail(word) # {} THEN ByEmail(word) ELSE ByName(word)

BoardsFor(word) == {s \in Spots \ Columns : Title[s] = word}
ColumnsFor(word, board) == {s \in Columns : Title[s] = word /\ BoardOf[s] = board}

\* commentOnCard is for the other cards; reply is for the own one.
OtherCards(card) == {card} \ {OwnCard}

\* An empty board name means the board of the conversation.
TargetsOf(tool) ==
  CASE tool.kind = "assign" -> UsersFor(tool.word)
    [] tool.kind \in {"tag", "untag"} -> {tool.word} \ {""}
    [] tool.kind \in {"close", "reopen"} -> {"closed"}
    [] tool.kind = "move" -> ColumnsFor(tool.word, BoardOf[spot[tool.card]])
    [] tool.kind = "create" /\ tool.word = "" -> {BoardOf[spot[OwnCard]]}
    [] tool.kind \in {"moveToBoard", "create"} -> BoardsFor(tool.word)
    [] tool.kind = "comment" -> OtherCards(tool.card)

-----------------------------------------------------------------------------
(* A tool call *)

\* The change that Claude wants: the card has the fact, or has it not.
Wants(tool) == tool.kind \in {"assign", "tag", "close"}
Toggles(tool) == tool.kind \in {"assign", "tag", "untag"}

\* The tool read the card and leaves it as it is.  A mutant: it never looks.
NeverThere(tool, target) == FALSE
AlreadyThere(tool, target) ==
  Toggles(tool) /\ (target \in facts[tool.card]) = Wants(tool)

\* The reads of a tool: the users, boards or columns, and then the card.  A
\* name that stands for nothing, or for several, is refused.
Begin(k, tool) ==
  /\ call[k] = NoCall
  /\ Cardinality(TargetsOf(tool)) = 1
  /\ \E target \in TargetsOf(tool) :
       call' = [call EXCEPT ![k] =
         [at |-> IF AlreadyThere(tool, target) THEN "noChange" ELSE "sends",
          tool |-> tool, target |-> target, disturbed |-> FALSE]]
  /\ UNCHANGED <<facts, spot, posts>>

Posts(tool) == tool.kind \in {"comment", "create"}
Moves(tool) == tool.kind \in {"move", "moveToBoard"}

\* Two changes that are about the same thing of the same card.
Same(r, card, target) ==
  /\ r.tool.card = card
  /\ r.target = target \/ (Moves(r.tool) /\ target \in Spots)

\* The others that are on their way know nothing of this change.
Disturb(k, card, target) ==
  [j \in Callers |->
     IF j # k /\ call[j] # NoCall /\ Same(call[j], card, target)
     THEN [call[j] EXCEPT !.disturbed = TRUE] ELSE call[j]]

Toggled(set, x) == IF x \in set THEN set \ {x} ELSE set \cup {x}

\* What Fizzy does with the request.  A column of another board is not found.
Accepts(r) ==
  /\ r.tool.kind = "move" => BoardOf[r.target] = BoardOf[spot[r.tool.card]]
  /\ Posts(r.tool) => posts < MaxPosts

Effect(r) ==
  LET c == r.tool.card
  IN  /\ facts' = CASE Toggles(r.tool) -> [facts EXCEPT ![c] = Toggled(@, r.target)]
                    [] r.tool.kind = "close" -> [facts EXCEPT ![c] = @ \cup {"closed"}]
                    [] r.tool.kind = "reopen" -> [facts EXCEPT ![c] = @ \ {"closed"}]
                    [] OTHER -> facts
      /\ spot' = IF Moves(r.tool) THEN [spot EXCEPT ![c] = r.target] ELSE spot
      /\ posts' = IF Posts(r.tool) THEN posts + 1 ELSE posts

\* The request takes effect, and its response arrives or is lost.
Sent(k) ==
  /\ call[k].at = "sends"
  /\ Accepts(call[k])
  /\ Effect(call[k])
  /\ LET others == Disturb(k, call[k].tool.card, call[k].target)
     IN  \/ call' = [others EXCEPT ![k].at = "done"]
         \/ call' = [others EXCEPT ![k] = NoCall]

\* The request fails, or Claude got the answer.
Ends(k) ==
  /\ call[k] # NoCall
  /\ call' = [call EXCEPT ![k] = NoCall]
  /\ UNCHANGED <<facts, spot, posts>>

\* A person changes the same card.
PersonEdits(c, x) ==
  /\ facts' = [facts EXCEPT ![c] = Toggled(@, x)]
  /\ call' = Disturb("nobody", c, x)
  /\ UNCHANGED <<spot, posts>>

Next ==
  \/ \E k \in Callers, tool \in ToolCalls : Begin(k, tool)
  \/ \E k \in Callers : Sent(k) \/ Ends(k)
  \/ \E c \in Targets, x \in Edited : PersonEdits(c, x)

-----------------------------------------------------------------------------
(* Properties *)

\* What a tool tells Claude is so: after "assigned", "added", "no change",
\* "closed" or "moved" the card is as Claude wanted it, also when Claude calls
\* the tool again because the response of a toggle was lost, and whatever the
\* other calls do.  Only a change of the same thing after the tool read the
\* card can undo it (actions.go, assignCard and setTag).
DoneAsSaid ==
  \A k \in Callers :
    LET r == call[k]
    IN  r.at \in {"done", "noChange"} /\ ~r.disturbed =>
          CASE Moves(r.tool) -> spot[r.tool.card] = r.target
            [] Posts(r.tool) -> posts > 0
            [] OTHER -> (r.target \in facts[r.tool.card]) = Wants(r.tool)
=============================================================================
