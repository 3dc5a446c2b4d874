-------------------------------- MODULE Hook --------------------------------
(***************************************************************************)
(* The hook that runs after each tool call of a turn, and its check with   *)
(* the daemon, in time: internal/claude/hook.go (checkWithDaemon),         *)
(* internal/ipc/ipc.go (SendAndWait, Serve) and internal/daemon/check.go   *)
(* (check).  CardWorker has the same check without time: there an item     *)
(* that the check takes for the turn is given to Claude.  This module is   *)
(* about why that is so, although the hook stops its wait and the daemon   *)
(* does not know.                                                          *)
(*                                                                         *)
(* Subagents make tool calls at the same time, so several hooks run and    *)
(* their checks wait for each other.  Time passes in steps (Tick).         *)
(***************************************************************************)
EXTENDS Naturals

CONSTANTS
  Hooks,      \* hooks that can run at the same time
  Items,      \* items for the card that arrive during the turn
  CheckWait,  \* claude.CheckWait
  Transit     \* the longest time that a request or a response is on its way

VARIABLES
  hook,       \* hook[h]: see HookRecord
  checkMu,    \* the hooks whose check has turn.checkMu
  toGive,     \* items in the queue that the turn does not have (t.consumed)
  batch,      \* batch[h]: the items that its check read, or that its response has
  seen,       \* items that Claude got
  turnLives   \* t.ctx

hookVars == <<hook, checkMu, toGive, batch, seen, turnLives>>

\* The budget of a check.  A mutant: the whole wait of the hook.
WholeWait == CheckWait
CheckBudget == CheckWait - 3

\* at: the request is on its way, its check waits for checkMu, reads the card
\* ("reads"), and its response is on its way ("answered").
\* waited: since the hook sent the request, until it stops its wait (gone).
\* spent: since the daemon got it.  moving: since the last message was sent.
Clock == 0..CheckWait
HookRecord ==
  [at : {"idle", "sent", "waits", "reads", "answered"},
   gone : BOOLEAN, waited : Clock, spent : Clock, moving : Clock]
Idle == [at |-> "idle", gone |-> FALSE, waited |-> 0, spent |-> 0, moving |-> 0]

TypeOK ==
  /\ hook \in [Hooks -> HookRecord]
  /\ checkMu \subseteq Hooks
  /\ toGive \subseteq Items /\ seen \subseteq Items
  /\ batch \in [Hooks -> SUBSET Items]
  /\ turnLives \in BOOLEAN

Init ==
  /\ hook = [h \in Hooks |-> Idle]
  /\ checkMu = {}
  /\ toGive = {} /\ seen = {}
  /\ batch = [h \in Hooks |-> {}]
  /\ turnLives = TRUE

At(h, at) == hook[h].at = at
Goto(h, at) == hook' = [hook EXCEPT ![h].at = at]

-----------------------------------------------------------------------------

\* Everything that the turn had, has, or can still get.
Taken == seen \cup UNION {batch[h] : h \in {g \in Hooks : At(g, "answered")}}

Arrive(i) ==
  /\ turnLives /\ i \notin toGive \cup Taken
  /\ toGive' = toGive \cup {i}
  /\ UNCHANGED <<hook, checkMu, batch, seen, turnLives>>

\* A tool call ended: SendAndWait.
Send(h) ==
  /\ turnLives /\ At(h, "idle")
  /\ Goto(h, "sent")
  /\ UNCHANGED <<checkMu, toGive, batch, seen, turnLives>>

\* Serve hands the request to check, whose budget starts.
Receive(h) ==
  /\ At(h, "sent")
  /\ Goto(h, "waits")
  /\ UNCHANGED <<checkMu, toGive, batch, seen, turnLives>>

Expired(h) == ~turnLives \/ hook[h].spent >= CheckBudget

Answer(h, items) ==
  /\ hook' = [hook EXCEPT ![h].at = "answered", ![h].moving = 0]
  /\ batch' = [batch EXCEPT ![h] = items]

\* The wait for checkMu does not end with the context, so the context is
\* looked at after it.
Lock(h) ==
  /\ At(h, "waits")
  /\ checkMu = {}
  /\ IF Expired(h) \/ toGive = {}
     THEN Answer(h, {}) /\ UNCHANGED checkMu
     ELSE /\ Goto(h, "reads")
          /\ checkMu' = {h}
          /\ batch' = [batch EXCEPT ![h] = toGive]
  /\ UNCHANGED <<toGive, seen, turnLives>>

\* newActivity, after the card was read: the turn owns the items.
Give(h) ==
  /\ At(h, "reads")
  /\ ~Expired(h)
  /\ Answer(h, batch[h])
  /\ toGive' = toGive \ batch[h]
  /\ checkMu' = {}
  /\ UNCHANGED <<seen, turnLives>>

\* Fizzy did not answer, or not in time.
ReadFails(h) ==
  /\ At(h, "reads")
  /\ Answer(h, {})
  /\ checkMu' = {}
  /\ UNCHANGED <<toGive, seen, turnLives>>

\* The response arrives: Claude gets it when the hook still waits.
Deliver(h) ==
  /\ At(h, "answered")
  /\ hook' = [hook EXCEPT ![h] = Idle]
  /\ batch' = [batch EXCEPT ![h] = {}]
  /\ seen' = IF hook[h].gone THEN seen ELSE seen \cup batch[h]
  /\ UNCHANGED <<checkMu, toGive, turnLives>>

\* The read deadline of SendAndWait: Claude goes on without the note.
GiveUp(h) ==
  /\ ~At(h, "idle") /\ ~hook[h].gone
  /\ hook[h].waited = CheckWait
  /\ hook' = [hook EXCEPT ![h].gone = TRUE]
  /\ UNCHANGED <<checkMu, toGive, batch, seen, turnLives>>

EndTurn ==
  /\ turnLives
  /\ turnLives' = FALSE
  /\ UNCHANGED <<hook, checkMu, toGive, batch, seen>>

\* The next turn starts with what the last one did not get.
NextTurn ==
  /\ ~turnLives
  /\ \A h \in Hooks : At(h, "idle")
  /\ turnLives' = TRUE /\ toGive' = {} /\ seen' = {}
  /\ UNCHANGED <<hook, checkMu, batch>>

-----------------------------------------------------------------------------
(* Time.  What is due happens before the next step of the clock. *)

Due(h) ==
  \/ At(h, "sent") /\ hook[h].waited >= Transit
  \/ At(h, "waits") /\ checkMu = {}
  \/ At(h, "reads") /\ Expired(h)
  \/ At(h, "answered") /\ hook[h].moving >= Transit
  \/ ~At(h, "idle") /\ ~hook[h].gone /\ hook[h].waited = CheckWait

\* The clocks that run; each stops where nothing depends on it any more.
Passed(running, time, end) == IF running /\ time < end THEN time + 1 ELSE time

Later(h) ==
  [hook[h] EXCEPT
     !.waited = Passed(~At(h, "idle"), @, CheckWait),
     !.spent = Passed(At(h, "waits") \/ At(h, "reads"), @, CheckBudget),
     !.moving = Passed(At(h, "answered"), @, Transit)]

Tick ==
  /\ \A h \in Hooks : ~Due(h)
  /\ \E h \in Hooks : ~At(h, "idle")
  /\ hook' = [h \in Hooks |-> Later(h)]
  /\ UNCHANGED <<checkMu, toGive, batch, seen, turnLives>>

Check(h) ==
  \/ Send(h) \/ Receive(h) \/ Lock(h) \/ Give(h) \/ ReadFails(h)
  \/ Deliver(h) \/ GiveUp(h)

Next ==
  \/ \E i \in Items : Arrive(i)
  \/ \E h \in Hooks : Check(h)
  \/ EndTurn \/ NextTurn \/ Tick

-----------------------------------------------------------------------------
(* Properties *)

\* An item that the turn owns gets to Claude: no response carries items to a
\* hook that stopped its wait, however long the checks of other tool calls
\* and Fizzy kept it (check.go, "an item that the hook does not deliver must
\* stay in the queue").
TakenIsDelivered ==
  \A h \in Hooks : At(h, "answered") /\ hook[h].gone => batch[h] = {}
=============================================================================
