------------------------------- MODULE Parts --------------------------------
(***************************************************************************)
(* The parts that have no state in common, in one specification: the       *)
(* sessions of a card, and the machines below.  A behaviour is one of one  *)
(* part, the other parts stay as they start, so that the states of the     *)
(* parts add up and do not multiply.  MCParts gives the constants values.  *)
(***************************************************************************)
EXTENDS Sessions

VARIABLE part   \* the part of this behaviour

-----------------------------------------------------------------------------
(* Startup: processes of one config. *)

CONSTANTS Commands

VARIABLES place, hasStaging, hasData, mark, otherMark, cmd, lock, socket
startupVars == <<place, hasStaging, hasData, mark, otherMark, cmd, lock, socket>>
St == INSTANCE Startup

(* ClaudeRun: costs are counted in a unit of which all are multiples. *)

CONSTANTS Calls, Price, Reported, CostLimit, MaxStream

VARIABLES claude, child, stream, parsed, found, ctxEnded, cause, killTimer, run, outcome
claudeVars ==
  <<claude, child, stream, parsed, found, ctxEnded, cause, killTimer, run, outcome>>
Cl == INSTANCE ClaudeRun
ASSUME ClaudeAssumption ==
  Reported \subseteq Nat /\ Price \in [Calls -> Nat] /\ MaxStream \in Nat

(* Hook: in seconds.  A message between two processes of one machine takes *)
(* at most one, and CheckBudget leaves three of the wait to the messages.  *)

CONSTANTS Hooks, Items, CheckWait, Transit
ASSUME HookAssumption ==
  /\ CheckWait \in Nat /\ CheckWait >= 4
  /\ Transit \in {0, 1}

VARIABLES hook, checkMu, toGive, batch, seen, turnLives
hookVars == <<hook, checkMu, toGive, batch, seen, turnLives>>
Ho == INSTANCE Hook

(* CardTools: the marker of a person is no caller. *)

CONSTANTS Callers, ToolCalls, Targets, OwnCard, Active, Email, NameHas,
          Spots, Columns, Title, BoardOf, Edited, MaxPosts

VARIABLES facts, spot, posts, call
toolVars == <<facts, spot, posts, call>>
Ct == INSTANCE CardTools
ASSUME ToolsAssumption ==
  /\ ToolCalls \subseteq Ct!ToolCall /\ "nobody" \notin Callers
  /\ Spots # {} /\ Columns \subseteq Spots /\ BoardOf \in [Spots -> Spots]
  /\ MaxPosts \in Nat

(* Triggers: nobody is no user, and no words are none. *)

CONSTANTS Users, TrustedUsers, Words, MaxChanges

VARIABLES text, members, notified, done, work, look, wrote, left, refused, changes
triggerVars ==
  <<text, members, notified, done, work, look, wrote, left, refused, changes>>
Tr == INSTANCE Triggers WITH People <- Users
ASSUME TriggersAssumption ==
  /\ Tr!Nobody \notin Users \cup TrustedUsers /\ Tr!NoWords \notin Words
  /\ MaxChanges \in Nat

(* Cable *)

CONSTANT MaxWire

VARIABLES news, login, conn, link, subscribed, wire, connected, signal, fetching
cableVars == <<news, login, conn, link, subscribed, wire, connected, signal, fetching>>
Ca == INSTANCE Cable
ASSUME CableAssumption == MaxWire \in Nat \ {0}

(* Setup: the address of nobody is no address. *)

CONSTANTS People, Accounts, HomesOf, Invites

VARIABLES users, configFile, cookies, init, logsIn
setupVars == <<users, configFile, cookies, init, logsIn>>
Su == INSTANCE Setup
ASSUME SetupAssumption == Invites \subseteq Accounts /\ Su!Nobody \notin People

(* Logs: validate asks for a turn_timeout of a minute or more; the grace is *)
(* the time that Run of claude.go waits after it (WaitDelay, 15 seconds).   *)
(* The sweep is no card.                                                    *)

CONSTANTS Cards, TurnTimeout, Grace

VARIABLES logs, age, writer, sweep, logFiles
logVars == <<logs, age, writer, sweep, logFiles>>
Lo == INSTANCE Logs
ASSUME LogAssumption ==
  /\ TurnTimeout \in Nat /\ Grace \in Nat /\ Grace < TurnTimeout
  /\ Lo!Sweeper \notin Cards

(* Intake: stops counts the crashes of its daemon. *)

CONSTANTS CardMentions, CardOf, Trusted, MaxEvents, MaxStops
ASSUME IntakeAssumption ==
  /\ Cards # {}
  /\ CardOf \in [CardMentions -> Cards] /\ Trusted \subseteq CardMentions
  /\ MaxEvents \in Nat /\ MaxStops \in Nat

VARIABLES comments, gone, unread, events, handled, queued, needsScan, pendingScans,
          etag, todo, loop, stops
intakeVars ==
  <<comments, gone, unread, events, handled, queued, needsScan, pendingScans,
    etag, todo, loop, stops>>
In == INSTANCE Intake WITH
  Mentions <- CardMentions, MaxCrashes <- MaxStops, crashes <- stops

-----------------------------------------------------------------------------

PartNames == {"sessions", "startup", "claude", "hook", "tools", "triggers", "cable",
          "setup", "logs", "intake"}

PartsInit ==
  /\ part \in PartNames
  /\ Init /\ St!Init /\ Cl!Init /\ Ho!Init /\ Ct!Init /\ Tr!Init /\ Ca!Init
  /\ Su!Init /\ Lo!Init /\ In!Init

PartsNext ==
  /\ UNCHANGED part
  /\ IF part = "sessions" THEN Next ELSE UNCHANGED vars
  /\ IF part = "startup" THEN St!Next ELSE UNCHANGED startupVars
  /\ IF part = "claude" THEN Cl!Next ELSE UNCHANGED claudeVars
  /\ IF part = "hook" THEN Ho!Next ELSE UNCHANGED hookVars
  /\ IF part = "tools" THEN Ct!Next ELSE UNCHANGED toolVars
  /\ IF part = "triggers" THEN Tr!Next ELSE UNCHANGED triggerVars
  /\ IF part = "cable" THEN Ca!Next ELSE UNCHANGED cableVars
  /\ IF part = "setup" THEN Su!Next ELSE UNCHANGED setupVars
  /\ IF part = "logs" THEN Lo!Next ELSE UNCHANGED logVars
  /\ IF part = "intake" THEN In!Next ELSE UNCHANGED intakeVars

partsVars ==
  <<part, vars, startupVars, claudeVars, hookVars, toolVars,
    triggerVars, cableVars, setupVars, logVars, intakeVars>>

PartsSpec == PartsInit /\ [][PartsNext]_partsVars

-----------------------------------------------------------------------------
(* The properties of the parts, under the names that they have there *)

\* Every part keeps the types of its variables.
PartsTypeOK ==
  CASE part = "sessions" -> TypeOK     [] part = "startup"  -> St!TypeOK
    [] part = "claude"   -> Cl!TypeOK  [] part = "hook"     -> Ho!TypeOK
    [] part = "tools"    -> Ct!TypeOK  [] part = "triggers" -> Tr!TypeOK
    [] part = "cable"    -> Ca!TypeOK  [] part = "setup"    -> Su!TypeOK
    [] part = "logs"     -> Lo!TypeOK  [] part = "intake"   -> In!TypeOK

\* A daemon runs with the state that an earlier version left (Startup).
RunsWithItsState == St!RunsWithItsState

\* A daemon that serves has its socket (Startup).
SocketIsOwn == St!SocketIsOwn

\* The verdict on a turn depends on what Claude wrote (ClaudeRun).
VerdictFollowsStream == Cl!VerdictFollowsStream

\* No API call of a turn is lost from its usage (ClaudeRun).
UsageKept == Cl!UsageKept

\* No process of the group of Claude outlives its turn (ClaudeRun).
NothingLeftBehind == Cl!NothingLeftBehind

\* An item that the turn owns gets to Claude (Hook).
TakenIsDelivered == Ho!TakenIsDelivered

\* What a tool tells Claude about a card is so (CardTools).
DoneAsSaid == Ct!DoneAsSaid

\* What proves the work that a description gives (Triggers).
WorkIsProven == Tr!WorkIsProven

\* A mention in a description is work or gets its notice (Triggers).
MentionGetsWorkOrNotice == Tr!MentionGetsWorkOrNotice

\* A working subscription wakes the loop for each notification (Cable).
WakeupKept == Ca!WakeupKept

\* A config that loads is of one user (Setup).
ConfigIsOfOneUser == Su!ConfigIsOfOneUser

\* The websocket login is of the bot (Setup).
CookieIsBots == Su!CookieIsBots

\* The log of a running turn is not deleted (Logs).
OpenLogKept == Lo!OpenLogKept

\* No mention is lost at any moment of the fetch loop (Intake).
NoMentionLost == In!NoMentionLost

\* Mentions are queued once and in order (Intake).
QueuedOnceInOrder == In!QueuedOnceInOrder

\* From comments to the queue, the fetch loop is the abstract mailbox (Intake).
MailKept == In!KeepsPromise

\* A "not modified" answer hides no notification (Intake).
NotModifiedMissesNothing == In!NotModifiedMissesNothing
=============================================================================
