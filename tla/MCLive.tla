-------------------------------- MODULE MCLive --------------------------------
(***************************************************************************)
(* One instance for TLC of what must happen in the fetch loop (Intake), in *)
(* what wakes it (Cable) and in a run of Claude (ClaudeRun), each under    *)
(* its own fairness.  As in MCParts, a behaviour is one of one part.       *)
(***************************************************************************)
EXTENDS MCIntake

VARIABLE part   \* the part of this behaviour

VARIABLES news, login, conn, link, subscribed, wire, connected, signal, fetching
cableVars == <<news, login, conn, link, subscribed, wire, connected, signal, fetching>>
Ca == INSTANCE Cable WITH MaxWire <- 2

VARIABLES claude, child, stream, parsed, found, ctxEnded, cause, killTimer, run, outcome
claudeVars ==
  <<claude, child, stream, parsed, found, ctxEnded, cause, killTimer, run, outcome>>
Cl == INSTANCE ClaudeRun WITH
  Calls <- {"large"}, Price <- [large |-> 2], Reported <- {2}, CostLimit <- 1,
  MaxStream <- 1

-----------------------------------------------------------------------------

LiveInit == part \in {"intake", "cable", "claude"} /\ Init /\ Ca!Init /\ Cl!Init

OfIntake(A) == part = "intake" /\ A /\ UNCHANGED <<part, cableVars, claudeVars>>
OfCable(A) == part = "cable" /\ A /\ UNCHANGED <<part, vars, claudeVars>>
OfClaude(A) == part = "claude" /\ A /\ UNCHANGED <<part, vars, cableVars>>

LiveNext == OfIntake(Next) \/ OfCable(Ca!Next) \/ OfClaude(Cl!Next)

liveVars == <<part, vars, cableVars, claudeVars>>

\* A behaviour is of one part, so that one condition can stand for a step of
\* each part.
Either(I, A, C) == OfIntake(I) \/ OfCable(A) \/ OfClaude(C)

\* Intake!Fairness.
\* Cable: the loop and its timer go on, and Fizzy answers again and again.
\* Nothing is assumed of the connection.
\* ClaudeRun: the goroutines of Run and of os/exec go on, and so does a timer.
\* Nothing is assumed of Claude or of what it started.
LiveFairness ==
  /\ WF_liveVars(Either(Step, Ca!BeginWait, Cl!Parse))
  /\ WF_liveVars(OfCable(Ca!Timer) \/ OfClaude(Cl!Cancel))
  /\ WF_liveVars(OfCable(Ca!TakeSignal) \/ OfClaude(Cl!KillTimer))
  /\ WF_liveVars(OfClaude(Cl!WaitReturns))
  /\ WF_liveVars(OfClaude(Cl!Returns))
  /\ SF_liveVars(OfIntake(Fetch) \/ OfCable(Ca!List))
  /\ \A c \in Cards :
       /\ SF_liveVars(OfIntake(ForCard(c, Read \/ ReadGone)))
       /\ SF_liveVars(OfIntake(ForCard(c, Record)))
       /\ SF_liveVars(OfIntake(ForCard(c, SetNeedsScan)))
       /\ SF_liveVars(OfIntake(ForCard(c, ClearNeedsScan)))
       /\ SF_liveVars(OfIntake(ForCard(c, MarkRead)))

LiveSpec ==
  LiveInit /\ [][LiveNext]_liveVars /\ LiveFairness

-----------------------------------------------------------------------------

\* Each notification is listed, whatever the connection does (Cable).
NewsIsFetched == Ca!NewsIsFetched

\* A stop of a turn, and the end of Claude, end Run (ClaudeRun).
RunReturns == Cl!RunReturns
=============================================================================
