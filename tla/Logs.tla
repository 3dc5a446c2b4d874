-------------------------------- MODULE Logs --------------------------------
(***************************************************************************)
(* The log of a card: the turn that opens it and writes to it              *)
(* (internal/daemon/worker.go, runClaude and openLog) and the sweep that   *)
(* deletes old logs (internal/daemon/logs.go).                             *)
(*                                                                         *)
(* A file that is deleted while it is open goes on without a name, so what *)
(* the turn writes would be lost.  Both sides take several steps, under    *)
(* the mutex logFiles, and time passes between any two steps (Tick).       *)
(***************************************************************************)
EXTENDS Naturals

CONSTANTS
  Cards,
  TurnTimeout,   \* config.TurnTimeout
  Grace          \* from the deadline of a turn until its Claude is stopped

VARIABLES
  logs,      \* the cards that have a file
  age,       \* age[c]: since the last write to it
  writer,    \* writer[c]: the turn of the card
  sweep,     \* the sweep: the logs that it listed and did not look at, and one
  logFiles   \* the holders of the mutex

logVars == <<logs, age, writer, sweep, logFiles>>

\* validate: the least retention that is not refused.  A mutant: as long as a
\* turn.
OneTimeout == TurnTimeout
LogRetention == 2 * TurnTimeout

Ages == 0..LogRetention
TurnEnd == TurnTimeout + Grace

\* own: the file that the turn opened is the one at the path.
\* time: since the turn started; the second try of a turn is in its deadline.
WriterRecord ==
  [at : {"off", "starts", "locks", "opened", "writes"}, own : BOOLEAN, time : 0..TurnEnd]
NoWriter == [at |-> "off", own |-> FALSE, time |-> 0]

Nothing == "nothing"
Sweeper == "sweep"

TypeOK ==
  /\ logs \subseteq Cards
  /\ age \in [Cards -> Ages]
  /\ writer \in [Cards -> WriterRecord]
  /\ sweep.todo \subseteq Cards
  /\ sweep.at \in {"off", "lists", "locks", "stats", "removes"}
  /\ sweep.card \in Cards \cup {Nothing}
  /\ logFiles \subseteq Cards \cup {Sweeper}

Init ==
  /\ logs = {} /\ age = [c \in Cards |-> 0]
  /\ writer = [c \in Cards |-> NoWriter]
  /\ sweep = [at |-> "off", todo |-> {}, card |-> Nothing]
  /\ logFiles = {}

-----------------------------------------------------------------------------
(* A turn *)

StartTurn(c) ==
  /\ writer[c].at = "off"
  /\ writer' = [writer EXCEPT ![c] = [NoWriter EXCEPT !.at = "starts"]]
  /\ UNCHANGED <<logs, age, sweep, logFiles>>

Lock(c) ==
  /\ writer[c].at = "starts"
  /\ logFiles = {}
  /\ logFiles' = {c}
  /\ writer' = [writer EXCEPT ![c].at = "locks"]
  /\ UNCHANGED <<logs, age, sweep>>

\* O_CREATE and O_APPEND: a file that exists keeps its age.
Open(c) ==
  /\ writer[c].at = "locks"
  /\ logs' = logs \cup {c}
  /\ writer' = [writer EXCEPT ![c].at = "opened", ![c].own = TRUE]
  /\ UNCHANGED <<age, sweep, logFiles>>

\* os.Chtimes.  A mutant: without it.
TimeKept(c) == age
Touched(c) == [age EXCEPT ![c] = 0]

Touch(c) ==
  /\ writer[c].at = "opened"
  /\ age' = Touched(c)
  /\ logFiles' = {}
  /\ writer' = [writer EXCEPT ![c].at = "writes"]
  /\ UNCHANGED <<logs, sweep>>

Write(c) ==
  /\ writer[c].at = "writes"
  /\ age' = IF writer[c].own THEN [age EXCEPT ![c] = 0] ELSE age
  /\ UNCHANGED <<logs, writer, sweep, logFiles>>

\* A session that is not found: runClaude once more, in the same turn.
RunAgain(c) ==
  /\ writer[c].at = "writes"
  /\ writer' = [writer EXCEPT ![c].at = "starts", ![c].own = FALSE]
  /\ UNCHANGED <<logs, age, sweep, logFiles>>

\* The turn ends, or its log cannot be opened.
EndTurn(c) ==
  /\ writer[c].at \in {"starts", "locks", "opened", "writes"}
  /\ writer' = [writer EXCEPT ![c] = NoWriter]
  /\ logFiles' = logFiles \ {c}
  /\ UNCHANGED <<logs, age, sweep>>

-----------------------------------------------------------------------------
(* sweepLogs *)

SweepAt(at) == sweep' = [sweep EXCEPT !.at = at]

ListLogs ==
  /\ sweep.at = "off"
  /\ sweep' = [at |-> "lists", todo |-> logs, card |-> Nothing]
  /\ UNCHANGED <<logs, age, writer, logFiles>>

NextLog(c) ==
  /\ sweep.at = "lists" /\ c \in sweep.todo
  /\ sweep' = [at |-> "locks", todo |-> sweep.todo \ {c}, card |-> c]
  /\ UNCHANGED <<logs, age, writer, logFiles>>

LockSweep ==
  /\ sweep.at = "locks"
  /\ logFiles = {}
  /\ logFiles' = {Sweeper}
  /\ SweepAt("stats")
  /\ UNCHANGED <<logs, age, writer>>

\* removeIfOlder.
IsOld(c) == c \in logs /\ age[c] = LogRetention

Stat ==
  /\ sweep.at = "stats"
  /\ IF IsOld(sweep.card) THEN SweepAt("removes") /\ UNCHANGED logFiles
                          ELSE SweepAt("lists") /\ logFiles' = {}
  /\ UNCHANGED <<logs, age, writer>>

RemoveLog ==
  /\ sweep.at = "removes"
  /\ logs' = logs \ {sweep.card}
  /\ age' = [age EXCEPT ![sweep.card] = 0]
  /\ writer' = [writer EXCEPT ![sweep.card].own = FALSE]
  /\ logFiles' = {}
  /\ SweepAt("lists")

\* All are done, or an error ends this sweep.
SweepEnds ==
  /\ sweep.at # "off"
  /\ sweep' = [at |-> "off", todo |-> {}, card |-> Nothing]
  /\ logFiles' = logFiles \ {Sweeper}
  /\ UNCHANGED <<logs, age, writer>>

-----------------------------------------------------------------------------
(* Time: a turn that is at its deadline ends first. *)

Tick ==
  /\ \A c \in Cards : writer[c].time < TurnEnd
  /\ age' = [c \in Cards |-> IF c \in logs /\ age[c] < LogRetention
                             THEN age[c] + 1 ELSE age[c]]
  /\ writer' = [c \in Cards |-> IF writer[c].at = "off" THEN writer[c]
                                ELSE [writer[c] EXCEPT !.time = @ + 1]]
  /\ UNCHANGED <<logs, sweep, logFiles>>

Turn(c) ==
  StartTurn(c) \/ Lock(c) \/ Open(c) \/ Touch(c) \/ Write(c) \/ RunAgain(c) \/ EndTurn(c)

Next ==
  \/ \E c \in Cards : Turn(c) \/ NextLog(c)
  \/ ListLogs \/ LockSweep \/ Stat \/ RemoveLog \/ SweepEnds \/ Tick

-----------------------------------------------------------------------------
(* Properties *)

\* The log that a turn writes to keeps its name: neither the sweep that listed
\* it before the turn opened it, nor one that comes while the turn writes
\* nothing until its deadline, deletes it (worker.go, openLog, "so that the
\* sweep of the old logs does not delete it before the first write of the
\* turn"; config.go, validate, "at least twice turn_timeout").
OpenLogKept == \A c \in Cards : writer[c].at \in {"opened", "writes"} => writer[c].own
=============================================================================
