------------------------------ MODULE FilesProofs ------------------------------
(***************************************************************************)
(* Proofs about the parts that keep files: the logs and their sweep        *)
(* (Logs), the data directory and its lock (Startup), the config and the   *)
(* cookies (Setup), for any cards, processes, people and accounts.         *)
(***************************************************************************)
EXTENDS Parts, TLAPS

-----------------------------------------------------------------------------
(* Logs: the log of a running turn is not deleted *)

-----------------------------------------------------------------------------
(* The invariant *)

SweepRecord ==
  [at : {"off", "lists", "locks", "stats", "removes"}, todo : SUBSET Cards,
   card : Cards \cup {Lo!Nothing}]

\* The part of TypeOK that the proof needs, with the fields of the sweep.
LogTypes ==
  /\ logs \subseteq Cards
  /\ age \in [Cards -> Lo!Ages]
  /\ writer \in [Cards -> Lo!WriterRecord]
  /\ sweep \in SweepRecord
  /\ sweep.at \in {"locks", "stats", "removes"} => sweep.card \in Cards

\* logFiles is a mutex: who is between its Lock and its Unlock holds it alone.
LogMutex ==
  /\ \A c \in Cards : writer[c].at \in {"locks", "opened"} => logFiles = {c}
  /\ sweep.at \in {"stats", "removes"} => logFiles = {Lo!Sweeper}

\* The file of a turn that writes was touched after the turn started.
Young == \A c \in Cards : writer[c].at = "writes" => age[c] <= writer[c].time

\* The sweep removes no file of a turn that has it open.
RemovesUnused ==
  sweep.at = "removes" => writer[sweep.card].at \notin {"opened", "writes"}

LogInv == LogTypes /\ LogMutex /\ Young /\ RemovesUnused /\ Lo!OpenLogKept

\* What the constants give.
LEMMA LogTimes ==
  /\ Lo!LogRetention \in Nat /\ Lo!TurnEnd \in Nat
  /\ Lo!TurnEnd < Lo!LogRetention
BY LogAssumption DEF Lo!LogRetention, Lo!TurnEnd

LEMMA LogInvInit ==
  ASSUME Lo!Init
  PROVE  LogInv
<1>0. 0 \in Lo!Ages /\ 0 \in 0..Lo!TurnEnd
  BY LogTimes DEF Lo!Ages
<1>1. LogTypes
  BY <1>0 DEF Lo!Init, LogTypes, Lo!WriterRecord, Lo!NoWriter, SweepRecord
<1> QED BY <1>1 DEF Lo!Init, LogInv, LogMutex, Young, RemovesUnused, Lo!OpenLogKept,
                    Lo!NoWriter

-----------------------------------------------------------------------------
(* The steps of a turn *)

LEMMA LogTurnTypes ==
  ASSUME LogInv, NEW c \in Cards, Lo!Turn(c)
  PROVE  LogTypes'
<1>0. 0 \in Lo!Ages /\ 0 \in 0..Lo!TurnEnd
  BY LogTimes DEF Lo!Ages
<1> USE DEF LogInv, LogTypes
<1>1. CASE Lo!StartTurn(c)
  <2>1. [Lo!NoWriter EXCEPT !.at = "starts"] \in Lo!WriterRecord
    BY <1>0 DEF Lo!WriterRecord, Lo!NoWriter
  <2> QED BY <1>1, <2>1 DEF Lo!StartTurn
<1>2. CASE Lo!Lock(c) BY <1>2 DEF Lo!Lock, Lo!WriterRecord
<1>3. CASE Lo!Open(c) BY <1>3 DEF Lo!Open, Lo!WriterRecord
<1>4. CASE Lo!Touch(c) BY <1>0, <1>4 DEF Lo!Touch, Lo!Touched, Lo!WriterRecord
<1>5. CASE Lo!Write(c) BY <1>0, <1>5 DEF Lo!Write
<1>6. CASE Lo!RunAgain(c) BY <1>6 DEF Lo!RunAgain, Lo!WriterRecord
<1>7. CASE Lo!EndTurn(c) BY <1>0, <1>7 DEF Lo!EndTurn, Lo!WriterRecord, Lo!NoWriter
<1> QED BY <1>1, <1>2, <1>3, <1>4, <1>5, <1>6, <1>7 DEF Lo!Turn

LEMMA LogTurnInv ==
  ASSUME LogInv, NEW c \in Cards, Lo!Turn(c)
  PROVE  LogInv'
<1>1. LogTypes'
  BY LogTurnTypes
<1>2. LogMutex'
  <2> USE DEF LogInv, LogTypes, LogMutex
  <2>1. CASE Lo!StartTurn(c) BY <2>1 DEF Lo!StartTurn, Lo!NoWriter
  <2>2. CASE Lo!Lock(c) BY <2>2 DEF Lo!Lock
  <2>3. CASE Lo!Open(c) BY <2>3 DEF Lo!Open
  <2>4. CASE Lo!Touch(c)
    <3>1. logFiles = {c} /\ writer[c].at = "opened" /\ c # Lo!Sweeper
      BY <2>4, LogAssumption DEF Lo!Touch
    <3>2. \A d \in Cards : writer'[d].at \notin {"locks", "opened"}
      BY <2>4, <3>1 DEF Lo!Touch, Lo!WriterRecord
    <3> QED BY <2>4, <3>1, <3>2 DEF Lo!Touch
  <2>5. CASE Lo!Write(c) BY <2>5 DEF Lo!Write
  <2>6. CASE Lo!RunAgain(c) BY <2>6 DEF Lo!RunAgain
  <2>7. CASE Lo!EndTurn(c) BY <2>7, LogAssumption DEF Lo!EndTurn, Lo!NoWriter
  <2> QED BY <2>1, <2>2, <2>3, <2>4, <2>5, <2>6, <2>7 DEF Lo!Turn
<1>3. Young'
  <2> USE LogTimes DEF LogInv, LogTypes, Young, Lo!WriterRecord, Lo!Ages
  <2>1. CASE Lo!StartTurn(c) BY <2>1 DEF Lo!StartTurn, Lo!NoWriter
  <2>2. CASE Lo!Lock(c) BY <2>2 DEF Lo!Lock
  <2>3. CASE Lo!Open(c) BY <2>3 DEF Lo!Open
  <2>4. CASE Lo!Touch(c) BY <2>4 DEF Lo!Touch, Lo!Touched
  <2>5. CASE Lo!Write(c) BY <2>5 DEF Lo!Write
  <2>6. CASE Lo!RunAgain(c) BY <2>6 DEF Lo!RunAgain
  <2>7. CASE Lo!EndTurn(c) BY <2>7 DEF Lo!EndTurn, Lo!NoWriter
  <2> QED BY <2>1, <2>2, <2>3, <2>4, <2>5, <2>6, <2>7 DEF Lo!Turn
<1>4. RemovesUnused'
  <2> USE DEF LogInv, LogTypes, LogMutex, RemovesUnused
  <2>1. CASE Lo!StartTurn(c) BY <2>1 DEF Lo!StartTurn, Lo!NoWriter
  <2>2. CASE Lo!Lock(c) BY <2>2 DEF Lo!Lock
  <2>3. CASE Lo!Open(c) BY <2>3, LogAssumption DEF Lo!Open
  <2>4. CASE Lo!Touch(c) BY <2>4, LogAssumption DEF Lo!Touch
  <2>5. CASE Lo!Write(c) BY <2>5 DEF Lo!Write
  <2>6. CASE Lo!RunAgain(c) BY <2>6 DEF Lo!RunAgain
  <2>7. CASE Lo!EndTurn(c) BY <2>7 DEF Lo!EndTurn, Lo!NoWriter
  <2> QED BY <2>1, <2>2, <2>3, <2>4, <2>5, <2>6, <2>7 DEF Lo!Turn
<1>5. Lo!OpenLogKept'
  <2> USE DEF LogInv, LogTypes, Lo!OpenLogKept
  <2>1. CASE Lo!StartTurn(c) BY <2>1 DEF Lo!StartTurn, Lo!NoWriter
  <2>2. CASE Lo!Lock(c) BY <2>2 DEF Lo!Lock
  <2>3. CASE Lo!Open(c) BY <2>3 DEF Lo!Open
  <2>4. CASE Lo!Touch(c) BY <2>4 DEF Lo!Touch
  <2>5. CASE Lo!Write(c) BY <2>5 DEF Lo!Write
  <2>6. CASE Lo!RunAgain(c) BY <2>6 DEF Lo!RunAgain
  <2>7. CASE Lo!EndTurn(c) BY <2>7 DEF Lo!EndTurn, Lo!NoWriter
  <2> QED BY <2>1, <2>2, <2>3, <2>4, <2>5, <2>6, <2>7 DEF Lo!Turn
<1> QED BY <1>1, <1>2, <1>3, <1>4, <1>5 DEF LogInv

-----------------------------------------------------------------------------
(* The steps of the sweep, and time *)

\* A file that is old enough has no turn: the turn that touched it is over.
LEMMA OldIsUnused ==
  ASSUME LogInv, sweep.at = "stats", Lo!IsOld(sweep.card)
  PROVE  writer[sweep.card].at \notin {"opened", "writes"}
<1> DEFINE c == sweep.card
<1>1. c \in Cards /\ age[c] = Lo!LogRetention /\ writer[c] \in Lo!WriterRecord
  BY DEF LogInv, LogTypes, Lo!IsOld
<1>2. writer[c].at # "opened"
  BY <1>1, LogAssumption DEF LogInv, LogMutex
<1>3. writer[c].at # "writes"
  BY <1>1, LogTimes DEF LogInv, Young, Lo!WriterRecord
<1> QED BY <1>2, <1>3

SweepStep ==
  \/ \E c \in Cards : Lo!NextLog(c)
  \/ Lo!ListLogs \/ Lo!LockSweep \/ Lo!Stat \/ Lo!RemoveLog \/ Lo!SweepEnds

LEMMA SweepInv ==
  ASSUME LogInv, SweepStep
  PROVE  LogInv'
<1> USE DEF LogInv
<1>1. ASSUME NEW c \in Cards, Lo!NextLog(c) PROVE LogInv'
  BY <1>1 DEF Lo!NextLog, LogTypes, SweepRecord, LogMutex, Young, RemovesUnused,
              Lo!OpenLogKept
<1>2. CASE Lo!ListLogs
  <2>1. LogTypes' BY <1>2 DEF Lo!ListLogs, LogTypes, SweepRecord
  <2> QED BY <1>2, <2>1 DEF Lo!ListLogs, LogMutex, Young, RemovesUnused, Lo!OpenLogKept
<1>3. CASE Lo!LockSweep
  <2>1. LogTypes' BY <1>3 DEF Lo!LockSweep, Lo!SweepAt, LogTypes, SweepRecord
  <2> QED BY <1>3, <2>1
      DEF Lo!LockSweep, Lo!SweepAt, LogTypes, SweepRecord, LogMutex, Young,
          RemovesUnused, Lo!OpenLogKept
<1>4. CASE Lo!Stat
  <2>1. CASE Lo!IsOld(sweep.card)
    <3>1. writer[sweep.card].at \notin {"opened", "writes"}
      BY <1>4, <2>1, OldIsUnused DEF Lo!Stat
    <3> QED BY <1>4, <2>1, <3>1
        DEF Lo!Stat, Lo!SweepAt, LogTypes, SweepRecord, LogMutex, Young, RemovesUnused,
            Lo!OpenLogKept
  <2>2. CASE ~Lo!IsOld(sweep.card)
    <3>1. \A c \in Cards : writer[c].at \notin {"locks", "opened"}
      BY <1>4, LogAssumption DEF Lo!Stat, LogMutex
    <3> QED BY <1>4, <2>2, <3>1
        DEF Lo!Stat, Lo!SweepAt, LogTypes, SweepRecord, LogMutex, Young, RemovesUnused,
            Lo!OpenLogKept
  <2> QED BY <2>1, <2>2
<1>5. CASE Lo!RemoveLog
  <2> DEFINE c == sweep.card
  <2>1. c \in Cards /\ writer[c].at \notin {"opened", "writes"}
    BY <1>5 DEF Lo!RemoveLog, LogTypes, RemovesUnused
  <2>2. \A d \in Cards : writer[d].at \notin {"locks", "opened"}
    BY <1>5, LogAssumption DEF Lo!RemoveLog, LogMutex
  <2>3. \A d \in Cards : writer'[d].at = writer[d].at /\ writer'[d].time = writer[d].time
    BY <1>5 DEF Lo!RemoveLog, LogTypes, Lo!WriterRecord
  <2>4. \A d \in Cards : d # c => writer'[d] = writer[d] /\ age'[d] = age[d]
    BY <1>5 DEF Lo!RemoveLog, LogTypes
  <2>5. LogTypes'
    <3>1. 0 \in Lo!Ages
      BY LogTimes DEF Lo!Ages
    <3> QED BY <1>5, <3>1 DEF Lo!RemoveLog, Lo!SweepAt, LogTypes, SweepRecord,
                              Lo!WriterRecord
  <2>6. LogMutex' /\ RemovesUnused'
    BY <1>5, <2>2, <2>3 DEF Lo!RemoveLog, Lo!SweepAt, LogTypes, SweepRecord, LogMutex,
                            RemovesUnused
  <2>7. Young' /\ Lo!OpenLogKept'
    BY <2>1, <2>3, <2>4 DEF Young, Lo!OpenLogKept
  <2> QED BY <2>5, <2>6, <2>7
<1>6. CASE Lo!SweepEnds
  <2>1. LogTypes' BY <1>6 DEF Lo!SweepEnds, LogTypes, SweepRecord
  <2> QED BY <1>6, <2>1, LogAssumption
      DEF Lo!SweepEnds, LogMutex, Young, RemovesUnused, Lo!OpenLogKept
<1> QED BY <1>1, <1>2, <1>3, <1>4, <1>5, <1>6 DEF SweepStep

LEMMA LogTickInv ==
  ASSUME LogInv, Lo!Tick
  PROVE  LogInv'
<1> USE LogTimes DEF LogInv, Lo!Tick
<1>1. ASSUME NEW c \in Cards
      PROVE  /\ age[c] \in Nat /\ age[c] <= Lo!LogRetention
             /\ writer[c] \in Lo!WriterRecord /\ writer[c].time \in Nat
             /\ writer[c].time < Lo!TurnEnd
             /\ writer'[c].at = writer[c].at /\ writer'[c].own = writer[c].own
             /\ writer'[c].time = IF writer[c].at = "off" THEN writer[c].time
                                                          ELSE writer[c].time + 1
             /\ age'[c] \in {age[c], age[c] + 1} \cap Lo!Ages
  BY DEF LogTypes, Lo!WriterRecord, Lo!Ages
<1>2. LogTypes'
  BY <1>1 DEF LogTypes, Lo!WriterRecord, Lo!Ages
<1>3. Young'
  BY <1>1 DEF Young
<1>4. LogMutex' /\ Lo!OpenLogKept'
  BY <1>1 DEF LogMutex, Lo!OpenLogKept
<1>5. RemovesUnused'
  BY <1>1 DEF LogTypes, RemovesUnused
<1> QED BY <1>2, <1>3, <1>4, <1>5

LEMMA LogNextInv ==
  ASSUME LogInv, [Lo!Next]_logVars
  PROVE  LogInv'
<1>1. CASE UNCHANGED logVars
  BY <1>1 DEF LogInv, LogTypes, LogMutex, Young, RemovesUnused, Lo!OpenLogKept, logVars
<1>2. CASE \E c \in Cards : Lo!Turn(c)
  BY <1>2, LogTurnInv
<1>3. CASE SweepStep
  BY <1>3, SweepInv
<1>4. CASE Lo!Tick
  BY <1>4, LogTickInv
<1> QED BY <1>1, <1>2, <1>3, <1>4 DEF Lo!Next, SweepStep

LEMMA LogAlways == PartsSpec => []LogInv
<1>1. PartsInit => LogInv
  BY LogInvInit DEF PartsInit
<1>2. LogInv /\ [PartsNext]_partsVars => LogInv'
  BY LogNextInv DEF PartsNext, partsVars
<1> QED BY <1>1, <1>2, PTL DEF PartsSpec

\* The log that a turn writes to is never deleted by the sweep, for any number
\* of cards and each retention of at least two turns: the turn touches the file
\* under the mutex when it opens it, and is over before the file is old
\* (openLog of worker.go, removeIfOlder of logs.go, validate of config.go).
THEOREM NoOpenLogSwept == PartsSpec => []OpenLogKept
<1>1. LogInv => OpenLogKept
  BY DEF LogInv, OpenLogKept
<1> QED BY <1>1, LogAlways, PTL

-----------------------------------------------------------------------------
(* Startup: its socket is its own, and it has its state *)

-----------------------------------------------------------------------------
(* The invariant *)

\* The part of TypeOK that the proof needs.
CmdTypes ==
  /\ place \in [St!Things -> St!Places]
  /\ mark \in {"none", "cut", "whole"}
  /\ cmd \in [Commands -> St!CmdRecord]

\* From the lock to the end of the process nobody else has the lock.
Locked ==
  \A p \in Commands :
    cmd[p].at \in {"unlink", "bind", "serving", "closed"} => lock = {p}

\* Where the files can be.  The previous layout is moved in one rename, and
\* no other files are there then.  The move of the old one goes through the
\* temporary directory.
Layouts ==
  /\ (\E t \in St!Things : place[t] = "previous") =>
       ~hasStaging /\ \A t \in St!Things : place[t] \in {"previous", "none"}
  /\ (\E t \in St!Things : place[t] = "staging") => hasStaging
  /\ hasData => place["cards"] # "previous"

\* With the cards, all the other files have arrived.
Settled == place["cards"] # "none" => \A t \in St!Things : place[t] \in {"data", "none"}

Arrived == place["cards"] = "data" => Settled

\* What a command did before the step where it is.
Past(p) ==
  /\ cmd[p].at \in {"migrate", "move", "make"} => place["cards"] # "previous"
  /\ cmd[p].at = "move" =>
       /\ hasStaging
       /\ \A k \in DOMAIN St!Moved : k < cmd[p].next => place[St!Moved[k]] # "old"
  /\ cmd[p].at \notin {"off", "begin", "migrate", "move"} => Settled

Prepared == \A p \in Commands : Past(p)

\* One command at a time prepares the directory.
OnePrepares ==
  \A p, q \in Commands : cmd[p].at \in St!Preparing /\ cmd[q].at \in St!Preparing => p = q

StartupInv ==
  /\ CmdTypes /\ Locked /\ Layouts /\ Arrived
  /\ Prepared /\ OnePrepares /\ St!SocketIsOwn

LEMMA ThingsAre ==
  /\ St!Things = {"cards", "logs", "session_token"}
  /\ DOMAIN St!Moved = 1..3 /\ Len(St!Moved) = 3
  /\ St!Moved[1] = "cards" /\ St!Moved[2] = "logs" /\ St!Moved[3] = "session_token"
BY DEF St!Things, St!Moved

LEMMA StartupInit ==
  ASSUME St!Init
  PROVE  StartupInv
<1>1. St!Off \in St!CmdRecord /\ St!Off.at = "off"
  BY ThingsAre DEF St!Off, St!CmdRecord, St!Preparing
<1>2. CmdTypes
  BY <1>1 DEF St!Init, CmdTypes, St!Places
<1> QED BY <1>1, <1>2, ThingsAre
      DEF St!Init, StartupInv, Locked, Layouts, Arrived, Settled, Prepared, Past,
          OnePrepares, St!SocketIsOwn, St!Preparing

-----------------------------------------------------------------------------
(* What a step does to the commands *)

\* The record of command p is the only one that changes, and it is at one of the
\* steps in S then.
Only(p, S) ==
  /\ cmd' \in [Commands -> St!CmdRecord]
  /\ \A q \in Commands \ {p} : cmd'[q] = cmd[q]
  /\ cmd'[p].at \in S

Steps ==
  St!Preparing \cup {"off", "identify", "listen", "unlink", "bind", "serving", "closed"}

LEMMA GotoOnly ==
  ASSUME CmdTypes, NEW p \in Commands, NEW at \in Steps, St!Goto(p, at)
  PROVE  Only(p, {at})
BY DEF CmdTypes, St!Goto, Only, Steps, St!CmdRecord

LEMMA FailOnly ==
  ASSUME CmdTypes, NEW p \in Commands, St!Fail(p)
  PROVE  Only(p, {"off"})
<1>1. St!Off \in St!CmdRecord /\ St!Off.at = "off"
  BY ThingsAre DEF St!Off, St!CmdRecord, St!Preparing
<1> QED BY <1>1 DEF CmdTypes, St!Fail, Only

LEMMA AfterPrepareOnly ==
  ASSUME CmdTypes, NEW p \in Commands, St!AfterPrepare(p)
  PROVE  Only(p, {"off", "begin", "identify"})
<1>1. CASE St!Fail(p)
  BY <1>1, FailOnly DEF Only
<1>2. CASE ~St!Fail(p)
  <2> DEFINE at == IF cmd[p].second THEN "identify" ELSE "begin"
  <2>1. at \in {"begin", "identify"}
    OBVIOUS
  <2>2. cmd' = [cmd EXCEPT ![p].at = at, ![p].second = TRUE]
    BY <1>2 DEF St!AfterPrepare
  <2> HIDE DEF at
  <2>3. /\ cmd[p] \in St!CmdRecord
        /\ [cmd[p] EXCEPT !.at = at, !.second = TRUE] \in St!CmdRecord
    BY <2>1 DEF CmdTypes, St!CmdRecord, St!Preparing
  <2>4. cmd' = [cmd EXCEPT ![p] = [cmd[p] EXCEPT !.at = at, !.second = TRUE]]
    BY <2>2 DEF CmdTypes
  <2> QED BY <2>1, <2>3, <2>4 DEF CmdTypes, Only, St!CmdRecord
<1> QED BY <1>1, <1>2

\* The steps of PrepareDataDir.
PrepareStep(p) ==
  \/ St!Start(p) \/ St!RenamePrevious(p) \/ St!NothingToMove(p) \/ St!BeginMove(p)
  \/ St!MoveNext(p)
  \/ St!FinishMove(p) \/ St!MakeDir(p) \/ St!CheckIdentity(p) \/ St!WriteIdentity(p)

\* The steps of a command, by where they lead.
LEMMA StartGoes ==
  ASSUME CmdTypes, NEW p \in Commands, St!Start(p)
  PROVE  Only(p, {"begin"})
BY GotoOnly DEF St!Start, Steps, St!Preparing

LEMMA MoveGoes ==
  ASSUME CmdTypes, NEW p \in Commands
  PROVE  /\ St!RenamePrevious(p) => Only(p, {"migrate"})
         /\ St!BeginMove(p) => Only(p, {"off", "move"})
         /\ St!MoveNext(p) => Only(p, {"move"})
         /\ St!FinishMove(p) => Only(p, {"off", "make"})
<1>1. St!RenamePrevious(p) => Only(p, {"migrate"})
  BY GotoOnly DEF St!RenamePrevious, Steps, St!Preparing
<1>2. ASSUME St!BeginMove(p) PROVE Only(p, {"off", "move"})
  <2>1. CASE St!Fail(p)
    BY <2>1, FailOnly DEF Only
  <2>2. CASE ~St!Fail(p)
    <3>1. cmd' = [cmd EXCEPT ![p].at = "move", ![p].next = 1]
      BY <1>2, <2>2 DEF St!BeginMove
    <3>2. cmd[p] \in St!CmdRecord
          /\ [cmd[p] EXCEPT !.at = "move", !.next = 1] \in St!CmdRecord
      <4>1. 1 \in 1..Len(St!Moved) + 1
        BY ThingsAre
      <4> QED BY <4>1 DEF CmdTypes, St!CmdRecord, St!Preparing
    <3>3. cmd' = [cmd EXCEPT ![p] = [cmd[p] EXCEPT !.at = "move", !.next = 1]]
      BY <3>1 DEF CmdTypes
    <3> QED BY <3>2, <3>3 DEF CmdTypes, Only, St!CmdRecord
  <2> QED BY <2>1, <2>2
<1>3. ASSUME St!MoveNext(p) PROVE Only(p, {"move"})
  <2>1. cmd[p].next + 1 \in 1..Len(St!Moved) + 1
    BY <1>3, ThingsAre DEF St!MoveNext, CmdTypes, St!CmdRecord
  <2> QED BY <1>3, <2>1 DEF St!MoveNext, CmdTypes, Only, St!CmdRecord
<1>4. ASSUME St!FinishMove(p) PROVE Only(p, {"off", "make"})
  <2>1. St!Fail(p) \/ St!Goto(p, "make")
    BY <1>4 DEF St!FinishMove
  <2> QED BY <2>1, FailOnly, GotoOnly DEF Only, Steps, St!Preparing
<1> QED BY <1>1, <1>2, <1>3, <1>4

LEMMA PrepareGoes ==
  ASSUME CmdTypes, NEW p \in Commands
  PROVE  /\ St!NothingToMove(p) => Only(p, {"make"})
         /\ St!MakeDir(p) => Only(p, {"identity"})
         /\ St!CheckIdentity(p) => Only(p, {"off", "begin", "identify", "fill"})
         /\ St!WriteIdentity(p) => Only(p, {"off", "begin", "identify"})
<1>1. St!NothingToMove(p) => Only(p, {"make"})
  BY GotoOnly DEF St!NothingToMove, Steps, St!Preparing
<1>2. St!MakeDir(p) => Only(p, {"identity"})
  BY GotoOnly DEF St!MakeDir, Steps, St!Preparing
<1>3. ASSUME St!CheckIdentity(p) PROVE Only(p, {"off", "begin", "identify", "fill"})
  <2>1. St!AfterPrepare(p) \/ St!Fail(p) \/ St!Goto(p, "fill")
    BY <1>3 DEF St!CheckIdentity, CmdTypes
  <2>2. St!AfterPrepare(p) => Only(p, {"off", "begin", "identify"})
    BY AfterPrepareOnly
  <2>3. St!Fail(p) => Only(p, {"off"})
    BY FailOnly
  <2>4. St!Goto(p, "fill") => Only(p, {"fill"})
    BY GotoOnly DEF Steps, St!Preparing
  <2> QED BY <2>1, <2>2, <2>3, <2>4 DEF Only
<1>4. St!WriteIdentity(p) => Only(p, {"off", "begin", "identify"})
  BY AfterPrepareOnly DEF St!WriteIdentity
<1> QED BY <1>1, <1>2, <1>3, <1>4

LEMMA ServeGoes ==
  ASSUME CmdTypes, NEW p \in Commands
  PROVE  /\ St!Identify(p) => Only(p, {"off", "listen"})
         /\ St!TakeLock(p) => Only(p, {"off", "unlink"})
         /\ St!Unlink(p) => Only(p, {"bind"})
         /\ St!Bind(p) => Only(p, {"off", "serving"})
         /\ St!Close(p) => Only(p, {"closed"})
         /\ St!Exit(p) \/ St!Crash(p) => Only(p, {"off"})
<1> USE FailOnly, GotoOnly DEF Steps
<1>1. St!Identify(p) => Only(p, {"off", "listen"}) BY DEF St!Identify, Only
<1>2. St!TakeLock(p) => Only(p, {"off", "unlink"}) BY DEF St!TakeLock, Only
<1>3. St!Unlink(p) => Only(p, {"bind"}) BY DEF St!Unlink
<1>4. St!Bind(p) => Only(p, {"off", "serving"}) BY DEF St!Bind, Only
<1>5. St!Close(p) => Only(p, {"closed"}) BY DEF St!Close
<1>6. St!Exit(p) \/ St!Crash(p) => Only(p, {"off"}) BY DEF St!Exit, St!Crash,
                                                           St!ProcessEnds
<1> QED BY <1>1, <1>2, <1>3, <1>4, <1>5, <1>6

\* The step of a command changes its own record only.
LEMMA OwnRecord ==
  ASSUME CmdTypes, NEW p \in Commands, St!Step(p)
  PROVE  /\ cmd' \in [Commands -> St!CmdRecord]
         /\ \A q \in Commands \ {p} : cmd'[q] = cmd[q]
BY StartGoes, MoveGoes, PrepareGoes, ServeGoes DEF St!Step, Only

LEMMA MarkType ==
  ASSUME CmdTypes, NEW p \in Commands, St!Step(p)
  PROVE  mark' \in {"none", "cut", "whole"}
<1>1. CASE St!FinishMove(p)
  BY <1>1 DEF St!FinishMove, CmdTypes, St!dirs
<1>2. CASE St!CheckIdentity(p)
  BY <1>2 DEF St!CheckIdentity, CmdTypes
<1>3. CASE ~St!FinishMove(p) /\ ~St!CheckIdentity(p)
  BY <1>3 DEF St!Step, CmdTypes, St!Start, St!RenamePrevious, St!NothingToMove,
              St!BeginMove, St!MoveNext, St!MakeDir, St!WriteIdentity, St!Identify,
              St!TakeLock, St!Unlink, St!Bind, St!Close, St!Exit, St!Crash,
              St!ProcessEnds, St!dirs
<1> QED BY <1>1, <1>2, <1>3

\* PrepareDataDir leaves the lock and the socket alone, and ends before the lock.
LEMMA PrepareLeavesLock ==
  ASSUME CmdTypes, NEW p \in Commands, PrepareStep(p)
  PROVE  /\ UNCHANGED <<lock, socket>>
         /\ cmd'[p].at \in St!Preparing \cup {"off", "identify"}
<1>1. UNCHANGED <<lock, socket>>
  BY DEF PrepareStep, St!Start, St!RenamePrevious, St!NothingToMove, St!BeginMove,
         St!MoveNext, St!FinishMove, St!MakeDir, St!CheckIdentity, St!WriteIdentity
<1>2. cmd'[p].at \in St!Preparing \cup {"off", "identify"}
  BY StartGoes, MoveGoes, PrepareGoes DEF PrepareStep, Only, St!Preparing
<1> QED BY <1>1, <1>2

-----------------------------------------------------------------------------
(* The lock and the socket *)

LEMMA LockInv ==
  ASSUME StartupInv, NEW p \in Commands, St!Step(p)
  PROVE  Locked' /\ St!SocketIsOwn'
<1> USE DEF StartupInv
<1>1. \A q \in Commands \ {p} : cmd'[q] = cmd[q]
  BY OwnRecord
<1>2. CASE PrepareStep(p)
  BY <1>1, <1>2, PrepareLeavesLock DEF Locked, St!SocketIsOwn, St!Preparing
<1>3. CASE St!Identify(p)
  <2>1. cmd'[p].at \in {"listen", "off"} /\ UNCHANGED <<lock, socket>>
    BY <1>3, ServeGoes DEF St!Identify, Only
  <2> QED BY <1>1, <2>1 DEF Locked, St!SocketIsOwn
<1>4. CASE St!TakeLock(p)
  <2>1. CASE lock = {}
    <3>1. lock' = {p} /\ cmd'[p].at = "unlink" /\ UNCHANGED socket
      BY <1>4, <2>1, GotoOnly DEF St!TakeLock, Only, Steps
    <3> QED BY <1>1, <2>1, <3>1 DEF Locked, St!SocketIsOwn
  <2>2. CASE lock # {}
    <3>1. cmd'[p].at = "off" /\ UNCHANGED <<lock, socket>>
      BY <1>4, <2>2, FailOnly DEF St!TakeLock, Only
    <3> QED BY <1>1, <3>1 DEF Locked, St!SocketIsOwn
  <2> QED BY <2>1, <2>2
<1>5. CASE St!Unlink(p)
  <2>1. lock = {p} /\ cmd'[p].at = "bind" /\ UNCHANGED lock
    BY <1>5, ServeGoes DEF St!Unlink, Only, Locked
  <2> QED BY <1>1, <2>1 DEF Locked, St!SocketIsOwn
<1>6. CASE St!Bind(p)
  <2>1. lock = {p}
    BY <1>6 DEF St!Bind, Locked
  <2>2. \/ socket' = {p} /\ lock' = lock /\ cmd'[p].at = "serving"
        \/ UNCHANGED socket /\ lock' = {} /\ cmd'[p].at = "off"
    <3>1. CASE socket = {}
      BY <1>6, <3>1, GotoOnly DEF St!Bind, St!LockKept, Only, Steps
    <3>2. CASE socket # {}
      BY <1>6, <2>1, <3>2, FailOnly DEF St!Bind, Only
    <3> QED BY <3>1, <3>2
  <2> QED BY <1>1, <2>1, <2>2 DEF Locked, St!SocketIsOwn
<1>7. CASE St!Close(p)
  <2>1. lock = {p} /\ cmd'[p].at = "closed" /\ UNCHANGED lock
    BY <1>7, ServeGoes DEF St!Close, Only, Locked
  <2> QED BY <1>1, <2>1 DEF Locked, St!SocketIsOwn
<1>8. CASE St!Exit(p) \/ St!Crash(p)
  <2>1. cmd'[p].at = "off" /\ lock' = lock \ {p} /\ UNCHANGED socket
    BY <1>8, ServeGoes DEF St!Exit, St!Crash, St!ProcessEnds, Only
  <2> QED BY <1>1, <2>1 DEF Locked, St!SocketIsOwn
<1> QED BY <1>2, <1>3, <1>4, <1>5, <1>6, <1>7, <1>8 DEF St!Step, PrepareStep

-----------------------------------------------------------------------------
(* The directories *)

\* The steps that change them.
DirStep(p) ==
  \/ St!RenamePrevious(p) \/ St!BeginMove(p) \/ St!MoveNext(p)
  \/ St!FinishMove(p) \/ St!MakeDir(p)

\* The files after such a step, and what the command may count on.
LEMMA DirInv ==
  ASSUME StartupInv, NEW p \in Commands, DirStep(p)
  PROVE  /\ place' \in [St!Things -> St!Places]
         /\ Layouts' /\ Arrived' /\ Past(p)'
         /\ Settled => Settled'
<1> USE ThingsAre DEF StartupInv, CmdTypes
<1>0. Past(p) /\ place["cards"] \in St!Places
  BY DEF Prepared
<1>1. CASE St!RenamePrevious(p)
  <2>1. CASE ~hasData /\ place["cards"] = "previous"
    <3>1. \A t \in St!Things : place[t] \in {"previous", "none"}
      BY <2>1 DEF Layouts
    <3>2. /\ place' \in [St!Things -> St!Places] /\ place'["cards"] = "data"
          /\ \A t \in St!Things : place'[t] \in {"data", "none"}
      BY <1>1, <2>1, <3>1 DEF St!RenamePrevious, St!AllFrom, St!Places
    <3> QED BY <1>1, <3>2 DEF St!RenamePrevious, St!Goto, Layouts, Arrived, Settled,
                              Past
  <2>2. CASE ~(~hasData /\ place["cards"] = "previous")
    <3>1. UNCHANGED <<place, hasStaging, hasData>> /\ cmd'[p].at = "migrate"
      BY <1>1, <2>2 DEF St!RenamePrevious, St!Goto
    <3>2. place["cards"] # "previous"
      BY <2>2 DEF Layouts
    <3> QED BY <3>1, <3>2 DEF Layouts, Arrived, Settled, Past
  <2> QED BY <2>1, <2>2
<1>2. CASE St!BeginMove(p)
  <2>1. UNCHANGED <<place, hasData>>
    BY <1>2 DEF St!BeginMove
  <2>2. CASE ~hasStaging /\ (otherMark \/ mark # "none")
    BY <1>2, <2>1, <2>2 DEF St!BeginMove, St!Fail, St!Off, Layouts, Arrived, Settled,
                            Past
  <2>3. CASE ~(~hasStaging /\ (otherMark \/ mark # "none"))
    <3>1. hasStaging' /\ cmd'[p].at = "move" /\ cmd'[p].next = 1
      BY <1>2, <2>3 DEF St!BeginMove, St!CmdRecord
    <3>2. \A t \in St!Things : place[t] # "previous"
      BY <1>2 DEF St!BeginMove, St!ToMove, Layouts
    <3> QED BY <2>1, <3>1, <3>2 DEF Layouts, Arrived, Settled, Past
  <2> QED BY <2>2, <2>3
<1>3. CASE St!MoveNext(p)
  <2> DEFINE n == cmd[p].next
             x == St!Moved[n]
  <2>1. n \in 1..3 /\ x \in St!Things /\ hasStaging /\ hasStaging' /\ UNCHANGED hasData
    BY <1>0, <1>3 DEF St!MoveNext, St!CmdRecord, Past
  <2>2. place' = [place EXCEPT ![x] = IF place[x] = "old" THEN "staging" ELSE place[x]]
    BY <1>3 DEF St!MoveNext
  <2>3. /\ place' \in [St!Things -> St!Places]
        /\ \A t \in St!Things :
             place'[t] = place[t] \/ (place[t] = "old" /\ place'[t] = "staging")
        /\ place'[x] # "old"
    BY <2>1, <2>2 DEF St!Places
  <2>4. cmd'[p].at = "move" /\ cmd'[p].next = n + 1
    BY <1>3 DEF St!MoveNext, St!CmdRecord
  <2>5. \A t \in St!Things : place'[t] # "previous"
    BY <2>1, <2>3 DEF Layouts
  <2>6. \A k \in 1..3 : k < n + 1 => place'[St!Moved[k]] # "old"
    <3> SUFFICES ASSUME NEW k \in 1..3, k < n + 1 PROVE place'[St!Moved[k]] # "old"
      OBVIOUS
    <3>1. CASE k = n
      BY <2>3, <3>1
    <3>2. CASE k < n
      BY <1>0, <1>3, <2>3, <3>2 DEF Past, St!MoveNext
    <3> QED BY <2>1, <3>1, <3>2
  <2>7. Settled => Settled'
    BY <2>3 DEF Settled
  <2>8. Arrived'
    BY <2>3, <2>7 DEF Arrived
  <2>9. Layouts'
    BY <2>1, <2>5 DEF Layouts
  <2>10. Past(p)'
    BY <2>1, <2>4, <2>5, <2>6 DEF Past
  <2> QED BY <2>3, <2>7, <2>8, <2>9, <2>10
<1>4. CASE St!FinishMove(p)
  <2>1. CASE hasData
    <3>1. UNCHANGED <<place, hasStaging, hasData>> /\ cmd'[p].at = "off"
      BY <1>4, <2>1, FailOnly DEF St!FinishMove, St!dirs, Only
    <3> QED BY <3>1 DEF Layouts, Arrived, Settled, Past
  <2>2. CASE ~hasData
    <3>1. hasStaging /\ \A t \in St!Things : place[t] \notin {"old", "previous"}
      <4>1. cmd[p].next > 3
        BY <1>4 DEF St!FinishMove
      <4>2. \A k \in 1..3 : place[St!Moved[k]] # "old"
        BY <1>0, <1>4, <4>1 DEF St!FinishMove, Past, St!CmdRecord
      <4> QED BY <1>0, <1>4, <4>2 DEF St!FinishMove, Past, Layouts
    <3>2. /\ place' \in [St!Things -> St!Places]
          /\ \A t \in St!Things : place'[t] \in {"data", "none"}
      BY <1>4, <2>2, <3>1 DEF St!FinishMove, St!AllFrom, St!Places
    <3>3. ~hasStaging' /\ cmd'[p].at = "make"
      BY <1>4, <2>2, GotoOnly DEF St!FinishMove, Only, Steps, St!Preparing
    <3> QED BY <3>2, <3>3 DEF Layouts, Arrived, Settled, Past
  <2> QED BY <2>1, <2>2
<1>5. CASE St!MakeDir(p)
  <2>1. UNCHANGED <<place, hasStaging>> /\ cmd'[p].at = "identity"
    BY <1>5 DEF St!MakeDir, St!Goto
  <2>2. Settled /\ place["cards"] # "previous"
    BY <1>0, <1>5 DEF St!MakeDir, Past
  <2> QED BY <2>1, <2>2 DEF Layouts, Arrived, Settled, Past
<1> QED BY <1>1, <1>2, <1>3, <1>4, <1>5 DEF DirStep

\* The other steps leave the files where they are.
LEMMA StayInv ==
  ASSUME StartupInv, NEW p \in Commands, St!Step(p), ~DirStep(p)
  PROVE  UNCHANGED <<place, hasStaging, hasData>> /\ Past(p)'
<1>1. UNCHANGED <<place, hasStaging, hasData>>
  BY DEF DirStep, St!Step, St!Start, St!NothingToMove, St!CheckIdentity,
         St!WriteIdentity, St!Identify, St!TakeLock, St!Unlink, St!Bind, St!Close,
         St!Exit, St!Crash, St!ProcessEnds, St!dirs
<1>2. Past(p) /\ cmd[p] \in St!CmdRecord /\ cmd \in [Commands -> St!CmdRecord]
  BY DEF StartupInv, CmdTypes, Prepared
<1>3. \/ cmd'[p].at \in {"off", "begin"}
      \/ cmd[p].at = "migrate" /\ ~St!ToMove /\ cmd'[p].at = "make"
      \/ /\ cmd[p].at \notin {"off", "begin", "migrate", "move", "make"}
         /\ cmd'[p].at \notin {"off", "begin", "migrate", "move", "make"}
  <2>1. CASE St!Start(p) BY <2>1, <1>2, StartGoes DEF StartupInv, Only
  <2>2. CASE St!NothingToMove(p) BY <2>2, PrepareGoes DEF StartupInv, St!NothingToMove,
                                                          Only
  <2>3. CASE St!CheckIdentity(p) BY <2>3, PrepareGoes DEF StartupInv, St!CheckIdentity,
                                                          Only
  <2>4. CASE St!WriteIdentity(p) BY <2>4, PrepareGoes DEF StartupInv, St!WriteIdentity,
                                                          Only
  <2>5. CASE St!Identify(p) \/ St!TakeLock(p) \/ St!Unlink(p) \/ St!Bind(p) \/ St!Close(p)
    BY <2>5, ServeGoes DEF StartupInv, St!Identify, St!TakeLock, St!Unlink, St!Bind,
                           St!Close, Only
  <2>6. CASE St!Exit(p) \/ St!Crash(p) BY <2>6, ServeGoes DEF StartupInv, Only
  <2> QED BY <2>1, <2>2, <2>3, <2>4, <2>5, <2>6 DEF St!Step, DirStep
<1>4. Settled' <=> Settled
  BY <1>1 DEF Settled
<1>5. CASE cmd[p].at = "migrate" /\ ~St!ToMove /\ cmd'[p].at = "make"
  <2>1. place["cards"] \notin {"previous", "staging", "old"}
    BY <1>2, <1>5, ThingsAre DEF StartupInv, Layouts, Past, St!ToMove
  <2>2. Settled
    BY <1>5, <2>1, ThingsAre DEF StartupInv, CmdTypes, St!Places, Arrived, Settled
  <2> QED BY <1>1, <1>4, <1>5, <2>1, <2>2 DEF Past
<1> QED BY <1>1, <1>2, <1>3, <1>4, <1>5 DEF Past

\* Only a start begins to prepare, and it looks at the other commands.
LEMMA OnePreparesInv ==
  ASSUME StartupInv, NEW p \in Commands, St!Step(p)
  PROVE  OnePrepares'
<1>1. \A q \in Commands \ {p} : cmd'[q] = cmd[q]
  BY OwnRecord DEF StartupInv
<1>2. cmd'[p].at \in St!Preparing =>
        cmd[p].at \in St!Preparing \/ \A q \in Commands : cmd[q].at \notin St!Preparing
  <2>1. CASE St!Start(p) BY <2>1 DEF St!Start
  <2>2. CASE PrepareStep(p) /\ ~St!Start(p)
    BY <2>2 DEF PrepareStep, St!RenamePrevious, St!NothingToMove, St!BeginMove,
                St!MoveNext, St!FinishMove, St!MakeDir, St!CheckIdentity,
                St!WriteIdentity, St!Preparing
  <2>3. CASE ~PrepareStep(p)
    BY <2>3, ServeGoes DEF StartupInv, St!Step, PrepareStep, Only, St!Preparing
  <2> QED BY <2>1, <2>2, <2>3
<1> QED BY <1>1, <1>2 DEF StartupInv, OnePrepares

LEMMA CommandInv ==
  ASSUME StartupInv, NEW p \in Commands, St!Step(p)
  PROVE  StartupInv'
<1>1. cmd' \in [Commands -> St!CmdRecord] /\ \A q \in Commands \ {p} : cmd'[q] = cmd[q]
  BY OwnRecord DEF StartupInv
<1>2. Locked' /\ St!SocketIsOwn' /\ OnePrepares' /\ mark' \in {"none", "cut", "whole"}
  BY LockInv, OnePreparesInv, MarkType DEF StartupInv
<1>3. CASE DirStep(p)
  <2>1. place' \in [St!Things -> St!Places] /\ Layouts' /\ Arrived' /\ Past(p)'
        /\ (Settled => Settled')
    BY <1>3, DirInv
  <2>2. cmd[p].at \in St!Preparing
    BY <1>3 DEF DirStep, St!RenamePrevious, St!BeginMove, St!MoveNext, St!FinishMove,
                St!MakeDir, St!Preparing
  <2>3. ASSUME NEW q \in Commands \ {p} PROVE Past(q)'
    <3>1. cmd[q].at \notin St!Preparing /\ Past(q)
      BY <2>2, <2>3 DEF StartupInv, OnePrepares, Prepared
    <3> QED BY <1>1, <2>1, <2>3, <3>1 DEF Past, St!Preparing
  <2> QED BY <1>1, <1>2, <2>1, <2>3 DEF StartupInv, CmdTypes, Prepared
<1>4. CASE ~DirStep(p)
  <2>1. UNCHANGED <<place, hasStaging, hasData>> /\ Past(p)'
    BY <1>4, StayInv
  <2>2. ASSUME NEW q \in Commands \ {p} PROVE Past(q)'
    BY <1>1, <2>1, <2>2 DEF StartupInv, Prepared, Past, Settled
  <2>3. Layouts' /\ Arrived'
    BY <2>1 DEF StartupInv, Layouts, Arrived, Settled
  <2> QED BY <1>1, <1>2, <2>1, <2>2, <2>3 DEF StartupInv, CmdTypes, Prepared
<1> QED BY <1>3, <1>4

-----------------------------------------------------------------------------

LEMMA EarlierInv ==
  ASSUME StartupInv, NEW layout \in {"old", "previous"}, NEW made \in SUBSET St!Things,
         St!EarlierVersion(layout, made)
  PROVE  StartupInv'
<1>1. /\ UNCHANGED <<hasStaging, hasData, mark, cmd, lock, socket>>
      /\ \A q \in Commands : cmd[q].at = "off"
      /\ \A t \in St!Things : place[t] = "none" /\ place'[t] \in {layout, "none"}
      /\ layout = "previous" => ~hasStaging /\ ~hasData
      /\ place' \in [St!Things -> St!Places]
  BY DEF St!EarlierVersion, St!Places
<1>2. Layouts' /\ Arrived'
  BY <1>1, ThingsAre DEF StartupInv, Layouts, Arrived
<1>3. Prepared'
  BY <1>1 DEF Prepared, Past
<1> QED BY <1>1, <1>2, <1>3 DEF StartupInv, CmdTypes, Locked, OnePrepares,
                                St!SocketIsOwn, St!Preparing

LEMMA StartupNext ==
  ASSUME StartupInv, [St!Next]_startupVars
  PROVE  StartupInv'
<1>1. CASE UNCHANGED startupVars
  BY <1>1 DEF startupVars, StartupInv, CmdTypes, Locked, Layouts, Arrived, Settled,
              Prepared, Past, OnePrepares, St!SocketIsOwn
<1>2. CASE St!OtherAccount
  BY <1>2 DEF St!OtherAccount, StartupInv, CmdTypes, Locked, Layouts, Arrived, Settled,
              Prepared, Past, OnePrepares, St!SocketIsOwn
<1>3. CASE \E layout \in {"old", "previous"}, made \in SUBSET St!Things :
             St!EarlierVersion(layout, made)
  BY <1>3, EarlierInv
<1>4. CASE \E p \in Commands : St!Step(p)
  BY <1>4, CommandInv
<1> QED BY <1>1, <1>2, <1>3, <1>4 DEF St!Next

\* The invariant holds in every state, for any number of processes.
LEMMA StartupAlways == PartsSpec => []StartupInv
<1>1. PartsInit => StartupInv
  BY StartupInit DEF PartsInit
<1>2. StartupInv /\ [PartsNext]_partsVars => StartupInv'
  BY StartupNext DEF PartsNext, partsVars
<1> QED BY <1>1, <1>2, PTL DEF PartsSpec

\* No daemon takes the socket of another one away, however many start and end
\* at the same time: each removes the path only while it has the lock (listen
\* and Run of daemon.go).
THEOREM OneSocket == PartsSpec => []SocketIsOwn
<1>1. StartupInv => SocketIsOwn
  BY DEF StartupInv, SocketIsOwn
<1> QED BY <1>1, StartupAlways, PTL

\* A command that got through PrepareDataDir has the cards that an earlier
\* version left, and all files beside them, wherever the commands before it
\* were stopped in the move (migrateLegacyState of config.go).
THEOREM StateArrives == PartsSpec => []RunsWithItsState
<1>1. StartupInv => RunsWithItsState
  BY DEF StartupInv, Prepared, Past, Settled, RunsWithItsState, St!RunsWithItsState,
         St!Preparing
<1> QED BY <1>1, StartupAlways, PTL

-----------------------------------------------------------------------------
(* Setup: whose config and cookie it is *)

-----------------------------------------------------------------------------
(* The invariant *)

\* A config that init finished to put together when Fizzy had the users us.
OfOneUser(cfg, us) ==
  /\ cfg.token = Su!PersonOf(cfg.bot)
  /\ cfg.trusted # {}
  /\ cfg.trusted \subseteq {u \in us : Su!AccountOf(u) = Su!AccountOf(cfg.bot)} \ {cfg.bot}

\* What init knows of the user that it sets up, from step to step.
InitKnows ==
  /\ init.at = "connect" => init.session = Su!Nobody
  /\ init.at \in {"joined", "loggedIn"} => init.session \in People /\ init.way = "invite"
  /\ init.at = "verified" =>
       IF init.way = "token" THEN init.session = Su!Nobody ELSE init.session \in People
  /\ init.at \in {"chosen", "named"} => init.session \in People /\ init.account \in Accounts
  /\ init.at = "connected" =>
       /\ init.cfg.token \in People /\ init.account \in Accounts
       /\ init.session \in {Su!Nobody, init.cfg.token}
  /\ init.at \in {"trusted", "writes", "cookie", "filling"} =>
       /\ OfOneUser(init.cfg, users)
       /\ init.session \in {Su!Nobody, Su!PersonOf(init.cfg.bot)}

\* What is in the file comes from a config that is good as a whole.
FileKnows ==
  /\ configFile.written > 0 => OfOneUser(configFile.cfg, users)
  /\ init.at = "writes" => configFile.cfg = init.cfg

LoginKnows ==
  logsIn.at \in {"saves", "filling"} => logsIn.session = Su!PersonOf(logsIn.bot)

SetupInv == Su!TypeOK /\ InitKnows /\ FileKnows /\ LoginKnows /\ Su!CookieIsBots

-----------------------------------------------------------------------------
(* Facts about the operators *)

\* What a prefix of a config has, the config has.
LEMMA PrefixType ==
  ASSUME NEW cfg \in Su!Config, NEW n \in Su!Written
  PROVE  Su!Prefix(cfg, n) \in Su!Config
BY DEF Su!Prefix, Su!Config, Su!Written, Su!TokenField, Su!BotField, Su!TrustedField,
       Su!RepoField

\* A config that loads was written to the end of the settings that count.
LEMMA LoadsWhole ==
  ASSUME Su!TypeOK, Su!Loads
  PROVE  /\ configFile.written > 0
         /\ Su!FileHas.token = configFile.cfg.token
         /\ Su!FileHas.bot = configFile.cfg.bot
         /\ Su!FileHas.trusted = configFile.cfg.trusted
BY DEF Su!TypeOK, Su!Loads, Su!Accepted, Su!FileHas, Su!Prefix, Su!Written,
       Su!TokenField, Su!BotField, Su!TrustedField, Su!RepoField

LEMMA SetupInvImplies ==
  ASSUME SetupInv
  PROVE  Su!ConfigIsOfOneUser /\ Su!CookieIsBots
BY LoadsWhole DEF SetupInv, FileKnows, OfOneUser, Su!Candidates, Su!ConfigIsOfOneUser

\* Users join and never leave, so a good config stays good.
LEMMA GoodKept ==
  ASSUME NEW cfg, NEW us, NEW more, us \subseteq more, OfOneUser(cfg, us)
  PROVE  OfOneUser(cfg, more)
BY DEF OfOneUser

LEMMA SetupInit ==
  ASSUME Su!Init
  PROVE  SetupInv
<1>1. /\ Su!InitOff \in Su!InitRecord /\ Su!LoginOff \in Su!LoginRecord
      /\ Su!Defaults \in Su!Config
  BY DEF Su!InitOff, Su!InitRecord, Su!LoginOff, Su!LoginRecord, Su!Defaults, Su!Config
<1>2. Su!TypeOK
  BY <1>1 DEF Su!Init, Su!TypeOK, Su!Written, Su!RepoField
<1>3. InitKnows /\ LoginKnows
  BY DEF Su!Init, InitKnows, LoginKnows, Su!InitOff, Su!LoginOff
<1>4. FileKnows /\ Su!CookieIsBots
  BY DEF Su!Init, FileKnows, Su!InitOff, Su!CookieIsBots
<1> QED BY <1>2, <1>3, <1>4 DEF SetupInv

-----------------------------------------------------------------------------
(* The steps of init *)

\* The steps that only take init from one state to another.
LEMMA OnlyInit ==
  ASSUME SetupInv, UNCHANGED <<users, configFile, cookies, logsIn>>,
         init' \in Su!InitRecord, InitKnows',
         init'.at # "writes" \/ init'.cfg = configFile.cfg
  PROVE  SetupInv'
<1>1. Su!TypeOK' /\ LoginKnows' /\ Su!CookieIsBots'
  BY DEF SetupInv, Su!TypeOK, LoginKnows, Su!CookieIsBots
<1>2. FileKnows'
  BY DEF SetupInv, FileKnows
<1> QED BY <1>1, <1>2 DEF SetupInv

LEMMA BeginInv ==
  ASSUME SetupInv, NEW way \in {"invite", "login", "token"}, Su!BeginInit(way)
  PROVE  SetupInv'
<1>1. Su!FileHas \in Su!Config /\ Su!Defaults \in Su!Config
  BY PrefixType DEF SetupInv, Su!TypeOK, Su!FileHas, Su!Defaults, Su!Config
<1>2. PICK cfg \in Su!Config :
        init' = [at |-> "connect", cfg |-> cfg, session |-> Su!Nobody, way |-> way,
                 account |-> Su!Nobody]
  BY <1>1 DEF Su!BeginInit, Su!InitOff
<1>3. init' \in Su!InitRecord
  BY <1>2 DEF Su!InitRecord
<1>4. InitKnows' /\ init'.at # "writes"
  BY <1>2 DEF InitKnows
<1> QED BY <1>3, <1>4, OnlyInit DEF Su!BeginInit

LEMMA JoinInv ==
  ASSUME SetupInv, NEW p \in People, NEW a \in Accounts, Su!Join(p, a)
  PROVE  SetupInv'
<1>1. init' = [init EXCEPT !.at = "joined", !.session = p, !.account = a]
      /\ init \in Su!InitRecord /\ init.way = "invite"
  BY DEF Su!Join, SetupInv, Su!TypeOK
<1>2. init' \in Su!InitRecord /\ InitKnows'
  BY <1>1 DEF Su!InitRecord, InitKnows
<1>3. <<p, a>> \in Su!AllUsers
  BY DEF Su!AllUsers
<1>4. Su!TypeOK' /\ LoginKnows' /\ Su!CookieIsBots'
  BY <1>2, <1>3 DEF Su!Join, SetupInv, Su!TypeOK, LoginKnows, Su!CookieIsBots
<1>5. OfOneUser(configFile.cfg, users) => OfOneUser(configFile.cfg, users')
  BY GoodKept DEF Su!Join
<1>6. FileKnows'
  BY <1>1, <1>5 DEF Su!Join, SetupInv, FileKnows, Su!InitRecord
<1> QED BY <1>2, <1>4, <1>6 DEF SetupInv

\* The steps up to the access token.
ConnectStep ==
  \/ \E p \in People : Su!LogInAs(p) \/ Su!EnterToken(p)
  \/ Su!LogInJoined \/ Su!Verify \/ Su!Rename \/ Su!CreateAccessToken
  \/ \E a \in Accounts : Su!ChooseAccount(a)

LEMMA ConnectInv ==
  ASSUME SetupInv, ConnectStep
  PROVE  SetupInv'
<1> DEFINE To(i) == i \in Su!InitRecord /\ InitKnows' /\ i.at # "writes"
<1>0. /\ init \in Su!InitRecord /\ init.cfg \in Su!Config /\ InitKnows
      /\ users \subseteq Su!AllUsers
  BY DEF SetupInv, Su!TypeOK, Su!InitRecord
<1>1. ASSUME NEW p \in People, Su!LogInAs(p) PROVE To(init')
  BY <1>0, <1>1 DEF Su!LogInAs, Su!InitRecord, InitKnows
<1>2. ASSUME NEW p \in People, Su!EnterToken(p) PROVE To(init')
  <2>1. [init.cfg EXCEPT !.token = p] \in Su!Config
    BY <1>0 DEF Su!Config
  <2>2. init' = [init EXCEPT !.at = "verified", !.cfg = [init.cfg EXCEPT !.token = p]]
    BY <1>0, <1>2 DEF Su!EnterToken, Su!InitRecord
  <2> QED BY <1>0, <1>2, <2>1, <2>2 DEF Su!EnterToken, Su!InitRecord, InitKnows
<1>3. CASE Su!LogInJoined
  <2>1. To(init') BY <1>0, <1>3 DEF Su!LogInJoined, Su!InitAt, Su!InitRecord, InitKnows
  <2> QED BY <1>3, <2>1, OnlyInit DEF Su!LogInJoined
<1>4. CASE Su!Verify
  <2>1. To(init') BY <1>0, <1>4 DEF Su!Verify, Su!InitAt, Su!InitRecord, InitKnows
  <2> QED BY <1>4, <2>1, OnlyInit DEF Su!Verify
<1>5. CASE Su!Rename
  <2>1. To(init') BY <1>0, <1>5 DEF Su!Rename, Su!InitAt, Su!InitRecord, InitKnows
  <2> QED BY <1>5, <2>1, OnlyInit DEF Su!Rename
<1>6. CASE Su!CreateAccessToken
  <2>1. [init.cfg EXCEPT !.token = init.session] \in Su!Config
    BY <1>0 DEF Su!Config, Su!InitRecord
  <2>2. init' = [init EXCEPT !.at = "connected",
                             !.cfg = [init.cfg EXCEPT !.token = init.session]]
    BY <1>0, <1>6 DEF Su!CreateAccessToken, Su!NewToken, Su!InitRecord
  <2>3. init.session \in People /\ init.account \in Accounts
    BY <1>0, <1>6 DEF Su!CreateAccessToken, InitKnows
  <2>4. init' \in Su!InitRecord /\ init'.at = "connected"
    BY <1>0, <2>1, <2>2 DEF Su!InitRecord
  <2>5. init'.cfg.token = init.session /\ init'.session = init.session
        /\ init'.account = init.account
    BY <1>0, <2>2 DEF Su!InitRecord, Su!Config
  <2>6. To(init')
    BY <2>3, <2>4, <2>5 DEF InitKnows
  <2> QED BY <1>6, <2>6, OnlyInit DEF Su!CreateAccessToken
<1>7. ASSUME NEW a \in Accounts, Su!ChooseAccount(a) PROVE To(init')
  <2>1. Su!Known \in People
    BY <1>0, <1>7 DEF Su!ChooseAccount, Su!AllUsers
  <2>2. CASE init.way = "token"
    BY <1>0, <1>7, <2>1, <2>2 DEF Su!ChooseAccount, Su!Known, Su!InitRecord, InitKnows
  <2>3. CASE init.way # "token"
    BY <1>0, <1>7, <2>3 DEF Su!ChooseAccount, Su!InitRecord, InitKnows
  <2> QED BY <2>2, <2>3
<1>8. ASSUME NEW p \in People, Su!LogInAs(p) \/ Su!EnterToken(p) PROVE SetupInv'
  BY <1>1, <1>2, <1>8, OnlyInit DEF Su!LogInAs, Su!EnterToken
<1>9. ASSUME NEW a \in Accounts, Su!ChooseAccount(a) PROVE SetupInv'
  BY <1>7, <1>9, OnlyInit DEF Su!ChooseAccount
<1> QED BY <1>3, <1>4, <1>5, <1>6, <1>8, <1>9 DEF ConnectStep

LEMMA ChooseTrustedInv ==
  ASSUME SetupInv, NEW chosen \in SUBSET Su!AllUsers, Su!ChooseTrusted(chosen)
  PROVE  SetupInv'
<1> DEFINE bot == <<Su!Known, init.account>>
           cfg == [token |-> init.cfg.token, bot |-> bot, trusted |-> chosen]
<1>1. /\ init \in Su!InitRecord /\ init.at = "connected"
      /\ init.cfg.token \in People /\ init.account \in Accounts
      /\ init.session \in {Su!Nobody, init.cfg.token}
  BY DEF SetupInv, Su!TypeOK, InitKnows, Su!ChooseTrusted
<1>2. Su!Known = init.cfg.token /\ Su!PersonOf(bot) = init.cfg.token
  BY <1>1 DEF Su!Known, Su!PersonOf
<1>3. cfg \in Su!Config
  BY <1>1, <1>2 DEF Su!Config, Su!AllUsers
<1>4. init' = [at |-> "trusted", cfg |-> cfg, session |-> init.session, way |-> "login",
               account |-> Su!Nobody]
  BY DEF Su!ChooseTrusted, Su!InitOff
<1>5. init' \in Su!InitRecord
  BY <1>1, <1>3, <1>4 DEF Su!InitRecord
<1>6. OfOneUser(cfg, users)
  BY <1>2 DEF OfOneUser, Su!Candidates, Su!ChooseTrusted
<1>7. OfOneUser(init'.cfg, users') /\ init'.session \in {Su!Nobody, Su!PersonOf(init'.cfg.bot)}
  BY <1>1, <1>2, <1>4, <1>6 DEF Su!ChooseTrusted
<1>8. InitKnows'
  BY <1>4, <1>7 DEF InitKnows
<1> QED BY <1>4, <1>5, <1>8, OnlyInit DEF Su!ChooseTrusted

\* The steps that write the config and the cookie, and a stop.
WriteStep ==
  \/ Su!Truncate \/ Su!WriteField \/ Su!ConfigWritten
  \/ Su!TruncateCookie \/ Su!SaveCookie \/ Su!InitStops

LEMMA WriteTypes ==
  ASSUME SetupInv, WriteStep
  PROVE  Su!TypeOK'
<1> USE DEF SetupInv, Su!TypeOK
<1>1. Su!InitOff \in Su!InitRecord
  BY DEF Su!InitOff, Su!InitRecord, Su!Defaults, Su!Config
<1>2. CASE Su!Truncate BY <1>2 DEF Su!Truncate, Su!InitAt, Su!InitRecord, Su!Written,
                                   Su!RepoField
<1>3. CASE Su!WriteField BY <1>3 DEF Su!WriteField, Su!Written, Su!RepoField
<1>4. CASE Su!ConfigWritten BY <1>1, <1>4 DEF Su!ConfigWritten, Su!InitRecord
<1>5. CASE Su!TruncateCookie BY <1>5 DEF Su!TruncateCookie, Su!InitAt, Su!InitRecord
<1>6. CASE Su!SaveCookie BY <1>1, <1>6 DEF Su!SaveCookie, Su!InitRecord
<1>7. CASE Su!InitStops BY <1>1, <1>7 DEF Su!InitStops
<1> QED BY <1>2, <1>3, <1>4, <1>5, <1>6, <1>7 DEF WriteStep

LEMMA WriteInv ==
  ASSUME SetupInv, WriteStep
  PROVE  SetupInv'
<1>0. init \in Su!InitRecord /\ InitKnows /\ FileKnows
  BY DEF SetupInv, Su!TypeOK
<1>1. Su!TypeOK'
  BY WriteTypes
<1>2. LoginKnows'
  BY DEF SetupInv, LoginKnows, WriteStep, Su!Truncate, Su!WriteField, Su!ConfigWritten,
         Su!TruncateCookie, Su!SaveCookie, Su!InitStops
<1>3. InitKnows' /\ FileKnows'
  <2> USE DEF InitKnows, FileKnows
  <2>1. CASE Su!Truncate BY <1>0, <2>1 DEF Su!Truncate, Su!InitAt, Su!InitRecord
  <2>2. CASE Su!WriteField BY <1>0, <2>2 DEF Su!WriteField
  <2>3. CASE Su!ConfigWritten BY <1>0, <2>3 DEF Su!ConfigWritten, Su!InitOff,
                                                Su!InitRecord
  <2>4. CASE Su!TruncateCookie BY <1>0, <2>4 DEF Su!TruncateCookie, Su!InitAt,
                                                 Su!InitRecord
  <2>5. CASE Su!SaveCookie BY <1>0, <2>5 DEF Su!SaveCookie, Su!InitOff
  <2>6. CASE Su!InitStops BY <1>0, <2>6 DEF Su!InitStops, Su!InitOff
  <2> QED BY <2>1, <2>2, <2>3, <2>4, <2>5, <2>6 DEF WriteStep
<1>4. Su!CookieIsBots'
  <2> USE DEF SetupInv, Su!TypeOK, Su!CookieIsBots
  <2>1. CASE Su!TruncateCookie BY <2>1 DEF Su!TruncateCookie
  <2>2. CASE Su!SaveCookie BY <1>0, <2>2 DEF Su!SaveCookie, InitKnows
  <2>3. CASE UNCHANGED cookies BY <2>3
  <2> QED BY <2>1, <2>2, <2>3 DEF WriteStep, Su!Truncate, Su!WriteField,
                                  Su!ConfigWritten, Su!InitStops
<1> QED BY <1>1, <1>2, <1>3, <1>4 DEF SetupInv

-----------------------------------------------------------------------------
(* The steps of login *)

LEMMA LoginTypes ==
  ASSUME SetupInv, Su!LoginCommand
  PROVE  Su!TypeOK'
<1> USE DEF SetupInv, Su!TypeOK
<1>1. Su!LoginOff \in Su!LoginRecord
  BY DEF Su!LoginOff, Su!LoginRecord
<1>2. CASE Su!BeginLogin
  <2>1. Su!FileHas.bot \in Su!AllUsers \cup {Su!NoUser}
    BY PrefixType DEF Su!FileHas, Su!Config
  <2>2. logsIn' = [at |-> "asks", bot |-> Su!FileHas.bot, session |-> Su!Nobody]
    BY <1>2 DEF Su!BeginLogin, Su!LoginOff
  <2>3. logsIn' \in Su!LoginRecord
    BY <2>1, <2>2 DEF Su!LoginRecord
  <2> QED BY <1>2, <2>3 DEF Su!BeginLogin
<1>3. ASSUME NEW p \in People, Su!LoginAs(p) PROVE Su!TypeOK'
  BY <1>3 DEF Su!LoginAs, Su!LoginRecord
<1>4. CASE Su!VerifySessionUser BY <1>1, <1>4 DEF Su!VerifySessionUser, Su!LoginRecord
<1>5. CASE Su!TruncateLogin BY <1>5 DEF Su!TruncateLogin, Su!LoginRecord
<1>6. CASE Su!SaveLogin BY <1>1, <1>6 DEF Su!SaveLogin, Su!LoginRecord
<1>7. CASE Su!LoginStops BY <1>1, <1>7 DEF Su!LoginStops
<1> QED BY <1>2, <1>3, <1>4, <1>5, <1>6, <1>7 DEF Su!LoginCommand

LEMMA LoginInv ==
  ASSUME SetupInv, Su!LoginCommand
  PROVE  SetupInv'
<1>0. logsIn \in Su!LoginRecord /\ LoginKnows
  BY DEF SetupInv, Su!TypeOK
<1>1. Su!TypeOK'
  BY LoginTypes
<1>2. UNCHANGED <<users, configFile, init>>
  BY DEF Su!LoginCommand, Su!BeginLogin, Su!LoginAs, Su!VerifySessionUser,
         Su!TruncateLogin, Su!SaveLogin, Su!LoginStops
<1>3. InitKnows' /\ FileKnows'
  BY <1>2 DEF SetupInv, InitKnows, FileKnows
<1>4. LoginKnows'
  <2> USE DEF LoginKnows
  <2>1. CASE Su!BeginLogin BY <2>1 DEF Su!BeginLogin, Su!LoginOff
  <2>2. ASSUME NEW p \in People, Su!LoginAs(p) PROVE LoginKnows'
    BY <1>0, <2>2 DEF Su!LoginAs, Su!LoginRecord
  <2>3. CASE Su!VerifySessionUser
    <3>1. CASE Su!IsClaude(logsIn.session, logsIn.bot)
      <4>1. PICK a \in Accounts : <<logsIn.session, a>> = logsIn.bot
        BY <3>1 DEF Su!IsClaude
      <4>2. logsIn.session = Su!PersonOf(logsIn.bot)
        BY <4>1 DEF Su!PersonOf
      <4>3. logsIn' = [logsIn EXCEPT !.at = "saves"]
        BY <2>3, <3>1 DEF Su!VerifySessionUser
      <4> QED BY <1>0, <4>2, <4>3 DEF Su!LoginRecord
    <3>2. CASE ~Su!IsClaude(logsIn.session, logsIn.bot)
      BY <2>3, <3>2 DEF Su!VerifySessionUser, Su!LoginOff
    <3> QED BY <3>1, <3>2
  <2>4. CASE Su!TruncateLogin BY <1>0, <2>4 DEF Su!TruncateLogin, Su!LoginRecord
  <2>5. CASE Su!SaveLogin BY <2>5 DEF Su!SaveLogin, Su!LoginOff
  <2>6. CASE Su!LoginStops BY <2>6 DEF Su!LoginStops, Su!LoginOff
  <2> QED BY <2>1, <2>2, <2>3, <2>4, <2>5, <2>6 DEF Su!LoginCommand
<1>5. Su!CookieIsBots'
  <2> USE DEF SetupInv, Su!TypeOK, Su!CookieIsBots
  <2>1. CASE Su!TruncateLogin BY <2>1 DEF Su!TruncateLogin
  <2>2. CASE Su!SaveLogin BY <1>0, <2>2 DEF Su!SaveLogin, LoginKnows
  <2>3. CASE UNCHANGED cookies BY <2>3
  <2> QED BY <2>1, <2>2, <2>3
        DEF Su!LoginCommand, Su!BeginLogin, Su!LoginAs, Su!VerifySessionUser,
            Su!LoginStops
<1> QED BY <1>1, <1>3, <1>4, <1>5 DEF SetupInv

-----------------------------------------------------------------------------

LEMMA SetupNext ==
  ASSUME SetupInv, [Su!Next]_setupVars
  PROVE  SetupInv'
<1>1. CASE UNCHANGED setupVars
  BY <1>1 DEF setupVars, SetupInv, Su!TypeOK, InitKnows, FileKnows, LoginKnows,
              Su!CookieIsBots
<1>2. CASE Su!LoginCommand
  BY <1>2, LoginInv
<1>3. CASE Su!InitCommand
  <2>1. CASE \E way \in {"invite", "login", "token"} : Su!BeginInit(way)
    BY <2>1, BeginInv
  <2>2. CASE \E p \in People, a \in Invites : Su!Join(p, a)
    BY <2>2, JoinInv, SetupAssumption
  <2>3. CASE ConnectStep
    BY <2>3, ConnectInv
  <2>4. CASE \E chosen \in SUBSET Su!AllUsers : Su!ChooseTrusted(chosen)
    BY <2>4, ChooseTrustedInv
  <2>5. CASE WriteStep
    BY <2>5, WriteInv
  <2> QED BY <1>3, <2>1, <2>2, <2>3, <2>4, <2>5 DEF Su!InitCommand, ConnectStep,
                                                    WriteStep
<1> QED BY <1>1, <1>2, <1>3 DEF Su!Next

\* The invariant holds in every state, whatever the people, accounts and invite
\* links are.
LEMMA SetupAlways == PartsSpec => []SetupInv
<1>1. PartsInit => SetupInv
  BY SetupInit DEF PartsInit
<1>2. SetupInv /\ [PartsNext]_partsVars => SetupInv'
  BY SetupNext DEF PartsNext, partsVars
<1> QED BY <1>1, <1>2, PTL DEF PartsSpec

\* A config that a command accepts has a token of its bot, and trusted people of
\* the account of the bot, wherever init was stopped while it wrote over the
\* config of another user (Write and validate of config.go).
THEOREM ConfigOfOneUser == PartsSpec => []ConfigIsOfOneUser
<1>1. SetupInv => ConfigIsOfOneUser
  BY SetupInvImplies DEF ConfigIsOfOneUser
<1> QED BY <1>1, SetupAlways, PTL

\* The cookie in the directory of a bot is a login of this bot, also when init
\* writes the config of another one while login waits (verifySessionUser of
\* setup.go, SaveSessionToken of config.go).
THEOREM CookieOfBot == PartsSpec => []CookieIsBots
<1>1. SetupInv => CookieIsBots
  BY SetupInvImplies DEF CookieIsBots
<1> QED BY <1>1, SetupAlways, PTL
================================================================================
