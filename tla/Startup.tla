------------------------------- MODULE Startup -------------------------------
(***************************************************************************)
(* How a command prepares the data directory of its identity, with the     *)
(* state of the two earlier layouts (internal/config/config.go,            *)
(* PrepareDataDir), and how a daemon then takes its lock and its socket    *)
(* (internal/daemon/daemon.go, New and listen).                            *)
(*                                                                         *)
(* The first layout kept its files in the state directory itself, the      *)
(* second in a directory with a different name.  The move of the first     *)
(* layout takes several renames and goes through a temporary directory, so *)
(* a crash can come between any two of them.                               *)
(*                                                                         *)
(* Left out: commands that prepare the directory at the same time, the     *)
(* permissions of the directories, and errors of the disk.                 *)
(***************************************************************************)
EXTENDS Naturals, Sequences

CONSTANTS Commands   \* processes with the same config; each runs many times

VARIABLES
  place,       \* place[t]: where the old thing t is
  hasStaging,  \* the directory <data directory>.migrating exists
  hasData,     \* the data directory exists
  mark,        \* the identity file in it; "cut": created and still empty
  otherMark,   \* another directory in the state directory has an identity
  cmd,         \* cmd[p]: where the command p is
  lock,        \* the processes that hold the lock of the daemon
  socket       \* the processes whose socket has the path; also a dead one

startupVars == <<place, hasStaging, hasData, mark, otherMark, cmd, lock, socket>>
dirs == <<place, hasStaging, hasData, mark, otherMark>>

\* migrateLegacyState moves them in this order.
Moved == <<"cards", "logs", "session_token">>
Things == {Moved[k] : k \in DOMAIN Moved}
Places == {"none", "old", "previous", "staging", "data"}

\* second: daemon.New prepares the directory again.  next: the rename to do.
Preparing == {"begin", "migrate", "move", "make", "identity", "fill"}
CmdRecord ==
  [at : Preparing \cup {"off", "identify", "listen", "unlink", "bind",
                        "serving", "closed"},
   second : BOOLEAN, next : 1..Len(Moved) + 1]
Off == [at |-> "off", second |-> FALSE, next |-> 1]

TypeOK ==
  /\ place \in [Things -> Places]
  /\ {hasStaging, hasData, otherMark} \subseteq BOOLEAN
  /\ mark \in {"none", "cut", "whole"}
  /\ cmd \in [Commands -> CmdRecord]
  /\ lock \subseteq Commands /\ socket \subseteq Commands

Init ==
  /\ place = [t \in Things |-> "none"]
  /\ hasStaging = FALSE /\ hasData = FALSE /\ otherMark = FALSE
  /\ mark = "none"
  /\ cmd = [p \in Commands |-> Off]
  /\ lock = {} /\ socket = {}

-----------------------------------------------------------------------------
(* Before the commands of this version *)

\* A version with the first layout ("old") or the second one made some files;
\* the first also when somebody goes back to it later.
EarlierVersion(layout, made) ==
  /\ \A t \in Things : place[t] = "none"
  /\ layout = "previous" => ~hasStaging /\ ~hasData
  /\ \A p \in Commands : cmd[p].at = "off"
  /\ place' = [t \in Things |-> IF t \in made THEN layout ELSE "none"]
  /\ UNCHANGED <<hasStaging, hasData, mark, otherMark, cmd, lock, socket>>

\* The same state directory was used with the config of another account,
\* which takes the state of the first layout when it finds it.
OtherAccount ==
  /\ place["cards"] # "old"
  /\ otherMark' = TRUE
  /\ UNCHANGED <<place, hasStaging, hasData, mark, cmd, lock, socket>>

-----------------------------------------------------------------------------
(* PrepareDataDir *)

Goto(p, at) == cmd' = [cmd EXCEPT ![p].at = at]
Fail(p) == cmd' = [cmd EXCEPT ![p] = Off]

Start(p) ==
  /\ cmd[p].at = "off"
  /\ \A q \in Commands : cmd[q].at \notin Preparing
  /\ Goto(p, "begin")
  /\ UNCHANGED <<dirs, lock, socket>>

AllFrom(dir) == [t \in Things |-> IF place[t] = dir THEN "data" ELSE place[t]]

RenamePrevious(p) ==
  /\ cmd[p].at = "begin"
  /\ IF ~hasData /\ place["cards"] = "previous"
     THEN place' = AllFrom("previous") /\ hasData' = TRUE
     ELSE UNCHANGED <<place, hasData>>
  /\ Goto(p, "migrate")
  /\ UNCHANGED <<hasStaging, mark, otherMark, lock, socket>>

\* There is a move to do or to continue.
MoveCardsOnly == place["cards"] = "old"
ToMove == hasStaging \/ place["cards"] = "old"

NothingToMove(p) ==
  /\ cmd[p].at = "migrate"
  /\ ~ToMove
  /\ Goto(p, "make")
  /\ UNCHANGED <<dirs, lock, socket>>

\* The old state can belong only to the identity of the config when no
\* directory has an identity yet.
BeginMove(p) ==
  /\ cmd[p].at = "migrate"
  /\ ToMove
  /\ IF ~hasStaging /\ (otherMark \/ mark # "none")
     THEN Fail(p) /\ UNCHANGED hasStaging
     ELSE /\ hasStaging' = TRUE
          /\ cmd' = [cmd EXCEPT ![p].at = "move", ![p].next = 1]
  /\ UNCHANGED <<place, hasData, mark, otherMark, lock, socket>>

MoveNext(p) ==
  LET n == cmd[p].next
  IN  /\ cmd[p].at = "move"
      /\ n <= Len(Moved)
      /\ place' = [place EXCEPT ![Moved[n]] = IF @ = "old" THEN "staging" ELSE @]
      /\ cmd' = [cmd EXCEPT ![p].next = n + 1]
      /\ UNCHANGED <<hasStaging, hasData, mark, otherMark, lock, socket>>

\* The identity is in the temporary directory before its rename.
FinishMove(p) ==
  /\ cmd[p].at = "move"
  /\ cmd[p].next > Len(Moved)
  /\ IF hasData
     THEN Fail(p) /\ UNCHANGED dirs
     ELSE /\ place' = AllFrom("staging")
          /\ hasStaging' = FALSE /\ hasData' = TRUE
          /\ mark' = "whole"
          /\ Goto(p, "make")
          /\ UNCHANGED otherMark
  /\ UNCHANGED <<lock, socket>>

MakeDir(p) ==
  /\ cmd[p].at = "make"
  /\ hasData' = TRUE
  /\ Goto(p, "identity")
  /\ UNCHANGED <<place, hasStaging, mark, otherMark, lock, socket>>

\* A command that only reads the state ends.  `run` prepares again in New.
AfterPrepare(p) ==
  \/ Fail(p)
  \/ cmd' = [cmd EXCEPT ![p].at = IF cmd[p].second THEN "identify" ELSE "begin",
                        ![p].second = TRUE]

CheckIdentity(p) ==
  /\ cmd[p].at = "identity"
  /\ CASE mark = "whole" -> AfterPrepare(p) /\ UNCHANGED mark
       [] mark = "cut"   -> Fail(p) /\ UNCHANGED mark
       [] mark = "none"  -> Goto(p, "fill") /\ mark' = "cut"
  /\ UNCHANGED <<place, hasStaging, hasData, otherMark, lock, socket>>

WriteIdentity(p) ==
  /\ cmd[p].at = "fill"
  /\ mark' = "whole"
  /\ AfterPrepare(p)
  /\ UNCHANGED <<place, hasStaging, hasData, otherMark, lock, socket>>

-----------------------------------------------------------------------------
(* The lock and the socket of a daemon *)

Identify(p) ==
  /\ cmd[p].at = "identify"
  /\ Goto(p, "listen") \/ Fail(p)
  /\ UNCHANGED <<dirs, lock, socket>>

TakeLock(p) ==
  /\ cmd[p].at = "listen"
  /\ IF lock = {} THEN lock' = {p} /\ Goto(p, "unlink")
                  ELSE Fail(p) /\ UNCHANGED lock
  /\ UNCHANGED <<dirs, socket>>

Unlink(p) ==
  /\ cmd[p].at = "unlink"
  /\ socket' = {}
  /\ Goto(p, "bind")
  /\ UNCHANGED <<dirs, lock>>

\* d.lock keeps the file open until the process ends.  A mutant: the file is
\* closed at the end of listen.
LockOnlyInListen(p) == lock \ {p}
LockKept(p) == lock

\* A bind to a path that exists fails, and the process ends.
Bind(p) ==
  /\ cmd[p].at = "bind"
  /\ IF socket = {} THEN socket' = {p} /\ Goto(p, "serving") /\ lock' = LockKept(p)
                    ELSE Fail(p) /\ lock' = lock \ {p} /\ UNCHANGED socket
  /\ UNCHANGED dirs

\* Run returns: the deferred Close removes the path, whoever made it.
Close(p) ==
  /\ cmd[p].at = "serving"
  /\ socket' = {}
  /\ Goto(p, "closed")
  /\ UNCHANGED <<dirs, lock>>

ProcessEnds(p) ==
  /\ Fail(p)
  /\ lock' = lock \ {p}
  /\ UNCHANGED <<dirs, socket>>

Exit(p) == cmd[p].at = "closed" /\ ProcessEnds(p)
Crash(p) == cmd[p].at # "off" /\ ProcessEnds(p)

-----------------------------------------------------------------------------

Step(p) ==
  \/ Start(p) \/ RenamePrevious(p) \/ NothingToMove(p) \/ BeginMove(p)
  \/ MoveNext(p) \/ FinishMove(p) \/ MakeDir(p) \/ CheckIdentity(p)
  \/ WriteIdentity(p) \/ Identify(p) \/ TakeLock(p) \/ Unlink(p) \/ Bind(p)
  \/ Close(p) \/ Exit(p) \/ Crash(p)

Next ==
  \/ \E layout \in {"old", "previous"}, made \in SUBSET Things : EarlierVersion(layout, made)
  \/ OtherAccount
  \/ \E p \in Commands : Step(p)

-----------------------------------------------------------------------------
(* Properties *)

\* A daemon never runs beside state that it should have: when an earlier
\* version left the state of cards, a command that got through PrepareDataDir
\* has them in its data directory, and every other old file with them,
\* wherever earlier starts were stopped (config.go, "a stop in the middle
\* continues at the next start").
RunsWithItsState ==
  \A p \in Commands :
    cmd[p].at \notin Preparing \cup {"off"} /\ place["cards"] # "none" =>
      \A t \in Things : place[t] \in {"data", "none"}

\* A daemon that serves has the socket that the turns get: no daemon that
\* starts later, or that ends late, takes the path away (daemon.go, listen).
SocketIsOwn ==
  \A p \in Commands : cmd[p].at = "serving" => socket = {p}
=============================================================================
