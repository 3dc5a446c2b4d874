------------------------------- MODULE Sessions -------------------------------
(***************************************************************************)
(* The session of one card: which Claude session its file names, and which *)
(* comments of the card that session knows.  internal/store/store.go, the  *)
(* parts of runTurn and newActivity about sessions, buildPrompt, and the   *)
(* part of requestApproval that uses a comment as an answer.               *)
(*                                                                         *)
(* Four writers change the file: the scan, the worker and the permission   *)
(* requests of the daemon, and the `reset' command, which is a process of  *)
(* its own.  Each change is a read of the file, a write of a temporary     *)
(* file, and a rename; the mutex of the store keeps only the goroutines of *)
(* one process apart.                                                      *)
(*                                                                         *)
(* Comment k is the k-th comment on the card and has time k.  All of them  *)
(* are by trusted people: a prompt has no text of others, and a mention by *)
(* somebody else is never queued.  The questions and the other comments of *)
(* the bot have no number: no prompt shows them as new.                    *)
(***************************************************************************)
EXTENDS Naturals, Sequences, FiniteSets, Ordered

CONSTANTS
  Mentions,     \* the comments that mention the bot
  Answers,      \* the comments that are an answer to a permission question
  MaxComments,  \* bound of the model
  MaxIds,       \* bound of the model: session ids that uuid makes
  MaxResets,    \* bound of the model
  MaxCrashes    \* bound of the model

ASSUME BoundsAssumption ==
  /\ MaxComments \in Nat /\ MaxIds \in Nat
  /\ MaxResets \in Nat /\ MaxCrashes \in Nat
ASSUME MentionsAssumption == Mentions \subseteq 1..MaxComments
ASSUME AnswersAssumption == Answers \subseteq 1..MaxComments

VARIABLES
  posted,   \* comments on the card
  known,    \* known[s]: the comments that the transcript of session s has
  file,     \* the state file of the card
  temp,     \* the temporary file beside it
  update,   \* update[p]: how far Store.Update of process p is
  scan,     \* the new mentions that checkCard found, until it recorded them
  turn,     \* the worker: runTurn and its turn struct
  request,  \* requestApproval: the permission request that holds the gate
  ids,      \* session ids made so far
  taken,    \* history: the mentions that a turn had as requests
  answers,  \* history: answers[s]: the comments that answered session s
  atomic,   \* history: each Update replaced the file that it had read
  resets, crashes

disk == <<file, temp>>
asking == <<request, answers>>
bounds == <<resets, crashes>>
vars ==
  <<posted, known, disk, update, scan, turn, request, ids, taken, answers, atomic, bounds>>

Writers == {"scan", "worker", "approval", "reset"}

-----------------------------------------------------------------------------
(* Types and initial values *)

Comments == 1..MaxComments
Ids == 1..MaxIds
NoId == 0
NoComment == 0

CardState == [session : Ids \cup {NoId}, started : BOOLEAN, until : 0..MaxComments,
              handled : SUBSET Comments, queue : Seq(Mentions)]

NewCard == [session |-> NoId, started |-> FALSE, until |-> 0,
            handled |-> {}, queue |-> <<>>]
NoFile == [missing |-> TRUE]

\* old: what Update read; new: what it will write.
UpdateRecord == [at : {"none", "write", "rename"}, old : CardState, new : CardState]
NoUpdate == [at |-> "none", old |-> NewCard, new |-> NewCard]

\* state: what runTurn read, with the session of a renewal; first: the session
\* that it read; seen: how many comments; items and sees: what a
\* running check found and which mentions it knows to be handled.
TurnRecord ==
  [at : {"idle", "start", "load", "claude", "save"}, state : CardState,
   first : Ids \cup {NoId}, seen : 0..MaxComments, consumed : Nat, until : 0..MaxComments,
   renewed : BOOLEAN, up : BOOLEAN,
   items : Seq(Mentions), sees : SUBSET Comments]
NoTurn == [at |-> "idle", state |-> NewCard, first |-> NoId, seen |-> 0, consumed |-> 0,
           until |-> 0, renewed |-> FALSE, up |-> FALSE,
           items |-> <<>>, sees |-> {}]

\* session: of the turn that asked; alive: that turn has not ended; question:
\* the comments that are before it; answer: what the poll found; granted: what
\* the Update made of it.
RequestRecord ==
  [at : {"none", "gate", "wait", "found", "update"}, session : Ids \cup {NoId},
   alive : BOOLEAN, question : 0..MaxComments, answer : Answers \cup {NoComment},
   granted : BOOLEAN]
NoRequest == [at |-> "none", session |-> NoId, alive |-> FALSE, question |-> 0,
              answer |-> NoComment, granted |-> FALSE]

\* The type invariant.
TypeOK ==
  /\ posted \in 0..MaxComments
  /\ known \in [Ids -> SUBSET Comments]
  /\ file \in CardState
  /\ temp \in CardState \cup {NoFile}
  /\ update \in [Writers -> UpdateRecord]
  /\ scan \subseteq Mentions
  /\ turn \in TurnRecord
  /\ request \in RequestRecord
  /\ request.at \in {"found", "update"} => request.answer # NoComment
  /\ ids \in 0..MaxIds
  /\ taken \subseteq Mentions
  /\ answers \in [Ids -> SUBSET Answers]
  /\ atomic \in BOOLEAN
  /\ resets \in 0..MaxResets
  /\ crashes \in 0..MaxCrashes

Init ==
  /\ posted = 0
  /\ known = [s \in Ids |-> {}]
  /\ file = NewCard
  /\ temp = NoFile
  /\ update = [p \in Writers |-> NoUpdate]
  /\ scan = {}
  /\ turn = NoTurn
  /\ request = NoRequest
  /\ ids = 0
  /\ taken = {}
  /\ answers = [s \in Ids |-> {}]
  /\ atomic = TRUE
  /\ resets = 0
  /\ crashes = 0

-----------------------------------------------------------------------------
(* Store.Update *)

Updating(p) == update[p].at # "none"

\* Store.mu: the reset is in a process of its own.
Process(p) == IF p = "reset" THEN {"reset"} ELSE Writers \ {"reset"}
MutexFree(p) == \A q \in Process(p) : ~ Updating(q)

\* Update reads the file and changes what it read.
ReadFile(p, new) ==
  /\ MutexFree(p)
  /\ update' = [update EXCEPT ![p] = [at |-> "write", old |-> file, new |-> new]]
  /\ UNCHANGED <<posted, known, disk, taken, atomic, crashes>>

WriteTemp(p) ==
  /\ update[p].at = "write"
  /\ temp' = update[p].new
  /\ update' = [update EXCEPT ![p].at = "rename"]
  /\ UNCHANGED <<posted, known, file, scan, turn, asking, ids, taken, atomic, bounds>>

\* The rename publishes what the temporary file has, whoever wrote it.
Renamed(p) ==
  /\ update[p].at = "rename"
  /\ temp # NoFile
  /\ file' = temp
  /\ temp' = NoFile
  /\ update' = [update EXCEPT ![p] = NoUpdate]
  /\ atomic' = (atomic /\ temp = update[p].new /\ file = update[p].old)
  /\ UNCHANGED <<posted, known, ids, taken, bounds>>

\* The other process renamed the temporary file already: an error.
RenameFails(p) ==
  /\ update[p].at = "rename"
  /\ temp = NoFile
  /\ update' = [update EXCEPT ![p] = NoUpdate]
  /\ atomic' = FALSE
  /\ UNCHANGED <<posted, known, disk, ids, taken, bounds>>

-----------------------------------------------------------------------------
(* People, the scan of the card, and the reset command *)

Post ==
  /\ posted < MaxComments
  /\ posted' = posted + 1
  /\ UNCHANGED <<known, disk, update, scan, turn, asking, ids, taken, atomic, bounds>>

\* approvalPending: a request that waits for the gate counts too.
Pending == request.at # "none"

\* checkCard reads the comments and then the file: the newest comments can be
\* missing.  While a permission question is open, an answer is no trigger; one
\* that is handled after the read of the file fails the test of the Update.
ScanReads ==
  /\ scan = {}
  /\ \E n \in 1..posted :
       scan' = ((Mentions \cap 1..n) \ file.handled) \ (IF Pending THEN Answers ELSE {})
  /\ UNCHANGED <<posted, known, disk, update, turn, asking, ids, taken, atomic, bounds>>

\* The Update of checkCard: the new mentions, in the order of the comments.
WithMentions(f, S) ==
  [f EXCEPT !.handled = @ \cup S, !.queue = @ \o InOrder(S \ f.handled)]

ScanUpdates ==
  /\ scan # {}
  /\ ReadFile("scan", WithMentions(file, scan))
  /\ UNCHANGED <<scan, turn, asking, ids, resets>>

\* The scan ends; after an error a later scan finds the mentions.
ScanEnds ==
  /\ Renamed("scan") \/ RenameFails("scan")
  /\ scan' = {}
  /\ UNCHANGED <<turn, asking>>

\* ResetSession in the process of the reset command.
NextId == ids + 1

\* A mutant: the new session has the progress of the old one.
RenamedOnly(f) == [f EXCEPT !.session = NextId]
WithReset(f) == [f EXCEPT !.session = NextId, !.started = FALSE, !.until = 0]

Reset ==
  /\ resets < MaxResets /\ ids < MaxIds
  /\ resets' = resets + 1
  /\ ids' = NextId
  /\ ReadFile("reset", WithReset(file))
  /\ UNCHANGED <<scan, turn, asking>>

ResetEnds ==
  /\ Renamed("reset") \/ RenameFails("reset")
  /\ UNCHANGED <<scan, turn, asking>>

-----------------------------------------------------------------------------
(* runTurn up to Claude *)

\* The first Update makes an id for a card that has none.
TurnStarts ==
  /\ turn.at = "idle"
  /\ file.queue # <<>>
  /\ file.session = NoId => ids < MaxIds
  /\ ids' = IF file.session = NoId THEN NextId ELSE ids
  /\ ReadFile("worker", [file EXCEPT !.session = IF @ = NoId THEN NextId ELSE @])
  /\ turn' = [NoTurn EXCEPT !.at = "start"]
  /\ UNCHANGED <<scan, asking, resets>>

\* Update returns the state that it wrote.
TurnStarted ==
  /\ turn.at = "start"
  /\ \/ Renamed("worker")
        /\ turn' = IF update["worker"].new.queue = <<>> THEN NoTurn
                   ELSE [turn EXCEPT !.at = "load", !.state = update["worker"].new,
                                    !.first = update["worker"].new.session]
     \/ RenameFails("worker") /\ turn' = NoTurn
  /\ UNCHANGED <<scan, asking>>

\* A mutant: the loop over the comments starts before the first.
PresentedFromZero(n, items, handled, first, from) ==
  {k \in 0..n : /\ first \/ k > from \/ k \in items
                /\ k \in Mentions => k \in handled}

\* buildPrompt: the comments that a document has.  A first document has all of
\* them, a later one what is newer than `from' and what it requests.  A mention
\* that is not handled yet goes into the turn that has it as a request.
Presented(n, items, handled, first, from) ==
  {k \in 1..n : /\ first \/ k > from \/ k \in items
                /\ k \in Mentions => k \in handled}

\* presentedUpTo.
UpTo(from, S) == CHOOSE n \in {from} \cup S : \A k \in {from} \cup S : k <= n

ItemsOf(s) == {s[k] : k \in 1..Len(s)}

InPrompt(t) ==
  Presented(t.seen, ItemsOf(t.state.queue), t.state.handled,
            ~ t.state.started, t.state.until)

WithPrompt(t) ==
  [t EXCEPT !.consumed = Len(t.state.queue),
            !.until = UpTo(t.state.until, InPrompt(t))]

\* Comments, beginTurn, and runClaude up to the process.
Prompt ==
  /\ turn.at = "load"
  /\ turn' = WithPrompt([turn EXCEPT !.at = "claude", !.seen = posted])
  /\ taken' = taken \cup ItemsOf(turn.state.queue)
  /\ UNCHANGED <<posted, known, disk, update, scan, asking, ids, atomic, bounds>>

\* Comments failed, or Claude did not start: the queue stays.
TurnNotStarted ==
  /\ turn.at = "load" \/ (turn.at = "claude" /\ ~ turn.up)
  /\ turn' = NoTurn
  /\ UNCHANGED <<posted, known, disk, update, scan, asking, ids, taken, atomic, bounds>>

-----------------------------------------------------------------------------
(* Claude, and the check of a tool call *)

\* The init event: the transcript of the session has the prompt.
ClaudeStarts ==
  /\ turn.at = "claude" /\ ~ turn.up
  /\ turn' = [turn EXCEPT !.up = TRUE]
  /\ known' = [known EXCEPT ![turn.state.session] = @ \cup InPrompt(turn)]
  /\ UNCHANGED <<posted, disk, update, scan, asking, ids, taken, atomic, bounds>>

\* Claude ended with an error before its init event: the session to resume
\* does not exist.  A new session gets the full card.
Renew ==
  /\ turn.at = "claude" /\ ~ turn.up /\ turn.state.started
  /\ ids < MaxIds
  /\ ids' = NextId
  /\ turn' = WithPrompt([turn EXCEPT !.state.session = NextId,
                                     !.state.started = FALSE, !.renewed = TRUE])
  /\ UNCHANGED <<posted, known, disk, update, scan, asking, taken, atomic, bounds>>

\* newActivity reads the queue.
CheckReads ==
  /\ turn.at = "claude" /\ turn.up
  /\ turn.items = <<>>
  /\ turn.consumed < Len(file.queue)
  /\ turn' = [turn EXCEPT
       !.items = SubSeq(file.queue, turn.consumed + 1, Len(file.queue)),
       !.sees = file.handled]
  /\ UNCHANGED <<posted, known, disk, update, scan, asking, ids, taken, atomic, bounds>>

\* It reads the comments, and the turn owns the items.
CheckGives ==
  LET S == Presented(posted, ItemsOf(turn.items), turn.sees, FALSE, turn.until)
  IN  /\ turn.at = "claude"
      /\ turn.items # <<>>
      /\ turn' = [turn EXCEPT !.consumed = @ + Len(turn.items),
                              !.until = UpTo(@, S), !.items = <<>>, !.sees = {}]
      /\ known' = [known EXCEPT ![turn.state.session] = @ \cup S]
      /\ taken' = taken \cup ItemsOf(turn.items)
      /\ UNCHANGED <<posted, disk, update, scan, asking, ids, atomic, bounds>>

\* Claude ended.  Without its init event the first process of a session that
\* was started is renewed instead.
ClaudeEnds ==
  /\ turn.at = "claude"
  /\ turn.up \/ ~ turn.state.started
  /\ turn' = [turn EXCEPT !.at = "save", !.items = <<>>, !.sees = {}]
  /\ request' = [request EXCEPT !.alive = FALSE]
  /\ UNCHANGED <<posted, known, disk, update, scan, ids, taken, answers, atomic, bounds>>

-----------------------------------------------------------------------------
(* requestApproval.  Approvals has the answers and the gate in detail; here *)
(* a request is what it makes of the state file and of the scan.            *)

NewRequest ==
  [NoRequest EXCEPT !.at = "gate", !.session = turn.state.session, !.alive = TRUE]
TurnRuns == turn.at = "claude" /\ turn.up

Ask ==
  /\ TurnRuns /\ ~ Pending
  /\ request' = NewRequest
  /\ UNCHANGED <<posted, known, disk, update, scan, turn, ids, taken, answers, atomic, bounds>>

PostQuestion ==
  /\ request.at = "gate" /\ request.alive
  /\ request' = [request EXCEPT !.at = "wait", !.question = posted]
  /\ UNCHANGED <<posted, known, disk, update, scan, turn, ids, taken, answers, atomic, bounds>>

\* findApprovalAnswer: an answer to this question, after it.
Poll ==
  /\ request.at = "wait" /\ request.alive
  /\ \E k \in Answers :
       /\ request.question < k /\ k <= posted
       /\ request' = [request EXCEPT !.at = "found", !.answer = k]
  /\ UNCHANGED <<posted, known, disk, update, scan, turn, ids, taken, answers, atomic, bounds>>

\* A mutant: an answer after the end of the turn is used up too.
UsedUp(f, granted) == [f EXCEPT !.handled = @ \cup {request.answer}]
WithAnswer(f, granted) ==
  IF granted THEN [f EXCEPT !.handled = @ \cup {request.answer}] ELSE f

\* The Update: the answer counts while the turn is alive, and one time.  The
\* context of a turn can end before its Claude does.
AnswerUpdates ==
  /\ request.at = "found"
  /\ \E alive \in {FALSE, request.alive} :
       LET granted == alive /\ request.answer \notin file.handled
       IN  /\ ReadFile("approval", WithAnswer(file, granted))
           /\ request' = [request EXCEPT !.at = "update", !.granted = granted]
  /\ UNCHANGED <<scan, turn, ids, answers, resets>>

\* The gate is free for the next request of the turn that runs, if there is one.
Leaves == request' \in {NoRequest} \cup (IF TurnRuns THEN {NewRequest} ELSE {})

AnswerCounts ==
  /\ request.at = "update" /\ request.granted
  /\ Renamed("approval")
  /\ answers' = [answers EXCEPT ![request.session] = @ \cup {request.answer}]
  /\ Leaves
  /\ UNCHANGED <<scan, turn>>

KeepWaiting ==
  /\ request.at = "update" /\ ~ request.granted
  /\ Renamed("approval")
  /\ request' = [request EXCEPT !.at = "wait", !.answer = NoComment]
  /\ UNCHANGED <<scan, turn, answers>>

AnswerFails ==
  /\ request.at = "update"
  /\ RenameFails("approval")
  /\ Leaves
  /\ UNCHANGED <<scan, turn, answers>>

\* A command that is allowed, the deadline, an error, or the end of the turn.
RequestEnds ==
  /\ request.at \in {"gate", "wait"}
  /\ Leaves
  /\ UNCHANGED <<posted, known, disk, update, scan, turn, ids, taken, answers, atomic, bounds>>

-----------------------------------------------------------------------------
(* The last Update of runTurn *)

\* The file still names the session of the turn, or the turn renewed it.
NamesSession(f) == turn.renewed \/ f.session = turn.state.session

\* A mutant: the turn removes all that is in the queue.
RemoveAll(q) == <<>>
Rest(q) == SubSeq(q, turn.consumed + 1, Len(q))

WithTurn(f) ==
  [f EXCEPT
     !.queue = Rest(@),
     !.session = IF NamesSession(f) THEN turn.state.session ELSE @,
     !.started = IF NamesSession(f) THEN turn.state.started \/ turn.up ELSE @,
     !.until = turn.until]

SaveTurn ==
  /\ turn.at = "save"
  /\ turn.consumed <= Len(file.queue)
  /\ ReadFile("worker", WithTurn(file))
  /\ UNCHANGED <<scan, turn, asking, ids, resets>>

\* After an error the turn runs again, as far as the queue has its items.
TurnSaved ==
  /\ turn.at = "save"
  /\ Renamed("worker") \/ RenameFails("worker")
  /\ turn' = NoTurn
  /\ UNCHANGED <<scan, asking>>

-----------------------------------------------------------------------------
(* The daemon ends and starts again *)

DaemonGone ==
  /\ scan' = {}
  /\ turn' = NoTurn
  /\ request' = NoRequest
  /\ update' = [p \in Writers |-> IF p = "reset" THEN update[p] ELSE NoUpdate]
  /\ UNCHANGED <<posted, known, disk, ids, taken, answers, atomic, resets>>

\* The slice expression of the last Update panics: a reset wrote back a queue
\* that it read before the items of the turn came.
Panic ==
  /\ turn.at = "save" /\ MutexFree("worker")
  /\ turn.consumed > Len(file.queue)
  /\ DaemonGone
  /\ UNCHANGED crashes

Crash ==
  /\ crashes < MaxCrashes
  /\ crashes' = crashes + 1
  /\ DaemonGone

-----------------------------------------------------------------------------

Next ==
  \/ Post
  \/ \E p \in Writers : WriteTemp(p)
  \/ ScanReads \/ ScanUpdates \/ ScanEnds
  \/ Reset \/ ResetEnds
  \/ TurnStarts \/ TurnStarted \/ Prompt \/ TurnNotStarted
  \/ ClaudeStarts \/ Renew \/ CheckReads \/ CheckGives \/ ClaudeEnds
  \/ Ask \/ PostQuestion \/ Poll \/ AnswerUpdates \/ AnswerCounts \/ KeepWaiting
  \/ AnswerFails \/ RequestEnds
  \/ SaveTurn \/ TurnSaved
  \/ Panic \/ Crash

Spec == Init /\ [][Next]_vars

-----------------------------------------------------------------------------
(* Safety *)

\* A turn that resumes a session sends only what is newer than `until'.  So
\* the session that the file names as started must know each comment up to
\* that time: from a prompt or a check, or because the comment answered a
\* permission request of that session, which got the result.  The exceptions
\* are mentions that a turn, a scan or a request still has to take.  This holds
\* although a reset can be lost and can lose an Update of the daemon; a mention
\* can be lost with such an Update (NoMentionDropped), and no other comment.
Covered(f) ==
  f.started =>
    \A k \in 1..f.until :
      \/ k \in known[f.session] \cup answers[f.session]
      \/ k \in Mentions /\ (k \notin f.handled \/ k \in ItemsOf(f.queue) \/ ~atomic)

SessionKnowsItsCard == Covered(file)

\* A comment that counts as handled is in the queue, a turn had it as a request,
\* or it answered a permission request, as long as no Update of one process
\* overwrote one of another.
Answered == UNION {answers[s] : s \in Ids}
Taken(f) == f.handled \subseteq ItemsOf(f.queue) \cup taken \cup Answered

HandledIsTaken == atomic => Taken(file)

-----------------------------------------------------------------------------
(* What comments of the code say and the code does not do *)

\* worker.go: "A reset during the turn keeps its new session."  A turn that
\* renewed its session overwrites it.
ResetKept ==
  [][atomic /\ SaveTurn /\ file.session \notin {turn.first, turn.state.session}
       => update'["worker"].new.session = file.session]_vars

\* store.go: "Update changes the state of one card atomically."  When that
\* fails, a turn removes a mention that it did not get: the reset wrote back a
\* queue without the items of the turn, and a scan then put another one there.
NoMentionDropped == Taken(file)
==============================================================================
