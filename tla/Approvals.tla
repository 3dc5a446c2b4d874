------------------------------ MODULE Approvals ------------------------------
(***************************************************************************)
(* The permission questions of one card: internal/daemon/approvals.go, and *)
(* the part of checkCard and findTriggers that runs beside them.           *)
(*                                                                         *)
(* A tool call of Claude asks the daemon for a permission.  One request at *)
(* a time passes the gate of the card; it posts a question with a code and *)
(* polls the comments for an answer.  The same comments are read by the    *)
(* scan of the card, for which a mention that looks like an answer is work *)
(* unless a question is open.  Turns follow each other on the card, so     *)
(* requests of an old turn and of a new one can meet at the gate.          *)
(***************************************************************************)
EXTENDS Naturals, Sequences, FiniteSets

CONSTANTS
  Requests,     \* tool calls that need a permission
  Commands,     \* shell commands
  CommandOf,    \* the command of a request, or NoCommand for other tools
  NoCommand,
  Codes,        \* request codes: two questions can get the same one
  Remarks,      \* what people can write in a comment
  MaxComments,  \* bound of the model
  MaxTurns      \* bound of the model

\* mention: of the bot; by: a trusted person or not; says: what
\* parseApprovalAnswer makes of it, with its code.
RemarkRecord == [mention : BOOLEAN, trusted : BOOLEAN,
                 says : {"other", "yes", "always", "no"}, code : Codes]

ASSUME RequestsAssumption ==
  /\ CommandOf \in [Requests -> Commands \cup {NoCommand}]
  /\ NoCommand \notin Commands
ASSUME RemarksAssumption == Remarks \subseteq RemarkRecord
ASSUME CodesAssumption == Codes # {}
ASSUME BoundsAssumption == MaxComments \in Nat /\ MaxTurns \in Nat \ {0}

VARIABLES
  comments,  \* the comments on the card: remarks of people, and questions
  handled,   \* CardState.Handled: numbers of comments
  queued,    \* the comments that became items of the queue
  allowed,   \* CardState.AllowedCommands
  turn,      \* the number of the turn of the card, and whether it runs
  gate,      \* the requests that hold the gate of the card
  request,   \* the calls of requestApproval
  scan,      \* checkCard
  answerOf   \* history: answerOf[r] is the comment that answered request r

store == <<handled, queued, allowed>>
vars == <<comments, store, turn, gate, request, scan, answerOf>>

-----------------------------------------------------------------------------
(* Types and initial values *)

Numbers == 1..MaxComments
None == 0

\* question: a comment of the daemon with a code.
Question(code) == [question |-> TRUE, code |-> code]
IsQuestion(c) == "question" \in DOMAIN c
CommentRecord == RemarkRecord \cup [question : {TRUE}, code : Codes]

Ats == {"new", "gate", "allowed", "ask", "wait", "found", "leave", "last", "done"}

\* turn: the turn that asked; asked: its question; found: the comment that the
\* poll found, with what it said.
RequestRecord ==
  [at : Ats, turn : 0..MaxTurns, code : Codes, asked : Numbers \cup {None},
   found : Numbers \cup {None}, says : {"other", "yes", "always", "no"},
   approved : BOOLEAN]
NewRequest == [at |-> "new", turn |-> 0, code |-> CHOOSE k \in Codes : TRUE,
               asked |-> None, found |-> None, says |-> "other", approved |-> FALSE]

\* work and answers: the new mentions that the scan read, by what they say.
ScanRecord == [at : {"idle", "find", "record"},
               work : SUBSET Numbers, answers : SUBSET Numbers]
NoScan == [at |-> "idle", work |-> {}, answers |-> {}]

\* The type invariant.
TypeOK ==
  /\ comments \in Seq(CommentRecord)
  /\ handled \subseteq Numbers
  /\ queued \subseteq Numbers
  /\ allowed \subseteq Commands
  /\ turn \in [number : 1..MaxTurns, live : BOOLEAN]
  /\ gate \subseteq Requests
  /\ request \in [Requests -> RequestRecord]
  /\ scan \in ScanRecord
  /\ answerOf \in [Requests -> Numbers \cup {None}]

Init ==
  /\ comments = <<>>
  /\ handled = {}
  /\ queued = {}
  /\ allowed = {}
  /\ turn = [number |-> 1, live |-> TRUE]
  /\ gate = {}
  /\ request = [r \in Requests |-> NewRequest]
  /\ scan = NoScan
  /\ answerOf = [r \in Requests |-> None]

At(r, at) == request[r].at = at
Goto(r, at) == request' = [request EXCEPT ![r].at = at]

\* t.ctx of the turn that asked.
Alive(r) == turn.live /\ request[r].turn = turn.number

\* approvalPending: requests that wait for the gate count too.
Pending == \E r \in Requests : request[r].at \notin {"new", "done"}

-----------------------------------------------------------------------------
(* People, and the turns of the card *)

Write(c) ==
  /\ Len(comments) < MaxComments
  /\ comments' = Append(comments, c)
  /\ UNCHANGED <<store, turn, gate, request, scan, answerOf>>

\* A person makes an answer of a comment that was none.
Edit(k, c) ==
  /\ ~ IsQuestion(comments[k])
  /\ comments[k].says = "other" /\ c.says # "other"
  /\ c.trusted = comments[k].trusted /\ c.mention = comments[k].mention
  /\ comments' = [comments EXCEPT ![k] = c]
  /\ UNCHANGED <<store, turn, gate, request, scan, answerOf>>

EndTurn ==
  /\ turn.live
  /\ turn' = [turn EXCEPT !.live = FALSE]
  /\ UNCHANGED <<comments, store, gate, request, scan, answerOf>>

NextTurn ==
  /\ ~ turn.live
  /\ turn.number < MaxTurns
  /\ turn' = [number |-> turn.number + 1, live |-> TRUE]
  /\ UNCHANGED <<comments, store, gate, request, scan, answerOf>>

-----------------------------------------------------------------------------
(* requestApproval *)

Ask(r) ==
  /\ At(r, "new")
  /\ turn.live
  /\ request' = [request EXCEPT ![r].at = "gate", ![r].turn = turn.number]
  /\ UNCHANGED <<comments, store, turn, gate, scan, answerOf>>

\* gate <- struct{}{}.  A mutant: the channel has room for two.
GateForTwo == Cardinality(gate) < 2
GateFree == gate = {}

TakeGate(r) ==
  /\ At(r, "gate")
  /\ GateFree
  /\ gate' = gate \cup {r}
  /\ Goto(r, "allowed")
  /\ UNCHANGED <<comments, store, turn, scan, answerOf>>

\* The end of the turn, or the one deadline of both waits.  A mutant: only the
\* wait for the gate has a deadline.
WaitsForGate(r) == At(r, "gate")
Waits(r) == request[r].at \in {"gate", "wait"}

GiveUp(r) ==
  /\ Waits(r)
  /\ Goto(r, IF At(r, "gate") THEN "last" ELSE "leave")
  /\ UNCHANGED <<comments, store, turn, gate, scan, answerOf>>

\* An `always' of an earlier question permits the same command.
CheckAllowed(r) ==
  /\ At(r, "allowed")
  /\ IF CommandOf[r] \in allowed /\ Alive(r)
     THEN request' = [request EXCEPT ![r].at = "leave", ![r].approved = TRUE]
     ELSE Goto(r, "ask")
  /\ UNCHANGED <<comments, store, turn, gate, scan, answerOf>>

PostQuestion(r, code) ==
  /\ At(r, "ask")
  /\ Alive(r)
  /\ Len(comments) < MaxComments
  /\ comments' = Append(comments, Question(code))
  /\ request' = [request EXCEPT ![r].at = "wait", ![r].code = code,
                                ![r].asked = Len(comments) + 1]
  /\ UNCHANGED <<store, turn, gate, scan, answerOf>>

\* CreateComment failed, or only its response was lost.
PostFails(r, code) ==
  /\ At(r, "ask")
  /\ Goto(r, "leave")
  /\ \/ UNCHANGED comments
     \/ Len(comments) < MaxComments /\ comments' = Append(comments, Question(code))
  /\ UNCHANGED <<store, turn, gate, scan, answerOf>>

\* findApprovalAnswer: the first answer after the question.  A mutant: an older
\* comment is an answer too.
AnswersEver(r, k) ==
  LET c == comments[k]
  IN  ~ IsQuestion(c) /\ c.trusted /\ c.says # "other" /\ c.code = request[r].code
Answers(r, k) ==
  LET c == comments[k]
  IN  /\ k > request[r].asked
      /\ ~ IsQuestion(c) /\ c.trusted /\ c.says # "other" /\ c.code = request[r].code

Found(r) == {k \in DOMAIN comments : Answers(r, k)}
First(S) == CHOOSE k \in S : \A j \in S : k <= j

Poll(r) ==
  /\ At(r, "wait")
  /\ Alive(r)
  /\ Found(r) # {}
  /\ LET k == First(Found(r))
     IN  request' = [request EXCEPT ![r].at = "found", ![r].found = k,
                                    ![r].says = comments[k].says]
  /\ UNCHANGED <<comments, store, turn, gate, scan, answerOf>>

\* The Update after the poll: the answer counts only while the turn is alive,
\* and one time.
Counts(r) == Alive(r) /\ request[r].found \notin handled

Answer(r) ==
  /\ At(r, "found")
  /\ Counts(r)
  /\ LET k == request[r].found
     IN  /\ handled' = handled \cup {k}
         /\ answerOf' = [answerOf EXCEPT ![r] = k]
  /\ allowed' = IF request[r].says = "always" /\ CommandOf[r] # NoCommand
                THEN allowed \cup {CommandOf[r]} ELSE allowed
  /\ request' = [request EXCEPT ![r].at = "leave",
                                ![r].approved = request[r].says # "no"]
  /\ UNCHANGED <<comments, queued, turn, gate, scan>>

KeepWaiting(r) ==
  /\ At(r, "found")
  /\ ~ Counts(r)
  /\ request' = [request EXCEPT ![r].at = "wait", ![r].found = None, ![r].says = "other"]
  /\ UNCHANGED <<comments, store, turn, gate, scan, answerOf>>

\* The deferred functions: the gate, and then the count of pending requests.
Leave(r) ==
  /\ At(r, "leave")
  /\ gate' = gate \ {r}
  /\ Goto(r, "last")
  /\ UNCHANGED <<comments, store, turn, scan, answerOf>>

Finish(r) ==
  /\ At(r, "last")
  /\ Goto(r, "done")
  /\ UNCHANGED <<comments, store, turn, gate, scan, answerOf>>

-----------------------------------------------------------------------------
(* checkCard *)

NewMentions ==
  {k \in DOMAIN comments \ handled : ~ IsQuestion(comments[k]) /\ comments[k].mention}

\* Comments, and store.Get at the same time: what is handled in between fails
\* the test of the Update.  A scan with no new mention changes nothing.
ScanReads ==
  /\ scan.at = "idle"
  /\ NewMentions # {}
  /\ scan' = [at |-> "find",
              work |-> {k \in NewMentions : comments[k].says = "other"},
              answers |-> {k \in NewMentions : comments[k].says # "other"}]
  /\ UNCHANGED <<comments, store, turn, gate, request, answerOf>>

\* findTriggers, which asks now whether a question is open.
Triggers == IF Pending THEN scan.work ELSE scan.work \cup scan.answers

ScanFinds ==
  /\ scan.at = "find"
  /\ scan' = IF Triggers = {} THEN NoScan
             ELSE [NoScan EXCEPT !.at = "record", !.work = Triggers]
  /\ UNCHANGED <<comments, store, turn, gate, request, answerOf>>

\* The Update tests again what is handled.  A mutant: it does not.
FoundByScan == scan.work
StillNew == scan.work \ handled

ScanRecords ==
  /\ scan.at = "record"
  /\ handled' = handled \cup StillNew
  /\ queued' = queued \cup {k \in StillNew : comments[k].trusted}
  /\ scan' = NoScan
  /\ UNCHANGED <<comments, allowed, turn, gate, request, answerOf>>

-----------------------------------------------------------------------------

Step(r) ==
  \/ CheckAllowed(r) \/ Answer(r) \/ KeepWaiting(r) \/ Leave(r) \/ Finish(r)
  \/ \E code \in Codes : PostQuestion(r, code) \/ PostFails(r, code)

Scan == ScanReads \/ ScanFinds \/ ScanRecords

Next ==
  \/ \E c \in Remarks : Write(c)
  \/ \E k \in DOMAIN comments, c \in Remarks : Edit(k, c)
  \/ EndTurn \/ NextTurn
  \/ \E r \in Requests : Ask(r) \/ TakeGate(r) \/ GiveUp(r) \/ Poll(r) \/ Step(r)
  \/ Scan

Spec == Init /\ [][Next]_vars

\* The goroutine of each request goes on, and its timer fires: once it has
\* fired, each later wait sees it at once.  Nobody has to answer, no turn has
\* to end, and the gate has no order.
Fairness == \A r \in Requests : WF_vars(Step(r)) /\ SF_vars(GiveUp(r))

FairSpec == Spec /\ Fairness

-----------------------------------------------------------------------------
(* Safety *)

\* A request is approved only by a trusted person: with an answer to its own
\* question, written after it, or with an `always' to a question about the
\* identical command.
Permits(r, k) ==
  /\ k > request[r].asked /\ request[r].asked # None
  /\ comments[k].trusted /\ comments[k].says \in {"yes", "always"}
  /\ comments[k].code = comments[request[r].asked].code

ApprovedByPerson ==
  \A r \in Requests : request[r].approved =>
    \/ answerOf[r] # None /\ Permits(r, answerOf[r])
    \/ \E s \in Requests : /\ answerOf[s] # None /\ Permits(s, answerOf[s])
                           /\ comments[answerOf[s]].says = "always"
                           /\ CommandOf[s] = CommandOf[r] /\ CommandOf[r] # NoCommand

\* A comment is one thing: the answer to one request, or work for a turn.
OneUseOfAComment ==
  /\ \A r \in Requests : answerOf[r] \notin queued
  /\ \A r, s \in Requests : answerOf[r] = answerOf[s] /\ answerOf[r] # None => r = s

\* A card has one open question at a time, also when an old turn and a new one
\* ask.
OneOpenQuestion ==
  Cardinality({r \in Requests : request[r].at \in {"wait", "found"}}) <= 1

-----------------------------------------------------------------------------
(* Progress, under FairSpec *)

\* Each request ends, also when nobody answers, the answer does not count, or
\* others are before it at the gate.
RequestsEnd == \A r \in Requests : At(r, "gate") ~> At(r, "done")

-----------------------------------------------------------------------------
(* What a comment of the code says and the code does not do *)

\* approvals.go: "a comment that was edited into an answer counts too, if it is
\* after the question."  When the comment was a mention and is work already, it
\* does not count, and it hides all later answers from the poll.
AnswersCount ==
  [][\A r \in Requests : At(r, "wait") /\ Poll(r)
       => \/ request'[r].found \notin handled
          \/ Found(r) \subseteq handled]_vars
==============================================================================
