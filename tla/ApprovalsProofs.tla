--------------------------- MODULE ApprovalsProofs ---------------------------
(***************************************************************************)
(* Proofs about Approvals for every value of its constants: types, one     *)
(* open question, one use of a comment, and approval only by a person.     *)
(***************************************************************************)
EXTENDS Approvals, SequenceTheorems, FiniteSetTheorems,
        WellFoundedInduction, TLAPS

-----------------------------------------------------------------------------
(* The invariant *)

\* TypeOK, and the bound on the comments, from which it follows that each number
\* of a comment is in Numbers.
Types ==
  /\ TypeOK
  /\ Len(comments) <= MaxComments

\* The steps between the gate and the deferred functions.
Inside == {"allowed", "ask", "wait", "found", "leave"}

\* The request that is inside has the gate, which has room for one; no other
\* holds it.
GateHeld ==
  /\ \A r \in Requests : request[r].at \in Inside <=> r \in gate
  /\ \A r, s \in gate : r = s

\* The question of a request is on the card, with its code.
Asked(r) ==
  /\ request[r].at \in {"wait", "found"} => request[r].asked # None
  /\ request[r].asked # None =>
       /\ request[r].asked \in DOMAIN comments
       /\ IsQuestion(comments[request[r].asked])
       /\ comments[request[r].asked].code = request[r].code

\* Comment k answers request r, and says what r has recorded.
IsAnswer(r, k) ==
  /\ request[r].asked # None
  /\ k \in DOMAIN comments
  /\ Answers(r, k)
  /\ comments[k].says = request[r].says

\* What the poll found, and what the Update recorded.
Recorded(r) ==
  /\ At(r, "found") => IsAnswer(r, request[r].found)
  /\ answerOf[r] # None =>
       /\ request[r].at \in {"leave", "last", "done"}
       /\ IsAnswer(r, answerOf[r])
       /\ answerOf[r] \in handled

\* Why a request is approved.
Approved(r) ==
  request[r].approved =>
    \/ answerOf[r] # None /\ request[r].says \in {"yes", "always"}
    \/ CommandOf[r] \in allowed

\* A command is allowed by an `always' to a question about it.
Grants ==
  \A c \in allowed : \E s \in Requests :
    answerOf[s] # None /\ request[s].says = "always" /\ CommandOf[s] = c

\* What a scan queues is handled, and each answer has one request.
Uses ==
  /\ queued \subseteq handled
  /\ OneUseOfAComment

IInv ==
  /\ Types
  /\ GateHeld
  /\ \A r \in Requests : Asked(r) /\ Recorded(r) /\ Approved(r)
  /\ Grants
  /\ Uses

-----------------------------------------------------------------------------
(* Types *)

LEMMA InitTypes == Init => Types
<1> SUFFICES ASSUME Init PROVE Types
  OBVIOUS
<1>1. NewRequest \in RequestRecord
  BY CodesAssumption, BoundsAssumption DEF NewRequest, RequestRecord, Ats, Numbers, None
<1>2. Len(comments) = 0 /\ comments \in Seq(CommentRecord)
  BY DEF Init
<1>3. turn \in [number : 1..MaxTurns, live : BOOLEAN]
  BY BoundsAssumption DEF Init
<1>4. scan \in ScanRecord
  BY DEF Init, NoScan, ScanRecord
<1> QED BY <1>1, <1>2, <1>3, <1>4, BoundsAssumption DEF Init, Types, TypeOK, None

\* Questions and remarks are comments, and are told apart.
LEMMA QuestionFacts ==
  ASSUME NEW code \in Codes
  PROVE  /\ Question(code) \in CommentRecord
         /\ IsQuestion(Question(code))
         /\ Question(code).code = code
BY DEF Question, CommentRecord, IsQuestion

LEMMA RemarkFacts ==
  ASSUME NEW c \in Remarks
  PROVE  c \in CommentRecord /\ ~ IsQuestion(c)
<1>1. c \in RemarkRecord
  BY RemarksAssumption
<1>2. DOMAIN c = {"mention", "trusted", "says", "code"}
  BY <1>1 DEF RemarkRecord
<1> QED BY <1>1, <1>2 DEF CommentRecord, IsQuestion

\* A comment that is no question is a remark.
LEMMA NoQuestionFacts ==
  ASSUME NEW c \in CommentRecord, ~ IsQuestion(c)
  PROVE  c \in RemarkRecord
BY DEF CommentRecord, IsQuestion

\* The numbers of the comments.
LEMMA CommentNumbers ==
  ASSUME Types
  PROVE  /\ Len(comments) \in Nat
         /\ DOMAIN comments = 1..Len(comments)
         /\ DOMAIN comments \subseteq Numbers
<1>1. comments \in Seq(CommentRecord) /\ Len(comments) <= MaxComments
  BY DEF Types, TypeOK
<1>2. Len(comments) \in Nat /\ DOMAIN comments = 1..Len(comments)
  BY <1>1, LenProperties
<1> QED BY <1>1, <1>2, BoundsAssumption DEF Numbers

\* A new comment keeps the others.
LEMMA AppendFacts ==
  ASSUME Types, NEW c \in CommentRecord, Len(comments) < MaxComments,
         comments' = Append(comments, c)
  PROVE  /\ comments' \in Seq(CommentRecord)
         /\ Len(comments') = Len(comments) + 1
         /\ DOMAIN comments' = 1..Len(comments) + 1
         /\ Len(comments') <= MaxComments
         /\ \A k \in DOMAIN comments : comments'[k] = comments[k]
         /\ comments'[Len(comments) + 1] = c
<1>1. comments \in Seq(CommentRecord) /\ DOMAIN comments = 1..Len(comments)
      /\ Len(comments) \in Nat
  BY CommentNumbers DEF Types, TypeOK
<1>2. /\ comments' \in Seq(CommentRecord)
      /\ Len(comments') = Len(comments) + 1
      /\ \A k \in 1..Len(comments) : comments'[k] = comments[k]
      /\ comments'[Len(comments) + 1] = c
  BY <1>1, AppendProperties
<1>3. DOMAIN comments' = 1..Len(comments')
  BY <1>2, LenProperties
<1> QED BY <1>1, <1>2, <1>3, BoundsAssumption

\* An edit keeps questions and answers.
LEMMA EditFacts ==
  ASSUME Types, NEW k \in DOMAIN comments, NEW c \in Remarks, Edit(k, c)
  PROVE  /\ comments' \in Seq(CommentRecord)
         /\ Len(comments') = Len(comments)
         /\ DOMAIN comments' = DOMAIN comments
         /\ \A j \in DOMAIN comments :
              IsQuestion(comments[j]) \/ comments[j].says # "other"
                => comments'[j] = comments[j]
<1>1. comments \in Seq(CommentRecord) /\ DOMAIN comments = 1..Len(comments)
  BY CommentNumbers DEF Types, TypeOK
<1>2. c \in CommentRecord
  BY RemarkFacts
<1>3. comments' = [comments EXCEPT ![k] = c]
  BY DEF Edit
<1>4. comments' \in Seq(CommentRecord) /\ Len(comments') = Len(comments)
      /\ DOMAIN comments' = DOMAIN comments
  BY <1>1, <1>2, <1>3, ExceptSeq
<1>5. ~ IsQuestion(comments[k]) /\ comments[k].says = "other"
  BY DEF Edit
<1> QED BY <1>1, <1>3, <1>4, <1>5

\* Request r gets the record x, and the others keep theirs.
Becomes(r, x) ==
  /\ x \in RequestRecord
  /\ request' \in [Requests -> RequestRecord]
  /\ request'[r] = x
  /\ \A q \in Requests \ {r} : request'[q] = request[q]

LEMMA BecomesIt ==
  ASSUME Types, NEW r \in Requests, NEW x \in RequestRecord,
         request' = [request EXCEPT ![r] = x]
  PROVE  Becomes(r, x)
BY DEF Becomes, Types, TypeOK

\* The record that each kind of step gives its request.
LEMMA GotoBecomes ==
  ASSUME Types, NEW r \in Requests, NEW x \in Ats, Goto(r, x)
  PROVE  Becomes(r, [request[r] EXCEPT !.at = x])
<1>1. request[r] \in RequestRecord
  BY DEF Types, TypeOK
<1>2. [request[r] EXCEPT !.at = x] \in RequestRecord
  BY <1>1 DEF RequestRecord
<1>3. request' = [request EXCEPT ![r] = [request[r] EXCEPT !.at = x]]
  BY DEF Goto, Types, TypeOK
<1> QED BY <1>2, <1>3, BecomesIt

LEMMA AskBecomes ==
  ASSUME Types, NEW r \in Requests, Ask(r)
  PROVE  Becomes(r, [request[r] EXCEPT !.at = "gate", !.turn = turn.number])
<1> DEFINE x == [request[r] EXCEPT !.at = "gate", !.turn = turn.number]
<1>1. request[r] \in RequestRecord /\ turn.number \in 0..MaxTurns
  BY BoundsAssumption DEF Types, TypeOK, Numbers
<1>2. x \in RequestRecord
  BY <1>1 DEF RequestRecord, Ats
<1>3. request' = [request EXCEPT ![r] = x]
  BY DEF Ask, Types, TypeOK
<1> QED BY <1>2, <1>3, BecomesIt

LEMMA AllowedBecomes ==
  ASSUME Types, NEW r \in Requests, CheckAllowed(r), CommandOf[r] \in allowed /\ Alive(r)
  PROVE  Becomes(r, [request[r] EXCEPT !.at = "leave", !.approved = TRUE])
<1> DEFINE x == [request[r] EXCEPT !.at = "leave", !.approved = TRUE]
<1>1. request[r] \in RequestRecord
  BY DEF Types, TypeOK, Numbers
<1>2. x \in RequestRecord
  BY <1>1 DEF RequestRecord, Ats
<1>3. request' = [request EXCEPT ![r] = x]
  BY DEF CheckAllowed, Types, TypeOK
<1> QED BY <1>2, <1>3, BecomesIt

LEMMA PostBecomes ==
  ASSUME Types, NEW r \in Requests, NEW code \in Codes, PostQuestion(r, code)
  PROVE  Becomes(r, [request[r] EXCEPT !.at = "wait", !.code = code, !.asked = Len(comments) + 1])
<1> DEFINE x == [request[r] EXCEPT !.at = "wait", !.code = code, !.asked = Len(comments) + 1]
<1>1. request[r] \in RequestRecord
      /\ Len(comments) + 1 \in Numbers
  BY BoundsAssumption, CommentNumbers DEF PostQuestion, Types, TypeOK, Numbers
<1>2. x \in RequestRecord
  BY <1>1 DEF RequestRecord, Ats
<1>3. request' = [request EXCEPT ![r] = x]
  BY DEF PostQuestion, Types, TypeOK
<1> QED BY <1>2, <1>3, BecomesIt

LEMMA AnswerBecomes ==
  ASSUME Types, NEW r \in Requests, Answer(r)
  PROVE  Becomes(r, [request[r] EXCEPT !.at = "leave", !.approved = request[r].says # "no"])
<1> DEFINE x == [request[r] EXCEPT !.at = "leave", !.approved = request[r].says # "no"]
<1>1. request[r] \in RequestRecord
  BY DEF Types, TypeOK, Numbers
<1>2. x \in RequestRecord
  BY <1>1 DEF RequestRecord, Ats
<1>3. request' = [request EXCEPT ![r] = x]
  BY DEF Answer, Types, TypeOK
<1> QED BY <1>2, <1>3, BecomesIt

LEMMA KeepBecomes ==
  ASSUME Types, NEW r \in Requests, KeepWaiting(r)
  PROVE  Becomes(r, [request[r] EXCEPT !.at = "wait", !.found = None, !.says = "other"])
<1> DEFINE x == [request[r] EXCEPT !.at = "wait", !.found = None, !.says = "other"]
<1>1. request[r] \in RequestRecord
  BY DEF Types, TypeOK, Numbers
<1>2. x \in RequestRecord
  BY <1>1 DEF RequestRecord, Ats
<1>3. request' = [request EXCEPT ![r] = x]
  BY DEF KeepWaiting, Types, TypeOK
<1> QED BY <1>2, <1>3, BecomesIt

\* A nonempty set of numbers has a least one.
LEMMA LeastNumber ==
  ASSUME NEW n \in Nat, NEW S \in SUBSET (1..n), S # {}
  PROVE  \E k \in S : \A j \in S : k <= j
<1>0. S \subseteq Nat
  OBVIOUS
<1> DEFINE Less == {p \in Nat \X Nat : p[1] < p[2]}
<1>1. IsWellFoundedOn(Less, Nat)
  BY NatLessThanWellFounded DEF OpToRel
<1>2. PICK k \in S : \A j \in S : <<j, k>> \notin Less
  <2> HIDE DEF Less
  <2> QED BY <1>0, <1>1, WFMin
<1>3. \A j \in S : k <= j
  <2> SUFFICES ASSUME NEW j \in S PROVE k <= j
    OBVIOUS
  <2>1. j \in Nat /\ k \in Nat
    BY <1>0
  <2>2. ~ (j < k)
    BY <1>2, <2>1
  <2> QED BY <2>1, <2>2
<1> QED BY <1>3

\* The poll finds an answer: the first after the question.
LEMMA PollBecomes ==
  ASSUME Types, NEW r \in Requests, Poll(r)
  PROVE  \E k \in DOMAIN comments :
           /\ Answers(r, k)
           /\ Becomes(r, [request[r] EXCEPT !.at = "found", !.found = k,
                                            !.says = comments[k].says])
<1>1. Found(r) # {} /\ Found(r) \subseteq 1..Len(comments) /\ Len(comments) \in Nat
  BY CommentNumbers DEF Poll, Found
<1>2. PICK k \in Found(r) : k = First(Found(r))
  BY <1>1, LeastNumber DEF First
<1>3. k \in DOMAIN comments /\ Answers(r, k) /\ ~ IsQuestion(comments[k])
  BY <1>2 DEF Found, Answers
<1>4. comments[k] \in RemarkRecord /\ k \in Numbers
  BY <1>3, CommentNumbers, ElementOfSeq, NoQuestionFacts DEF Types, TypeOK
<1> DEFINE x == [request[r] EXCEPT !.at = "found", !.found = k, !.says = comments[k].says]
<1>5. request[r] \in RequestRecord /\ comments[k].says \in {"other", "yes", "always", "no"}
  BY <1>4 DEF Types, TypeOK, RemarkRecord
<1>6. x \in RequestRecord
  BY <1>4, <1>5 DEF RequestRecord, Ats
<1>7. request' = [request EXCEPT ![r] = x]
  BY <1>2 DEF Poll, Types, TypeOK
<1> QED BY <1>3, <1>6, <1>7, BecomesIt

\* Each step keeps the types.
LEMMA TypesStep ==
  ASSUME IInv, [Next]_vars PROVE Types'
<1> USE DEF IInv
<1>1. Types
  OBVIOUS
<1>2. CASE UNCHANGED vars
  BY <1>1, <1>2 DEF vars, store, Types, TypeOK
<1>3. ASSUME NEW c \in Remarks, Write(c) PROVE Types'
  <2>1. c \in CommentRecord
    BY RemarkFacts
  <2>2. comments' \in Seq(CommentRecord) /\ Len(comments') <= MaxComments
    BY <1>1, <1>3, <2>1, AppendFacts DEF Write
  <2> QED BY <1>1, <1>3, <2>2 DEF Write, store, Types, TypeOK
<1>4. ASSUME NEW k \in DOMAIN comments, NEW c \in Remarks, Edit(k, c) PROVE Types'
  <2>1. comments' \in Seq(CommentRecord) /\ Len(comments') <= MaxComments
    BY <1>1, <1>4, EditFacts DEF Types
  <2> QED BY <1>1, <1>4, <2>1 DEF Edit, store, Types, TypeOK
<1>5. CASE EndTurn \/ NextTurn
  <2>1. turn \in [number : 1..MaxTurns, live : BOOLEAN]
    BY <1>1 DEF Types, TypeOK
  <2>2. NextTurn => turn.number + 1 \in 1..MaxTurns
    BY <2>1, BoundsAssumption DEF NextTurn
  <2>3. turn' \in [number : 1..MaxTurns, live : BOOLEAN]
    <3>1. CASE EndTurn
      BY <2>1, <3>1 DEF EndTurn
    <3>2. CASE NextTurn
      BY <2>2, <3>2 DEF NextTurn
    <3> QED BY <1>5, <3>1, <3>2
  <2> QED BY <1>1, <1>5, <2>3 DEF EndTurn, NextTurn, store, Types, TypeOK
<1>6. ASSUME NEW r \in Requests, Ask(r) PROVE Types'
  <2>1. request' \in [Requests -> RequestRecord]
    BY <1>1, <1>6, AskBecomes DEF Becomes
  <2> QED BY <1>1, <1>6, <2>1 DEF Ask, store, Types, TypeOK
<1>7. ASSUME NEW r \in Requests, TakeGate(r) PROVE Types'
  <2>1. request' \in [Requests -> RequestRecord]
    BY <1>1, <1>7, GotoBecomes DEF TakeGate, Ats, Becomes
  <2> QED BY <1>1, <1>7, <2>1 DEF TakeGate, store, Types, TypeOK
<1>8. ASSUME NEW r \in Requests, GiveUp(r) PROVE Types'
  <2>1. request' \in [Requests -> RequestRecord]
    BY <1>1, <1>8, GotoBecomes DEF GiveUp, Ats, Becomes
  <2> QED BY <1>1, <1>8, <2>1 DEF GiveUp, store, Types, TypeOK
<1>9. ASSUME NEW r \in Requests, CheckAllowed(r) PROVE Types'
  <2>1. request' \in [Requests -> RequestRecord]
    BY <1>1, <1>9, AllowedBecomes, GotoBecomes DEF CheckAllowed, Ats, Becomes
  <2> QED BY <1>1, <1>9, <2>1 DEF CheckAllowed, store, Types, TypeOK
<1>10. ASSUME NEW r \in Requests, NEW code \in Codes, PostQuestion(r, code) PROVE Types'
  <2>1. comments' \in Seq(CommentRecord) /\ Len(comments') <= MaxComments
    BY <1>1, <1>10, QuestionFacts, AppendFacts DEF PostQuestion
  <2>2. request' \in [Requests -> RequestRecord]
    BY <1>1, <1>10, PostBecomes DEF Becomes
  <2> QED BY <1>1, <1>10, <2>1, <2>2 DEF PostQuestion, store, Types, TypeOK
<1>11. ASSUME NEW r \in Requests, NEW code \in Codes, PostFails(r, code) PROVE Types'
  <2>1. request' \in [Requests -> RequestRecord]
    BY <1>1, <1>11, GotoBecomes DEF PostFails, Ats, Becomes
  <2>2. comments' \in Seq(CommentRecord) /\ Len(comments') <= MaxComments
    BY <1>1, <1>11, QuestionFacts, AppendFacts DEF PostFails, Types, TypeOK
  <2> QED BY <1>1, <1>11, <2>1, <2>2 DEF PostFails, store, Types, TypeOK
<1>12. ASSUME NEW r \in Requests, Poll(r) PROVE Types'
  <2>1. request' \in [Requests -> RequestRecord]
    BY <1>1, <1>12, PollBecomes DEF Becomes
  <2> QED BY <1>1, <1>12, <2>1 DEF Poll, store, Types, TypeOK
<1>13. ASSUME NEW r \in Requests, Answer(r) PROVE Types'
  <2>1. request[r].found \in Numbers
    BY <1>1, <1>13, CommentNumbers DEF Answer, Recorded, IsAnswer
  <2>2. handled' \subseteq Numbers /\ answerOf' \in [Requests -> Numbers \cup {None}]
    BY <1>1, <1>13, <2>1 DEF Answer, Types, TypeOK
  <2>3. allowed' \subseteq Commands
    BY <1>1, <1>13, RequestsAssumption DEF Answer, Types, TypeOK
  <2>4. request' \in [Requests -> RequestRecord]
    BY <1>1, <1>13, AnswerBecomes DEF Becomes
  <2> QED BY <1>1, <1>13, <2>2, <2>3, <2>4 DEF Answer, Types, TypeOK
<1>14. ASSUME NEW r \in Requests, KeepWaiting(r) PROVE Types'
  <2>1. request' \in [Requests -> RequestRecord]
    BY <1>1, <1>14, KeepBecomes DEF Becomes
  <2> QED BY <1>1, <1>14, <2>1 DEF KeepWaiting, store, Types, TypeOK
<1>15. ASSUME NEW r \in Requests, Leave(r) \/ Finish(r) PROVE Types'
  <2>1. request' \in [Requests -> RequestRecord]
    BY <1>1, <1>15, GotoBecomes DEF Leave, Finish, Ats, Becomes
  <2> QED BY <1>1, <1>15, <2>1 DEF Leave, Finish, store, Types, TypeOK
<1>16. CASE ScanReads
  <2>1. scan' \in ScanRecord
    BY <1>1, <1>16, CommentNumbers DEF ScanReads, NewMentions, ScanRecord
  <2> QED BY <1>1, <1>16, <2>1 DEF ScanReads, store, Types, TypeOK
<1>17. CASE ScanFinds
  <2>1. scan' \in ScanRecord
    BY <1>1, <1>17 DEF ScanFinds, Triggers, NoScan, ScanRecord, Types, TypeOK
  <2> QED BY <1>1, <1>17, <2>1 DEF ScanFinds, store, Types, TypeOK
<1>18. CASE ScanRecords
  <2>1. scan' \in ScanRecord /\ scan.work \subseteq Numbers
    BY <1>1, <1>18 DEF ScanRecords, NoScan, ScanRecord, Types, TypeOK
  <2> QED BY <1>1, <1>18, <2>1 DEF ScanRecords, StillNew, Types, TypeOK
<1> QED
  BY <1>2, <1>3, <1>4, <1>5, <1>6, <1>7, <1>8, <1>9, <1>10, <1>11, <1>12, <1>13,
     <1>14, <1>15, <1>16, <1>17, <1>18 DEF Next, Step, Scan

-----------------------------------------------------------------------------
(* The gate *)

\* A request is inside as before, and the gate is as it was.
LEMMA GateKept ==
  ASSUME GateHeld, gate' = gate, NEW r \in Requests, NEW x, Becomes(r, x),
         x.at \in Inside <=> request[r].at \in Inside
  PROVE  GateHeld'
BY DEF GateHeld, Becomes

\* Each step keeps the gate.
LEMMA GateStep ==
  ASSUME IInv, [Next]_vars PROVE GateHeld'
<1>1. Types /\ GateHeld
  BY DEF IInv
<1>r. \A r \in Requests : request[r] \in RequestRecord
  BY <1>1 DEF Types, TypeOK
<1>2. ASSUME UNCHANGED <<gate, request>> PROVE GateHeld'
  BY <1>1, <1>2 DEF GateHeld
<1>3. ASSUME NEW r \in Requests, Ask(r) PROVE GateHeld'
  <2>1. Becomes(r, [request[r] EXCEPT !.at = "gate", !.turn = turn.number])
    BY <1>1, <1>3, AskBecomes
  <2>2. gate' = gate /\ request[r] \in RequestRecord
    BY <1>1, <1>3 DEF Ask, Types, TypeOK
  <2>3. request[r].at = "new"
    BY <1>3 DEF Ask, At
  <2> QED BY <1>1, <2>1, <2>2, <2>3, GateKept DEF Inside, RequestRecord
<1>4. ASSUME NEW r \in Requests, TakeGate(r) PROVE GateHeld'
  <2>1. Becomes(r, [request[r] EXCEPT !.at = "allowed"])
    BY <1>1, <1>4, GotoBecomes DEF TakeGate, Ats
  <2>2. gate = {} /\ gate' = {r}
    BY <1>4 DEF TakeGate, GateFree
  <2>3. request'[r].at \in Inside /\ \A q \in Requests \ {r} : request'[q].at \notin Inside
    BY <1>1, <1>r, <2>1, <2>2 DEF GateHeld, Becomes, Inside, RequestRecord
  <2> QED BY <2>2, <2>3 DEF GateHeld
<1>5. ASSUME NEW r \in Requests, GiveUp(r) PROVE GateHeld'
  <2>1. \/ At(r, "gate") /\ Becomes(r, [request[r] EXCEPT !.at = "last"])
        \/ At(r, "wait") /\ Becomes(r, [request[r] EXCEPT !.at = "leave"])
    BY <1>1, <1>5, GotoBecomes DEF GiveUp, Waits, At, Ats
  <2>2. gate' = gate /\ request[r] \in RequestRecord
    BY <1>1, <1>5 DEF GiveUp, Types, TypeOK
  <2> QED BY <1>1, <2>1, <2>2, GateKept DEF Inside, At, RequestRecord
<1>6. ASSUME NEW r \in Requests, CheckAllowed(r) PROVE GateHeld'
  <2>1. \/ Becomes(r, [request[r] EXCEPT !.at = "leave", !.approved = TRUE])
        \/ Becomes(r, [request[r] EXCEPT !.at = "ask"])
    BY <1>1, <1>6, AllowedBecomes, GotoBecomes DEF CheckAllowed, Ats
  <2>2. gate' = gate /\ request[r].at \in Inside
    BY <1>6 DEF CheckAllowed, At, Inside
  <2> QED BY <1>1, <1>r, <2>1, <2>2, GateKept DEF Inside, RequestRecord
<1>7. ASSUME NEW r \in Requests, NEW code \in Codes, PostQuestion(r, code) PROVE GateHeld'
  BY <1>1, <1>r, <1>7, PostBecomes, GateKept DEF PostQuestion, At, Inside, RequestRecord
<1>8. ASSUME NEW r \in Requests, NEW code \in Codes, PostFails(r, code) PROVE GateHeld'
  BY <1>1, <1>r, <1>8, GotoBecomes, GateKept DEF PostFails, At, Inside, Ats, RequestRecord
<1>9. ASSUME NEW r \in Requests, Poll(r) PROVE GateHeld'
  BY <1>1, <1>r, <1>9, PollBecomes, GateKept DEF Poll, At, Inside, RequestRecord
<1>10. ASSUME NEW r \in Requests, Answer(r) PROVE GateHeld'
  BY <1>1, <1>r, <1>10, AnswerBecomes, GateKept DEF Answer, At, Inside, RequestRecord
<1>11. ASSUME NEW r \in Requests, KeepWaiting(r) PROVE GateHeld'
  BY <1>1, <1>r, <1>11, KeepBecomes, GateKept DEF KeepWaiting, At, Inside, RequestRecord
<1>12. ASSUME NEW r \in Requests, Leave(r) PROVE GateHeld'
  <2>1. Becomes(r, [request[r] EXCEPT !.at = "last"])
    BY <1>1, <1>12, GotoBecomes DEF Leave, Ats
  <2>2. gate' = gate \ {r} /\ request[r] \in RequestRecord
    BY <1>1, <1>12 DEF Leave, Types, TypeOK
  <2> QED BY <1>1, <2>1, <2>2 DEF GateHeld, Becomes, Inside, RequestRecord
<1>13. ASSUME NEW r \in Requests, Finish(r) PROVE GateHeld'
  <2>1. Becomes(r, [request[r] EXCEPT !.at = "done"])
    BY <1>1, <1>13, GotoBecomes DEF Finish, Ats
  <2>2. gate' = gate /\ request[r] \in RequestRecord
    BY <1>1, <1>13 DEF Finish, Types, TypeOK
  <2>3. request[r].at = "last"
    BY <1>13 DEF Finish, At
  <2> QED BY <1>1, <2>1, <2>2, <2>3, GateKept DEF Inside, RequestRecord
<1>14. ASSUME \/ \E c \in Remarks : Write(c)
              \/ \E k \in DOMAIN comments, c \in Remarks : Edit(k, c)
              \/ EndTurn \/ NextTurn \/ Scan \/ UNCHANGED vars
       PROVE  GateHeld'
  BY <1>2, <1>14 DEF Write, Edit, EndTurn, NextTurn, Scan, ScanReads, ScanFinds,
     ScanRecords, vars
<1> QED
  BY <1>3, <1>4, <1>5, <1>6, <1>7, <1>8, <1>9, <1>10, <1>11, <1>12, <1>13, <1>14
  DEF Next, Step

-----------------------------------------------------------------------------
(* Questions and answers *)

Whole(q) == Asked(q) /\ Recorded(q) /\ Approved(q)

\* Questions and answers on the card stay.
CommentsStay ==
  /\ DOMAIN comments \subseteq DOMAIN comments'
  /\ \A k \in DOMAIN comments :
       IsQuestion(comments[k]) \/ comments[k].says # "other"
         => comments'[k] = comments[k]

LEMMA CommentsStayStep ==
  ASSUME Types, [Next]_vars PROVE CommentsStay
<1>1. CASE comments' = comments
  BY <1>1 DEF CommentsStay
<1>2. ASSUME NEW c \in CommentRecord, Len(comments) < MaxComments,
             comments' = Append(comments, c)
      PROVE  CommentsStay
  BY <1>2, AppendFacts, CommentNumbers DEF CommentsStay
<1>3. ASSUME NEW c \in Remarks, Write(c) PROVE CommentsStay
  BY <1>2, <1>3, RemarkFacts DEF Write
<1>4. ASSUME NEW k \in DOMAIN comments, NEW c \in Remarks, Edit(k, c) PROVE CommentsStay
  BY <1>4, EditFacts DEF CommentsStay
<1>5. ASSUME NEW r \in Requests, NEW code \in Codes,
             PostQuestion(r, code) \/ PostFails(r, code)
      PROVE  CommentsStay
  BY <1>1, <1>2, <1>5, QuestionFacts DEF PostQuestion, PostFails
<1>6. ASSUME NEW r \in Requests,
             \/ Ask(r) \/ TakeGate(r) \/ GiveUp(r) \/ CheckAllowed(r) \/ Poll(r)
             \/ Answer(r) \/ KeepWaiting(r) \/ Leave(r) \/ Finish(r)
      PROVE  comments' = comments
  BY <1>6 DEF Ask, TakeGate, GiveUp, CheckAllowed, Poll, Answer, KeepWaiting, Leave, Finish
<1>7. ASSUME EndTurn \/ NextTurn \/ Scan \/ UNCHANGED vars PROVE comments' = comments
  BY <1>7 DEF EndTurn, NextTurn, Scan, ScanReads, ScanFinds, ScanRecords, vars
<1> QED BY <1>1, <1>3, <1>4, <1>5, <1>6, <1>7 DEF Next, Step

\* Handled comments and allowed commands stay, and only Answer records one.
LEMMA StoreStays ==
  ASSUME [Next]_vars
  PROVE  /\ handled \subseteq handled' /\ allowed \subseteq allowed'
         /\ \/ UNCHANGED <<allowed, answerOf>>
            \/ \E r \in Requests : Answer(r)
BY DEF Next, Step, Scan, Write, Edit, EndTurn, NextTurn, Ask, TakeGate, GiveUp,
   CheckAllowed, PostQuestion, PostFails, Poll, Answer, KeepWaiting, Leave, Finish,
   ScanReads, ScanFinds, ScanRecords, store, vars

Late == {"leave", "last", "done"}

\* A request keeps its question and its answer, and does not go back.
LEMMA WholeKept ==
  ASSUME Types, CommentsStay, NEW q \in Requests, Whole(q),
         answerOf'[q] = answerOf[q], handled \subseteq handled', allowed \subseteq allowed',
         request'[q].asked = request[q].asked, request'[q].code = request[q].code,
         request'[q].found = request[q].found, request'[q].says = request[q].says,
         request'[q].approved = request[q].approved,
         request'[q].at \in {"wait", "found"} => request'[q].at = request[q].at,
         request[q].at \in Late => request'[q].at \in Late
  PROVE  Whole(q)'
<1>1. Asked(q)'
  BY DEF Whole, Asked, CommentsStay
<1>2. ASSUME NEW k, IsAnswer(q, k) PROVE IsAnswer(q, k)'
  BY <1>2 DEF IsAnswer, Answers, CommentsStay
<1>3. Recorded(q)'
  BY <1>2 DEF Whole, Recorded, At, Late
<1>4. Approved(q)'
  BY DEF Whole, Approved
<1> QED BY <1>1, <1>3, <1>4 DEF Whole

\* A request that only goes to another step.
LEMMA WholeGoto ==
  ASSUME Types, CommentsStay, NEW r \in Requests, Whole(r),
         answerOf' = answerOf, handled \subseteq handled', allowed \subseteq allowed',
         NEW x \in Ats, Goto(r, x), x \notin {"wait", "found"},
         request[r].at \in Late => x \in Late
  PROVE  Whole(r)'
<1>1. Becomes(r, [request[r] EXCEPT !.at = x]) /\ request[r] \in RequestRecord
  BY GotoBecomes DEF Types, TypeOK
<1> QED BY <1>1, WholeKept DEF Becomes, RequestRecord

\* Only one request changes, and answerOf changes only for it.
LEMMA OthersKept ==
  ASSUME Types, CommentsStay, NEW q \in Requests, Whole(q),
         answerOf'[q] = answerOf[q], handled \subseteq handled', allowed \subseteq allowed',
         request'[q] = request[q]
  PROVE  Whole(q)'
BY WholeKept

\* Each step keeps what a request knows of its question and its answer.
LEMMA WholeStep ==
  ASSUME IInv, [Next]_vars, NEW q \in Requests PROVE Whole(q)'
<1>1. Types /\ Whole(q) /\ CommentsStay /\ request[q] \in RequestRecord
  BY CommentsStayStep DEF IInv, Whole, Types, TypeOK
<1>2. handled \subseteq handled' /\ allowed \subseteq allowed'
  BY StoreStays
<1>3. ASSUME UNCHANGED <<answerOf, request>> PROVE Whole(q)'
  BY <1>1, <1>2, <1>3, OthersKept
<1>4. ASSUME NEW r \in Requests, r # q, NEW x, Becomes(r, x), answerOf' = answerOf
      PROVE  Whole(q)'
  BY <1>1, <1>2, <1>4, OthersKept DEF Becomes
<1>5. ASSUME NEW r \in Requests, NEW x \in Ats, Goto(r, x), answerOf' = answerOf,
             x \notin {"wait", "found"}, request[r].at \in Late => x \in Late
      PROVE  Whole(q)'
  <2>1. CASE r = q
    BY <1>1, <1>2, <1>5, <2>1, WholeGoto
  <2>2. CASE r # q
    BY <1>1, <1>4, <1>5, <2>2, GotoBecomes
  <2> QED BY <2>1, <2>2
<1>6. ASSUME NEW r \in Requests, Ask(r) PROVE Whole(q)'
  <2>1. Becomes(r, [request[r] EXCEPT !.at = "gate", !.turn = turn.number])
        /\ answerOf' = answerOf /\ At(r, "new")
    BY <1>1, <1>6, AskBecomes DEF Ask
  <2>2. CASE r = q
    BY <1>1, <1>2, <2>1, <2>2, WholeKept DEF Becomes, At, Late, RequestRecord
  <2> QED BY <1>4, <2>1, <2>2
<1>7. ASSUME NEW r \in Requests,
             TakeGate(r) \/ GiveUp(r) \/ Leave(r) \/ Finish(r)
             \/ \E code \in Codes : PostFails(r, code)
      PROVE  Whole(q)'
  BY <1>5, <1>7 DEF TakeGate, GiveUp, Waits, Leave, Finish, PostFails, At, Ats, Late
<1>8. ASSUME NEW r \in Requests, CheckAllowed(r) PROVE Whole(q)'
  <2>1. answerOf' = answerOf /\ At(r, "allowed") /\ allowed' = allowed
    BY <1>8 DEF CheckAllowed, store
  <2>2. CASE Goto(r, "ask")
    BY <1>5, <2>1, <2>2 DEF At, Ats, Late
  <2>3. CASE CommandOf[r] \in allowed /\ Alive(r)
    <3>1. Becomes(r, [request[r] EXCEPT !.at = "leave", !.approved = TRUE])
      BY <1>1, <1>8, <2>3, AllowedBecomes
    <3>2. CASE r = q
      <4>1. /\ request'[q].asked = request[q].asked /\ request'[q].code = request[q].code
            /\ request'[q].at = "leave"
        BY <1>1, <3>1, <3>2 DEF Becomes, RequestRecord
      <4>2. answerOf'[q] = None
        BY <1>1, <2>1, <3>2 DEF Whole, Recorded, At
      <4> QED BY <1>1, <2>1, <2>3, <3>2, <4>1, <4>2
              DEF Whole, Asked, Recorded, Approved, At, CommentsStay
    <3> QED BY <1>4, <2>1, <3>1, <3>2
  <2> QED BY <1>8, <2>2, <2>3 DEF CheckAllowed
<1>9. ASSUME NEW r \in Requests, NEW code \in Codes, PostQuestion(r, code) PROVE Whole(q)'
  <2>1. Becomes(r, [request[r] EXCEPT !.at = "wait", !.code = code, !.asked = Len(comments) + 1])
        /\ answerOf' = answerOf /\ At(r, "ask") /\ allowed' = allowed
    BY <1>1, <1>9, PostBecomes DEF PostQuestion, store
  <2>2. CASE r = q
    <3>1. /\ request'[q].asked = Len(comments) + 1 /\ request'[q].code = code
          /\ request'[q].at = "wait" /\ request'[q].approved = request[q].approved
      BY <1>1, <2>1, <2>2 DEF Becomes, RequestRecord
    <3>2. /\ Len(comments) + 1 \in DOMAIN comments' /\ Len(comments) + 1 # None
          /\ comments'[Len(comments) + 1] = Question(code)
      BY <1>1, <1>9, AppendFacts, QuestionFacts, CommentNumbers DEF PostQuestion, None
    <3>3. answerOf'[q] = None
      BY <1>1, <2>1, <2>2 DEF Whole, Recorded, At
    <3> QED BY <1>1, <2>1, <3>1, <3>2, <3>3, QuestionFacts
            DEF Whole, Asked, Recorded, Approved, At
  <2> QED BY <1>4, <2>1, <2>2
<1>10. ASSUME NEW r \in Requests, Poll(r) PROVE Whole(q)'
  <2>1. PICK k \in DOMAIN comments :
          /\ Answers(r, k)
          /\ Becomes(r, [request[r] EXCEPT !.at = "found", !.found = k,
                                           !.says = comments[k].says])
    BY <1>1, <1>10, PollBecomes
  <2>2. UNCHANGED <<comments, store, answerOf>> /\ At(r, "wait")
    BY <1>10 DEF Poll
  <2>3. CASE r = q
    <3>1. /\ request'[q].asked = request[q].asked /\ request'[q].code = request[q].code
          /\ request'[q].at = "found" /\ request'[q].approved = request[q].approved
          /\ request'[q].found = k /\ request'[q].says = comments[k].says
      BY <1>1, <2>1, <2>3 DEF Becomes, RequestRecord
    <3>2. answerOf'[q] = None /\ request[q].asked # None
      BY <1>1, <2>2, <2>3 DEF Whole, Asked, Recorded, At
    <3>3. Asked(q)'
      BY <1>1, <2>2, <3>1, <3>2 DEF Whole, Asked
    <3>4. IsAnswer(q, k)'
      BY <2>1, <2>2, <2>3, <3>1, <3>2 DEF IsAnswer, Answers
    <3> QED BY <1>1, <2>2, <3>1, <3>2, <3>3, <3>4
            DEF Whole, Recorded, Approved, At, store
  <2> QED BY <1>4, <2>1, <2>2, <2>3
<1>11. ASSUME NEW r \in Requests, Answer(r) PROVE Whole(q)'
  <2>1. Becomes(r, [request[r] EXCEPT !.at = "leave",
                                     !.approved = request[r].says # "no"])
    BY <1>1, <1>11, AnswerBecomes
  <2>2. /\ answerOf' = [answerOf EXCEPT ![r] = request[r].found]
        /\ handled' = handled \cup {request[r].found}
        /\ UNCHANGED comments /\ At(r, "found")
    BY <1>11 DEF Answer
  <2>3. answerOf \in [Requests -> Numbers \cup {None}]
    BY <1>1 DEF Types, TypeOK
  <2>4. CASE r = q
    <3>1. /\ request'[q].asked = request[q].asked /\ request'[q].code = request[q].code
          /\ request'[q].at = "leave" /\ request'[q].says = request[q].says
          /\ request'[q].approved = (request[q].says # "no")
      BY <1>1, <2>1, <2>4 DEF Becomes, RequestRecord
    <3>2. answerOf'[q] = request[q].found
      BY <2>2, <2>3, <2>4
    <3>3. IsAnswer(q, request[q].found)
      BY <1>1, <2>2, <2>4 DEF Whole, Recorded
    <3>4. Asked(q)'
      BY <1>1, <2>2, <3>1 DEF Whole, Asked
    <3>5. IsAnswer(q, answerOf[q])'
      BY <2>2, <3>1, <3>2, <3>3 DEF IsAnswer, Answers
    <3>6. Recorded(q)'
      BY <2>2, <2>4, <3>1, <3>2, <3>5 DEF Recorded, At
    <3>7. answerOf'[q] # None /\ request[q].says \in {"yes", "always", "no"}
      BY <1>1, <3>2, <3>3, CommentNumbers DEF IsAnswer, Answers, None, RequestRecord
    <3> QED BY <3>1, <3>4, <3>6, <3>7 DEF Whole, Approved
  <2>5. CASE r # q
    BY <1>1, <1>2, <2>1, <2>2, <2>3, <2>5, OthersKept DEF Becomes
  <2> QED BY <2>4, <2>5
<1>12. ASSUME NEW r \in Requests, KeepWaiting(r) PROVE Whole(q)'
  <2>1. Becomes(r, [request[r] EXCEPT !.at = "wait", !.found = None, !.says = "other"])
        /\ UNCHANGED <<comments, store, answerOf>> /\ At(r, "found")
    BY <1>1, <1>12, KeepBecomes DEF KeepWaiting
  <2>2. CASE r = q
    <3>1. /\ request'[q].asked = request[q].asked /\ request'[q].code = request[q].code
          /\ request'[q].at = "wait" /\ request'[q].approved = request[q].approved
      BY <1>1, <2>1, <2>2 DEF Becomes, RequestRecord
    <3>2. answerOf[q] = None /\ request[q].asked # None
      BY <1>1, <2>1, <2>2 DEF Whole, Asked, Recorded, At
    <3> QED BY <1>1, <2>1, <3>1, <3>2 DEF Whole, Asked, Recorded, Approved, At, store
  <2> QED BY <1>4, <2>1, <2>2
<1>13. ASSUME \/ \E c \in Remarks : Write(c)
              \/ \E k \in DOMAIN comments, c \in Remarks : Edit(k, c)
              \/ EndTurn \/ NextTurn \/ Scan \/ UNCHANGED vars
       PROVE  Whole(q)'
  BY <1>3, <1>13 DEF Write, Edit, EndTurn, NextTurn, Scan, ScanReads, ScanFinds,
     ScanRecords, vars
<1> QED
  BY <1>6, <1>7, <1>8, <1>9, <1>10, <1>11, <1>12, <1>13 DEF Next, Step

\* What an answered request has said stays.
LEMMA SaysStays ==
  ASSUME IInv, [Next]_vars, NEW s \in Requests, answerOf[s] # None
  PROVE  request'[s].says = request[s].says
<1>1. /\ Types /\ request[s] \in RequestRecord /\ request[s].at \in Late
  BY DEF IInv, Types, TypeOK, Recorded, Late
<1>2. ASSUME NEW r \in Requests, Poll(r) \/ KeepWaiting(r)
      PROVE  r # s /\ request'[s] = request[s]
  BY <1>1, <1>2, PollBecomes, KeepBecomes DEF Becomes, Poll, KeepWaiting, At, Late
<1>3. ASSUME NEW r \in Requests, NEW x, Becomes(r, x), x.says = request[r].says
      PROVE  request'[s].says = request[s].says
  BY <1>3 DEF Becomes
<1>4. ASSUME NEW r \in Requests, NEW x \in Ats, Goto(r, x)
      PROVE  request'[s].says = request[s].says
  <2>1. request[r] \in RequestRecord
    BY <1>1 DEF Types, TypeOK
  <2>2. Becomes(r, [request[r] EXCEPT !.at = x])
    BY <1>1, <1>4, GotoBecomes
  <2> QED BY <1>3, <2>1, <2>2 DEF RequestRecord
<1>5. ASSUME NEW r \in Requests,
             TakeGate(r) \/ GiveUp(r) \/ Leave(r) \/ Finish(r)
             \/ \E code \in Codes : PostFails(r, code)
      PROVE  request'[s].says = request[s].says
  BY <1>4, <1>5 DEF TakeGate, GiveUp, Leave, Finish, PostFails, Ats
<1>6. ASSUME NEW r \in Requests,
             Ask(r) \/ CheckAllowed(r) \/ Answer(r)
             \/ \E code \in Codes : PostQuestion(r, code)
      PROVE  request'[s].says = request[s].says
  <2>1. request[r] \in RequestRecord
    BY <1>1 DEF Types, TypeOK
  <2>2. CASE Ask(r)
    BY <1>1, <1>3, <2>1, <2>2, AskBecomes DEF RequestRecord
  <2>3. CASE CheckAllowed(r)
    BY <1>1, <1>3, <1>4, <2>1, <2>3, AllowedBecomes DEF CheckAllowed, Ats, RequestRecord
  <2>4. CASE Answer(r)
    BY <1>1, <1>3, <2>1, <2>4, AnswerBecomes DEF RequestRecord
  <2>5. ASSUME NEW code \in Codes, PostQuestion(r, code)
        PROVE  request'[s].says = request[s].says
    BY <1>1, <1>3, <2>1, <2>5, PostBecomes DEF RequestRecord
  <2> QED BY <1>6, <2>2, <2>3, <2>4, <2>5
<1>7. ASSUME \/ \E c \in Remarks : Write(c)
             \/ \E k \in DOMAIN comments, c \in Remarks : Edit(k, c)
             \/ EndTurn \/ NextTurn \/ Scan \/ UNCHANGED vars
      PROVE  request' = request
  BY <1>7 DEF Write, Edit, EndTurn, NextTurn, Scan, ScanReads, ScanFinds,
     ScanRecords, vars
<1> QED BY <1>2, <1>5, <1>6, <1>7 DEF Next, Step

\* A step allows no command without its answer.
LEMMA GrantsStep ==
  ASSUME IInv, [Next]_vars PROVE Grants'
<1>1. Types /\ Grants /\ answerOf \in [Requests -> Numbers \cup {None}]
  BY DEF IInv, Types, TypeOK
<1>2. \A s \in Requests : answerOf[s] # None => request'[s].says = request[s].says
  BY SaysStays
<1>3. CASE UNCHANGED <<allowed, answerOf>>
  BY <1>1, <1>2, <1>3 DEF Grants
<1>4. ASSUME NEW r \in Requests, Answer(r) PROVE Grants'
  <2>1. /\ answerOf' = [answerOf EXCEPT ![r] = request[r].found]
        /\ request[r].found # None
        /\ request'[r].says = request[r].says
    <3>1. At(r, "found") /\ answerOf' = [answerOf EXCEPT ![r] = request[r].found]
      BY <1>4 DEF Answer
    <3>2. request[r].found # None
      BY <1>1, <3>1, CommentNumbers DEF IInv, Recorded, IsAnswer, None
    <3>3. request'[r].says = request[r].says
      BY <1>1, <1>4, AnswerBecomes DEF Becomes, Types, TypeOK, RequestRecord
    <3> QED BY <3>1, <3>2, <3>3
  <2>2. allowed' = allowed \/ (request[r].says = "always" /\ allowed' = allowed \cup {CommandOf[r]})
    BY <1>4 DEF Answer
  <2>3. \A s \in Requests : answerOf[s] # None => answerOf'[s] # None
    BY <1>1, <2>1
  <2>4. answerOf'[r] # None
    BY <1>1, <2>1
  <2> QED BY <1>1, <1>2, <2>1, <2>2, <2>3, <2>4 DEF Grants
<1> QED BY <1>3, <1>4, StoreStays

\* Answers and the scan each take only what is not handled.
LEMMA UsesStep ==
  ASSUME IInv, [Next]_vars PROVE Uses'
<1>1. /\ Types /\ Uses /\ answerOf \in [Requests -> Numbers \cup {None}]
      /\ \A r \in Requests : answerOf[r] # None => answerOf[r] \in handled
      /\ queued \subseteq Numbers
  BY DEF IInv, Types, TypeOK, Recorded
<1>2. CASE UNCHANGED <<handled, queued, answerOf>>
  BY <1>1, <1>2 DEF Uses, OneUseOfAComment
<1>3. ASSUME NEW r \in Requests, Answer(r) PROVE Uses'
  <2>1. /\ answerOf' = [answerOf EXCEPT ![r] = request[r].found]
        /\ handled' = handled \cup {request[r].found} /\ queued' = queued
        /\ request[r].found \notin handled
    BY <1>3 DEF Answer, Counts
  <2>2. \A q \in Requests : answerOf'[q] = IF q = r THEN request[r].found ELSE answerOf[q]
    BY <1>1, <2>1
  <2>3. queued' \subseteq handled' /\ \A q \in Requests : answerOf'[q] \notin queued'
    BY <1>1, <2>1, <2>2 DEF Uses, OneUseOfAComment
  <2>4. \A q, s \in Requests :
          answerOf'[q] = answerOf'[s] /\ answerOf'[q] # None => q = s
    BY <1>1, <2>1, <2>2 DEF Uses, OneUseOfAComment
  <2> QED BY <2>3, <2>4 DEF Uses, OneUseOfAComment
<1>4. CASE ScanRecords
  <2>1. /\ handled' = handled \cup StillNew /\ answerOf' = answerOf
        /\ queued' \subseteq queued \cup StillNew
    BY <1>4 DEF ScanRecords
  <2>2. StillNew \cap handled = {} /\ None \notin StillNew
    BY <1>1 DEF StillNew, Types, TypeOK, ScanRecord, Numbers, None
  <2>3. \A r \in Requests : answerOf[r] \notin StillNew
    BY <1>1, <2>2
  <2> QED BY <1>1, <2>1, <2>3 DEF Uses, OneUseOfAComment
<1>5. ASSUME NEW r \in Requests,
             \/ Ask(r) \/ TakeGate(r) \/ GiveUp(r) \/ CheckAllowed(r) \/ Poll(r)
             \/ KeepWaiting(r) \/ Leave(r) \/ Finish(r)
             \/ \E code \in Codes : PostQuestion(r, code) \/ PostFails(r, code)
      PROVE  UNCHANGED <<handled, queued, answerOf>>
  BY <1>5 DEF Ask, TakeGate, GiveUp, CheckAllowed, Poll, KeepWaiting, Leave, Finish,
     PostQuestion, PostFails, store
<1>6. ASSUME \/ \E c \in Remarks : Write(c)
             \/ \E k \in DOMAIN comments, c \in Remarks : Edit(k, c)
             \/ EndTurn \/ NextTurn \/ ScanReads \/ ScanFinds \/ UNCHANGED vars
      PROVE  UNCHANGED <<handled, queued, answerOf>>
  BY <1>6 DEF Write, Edit, EndTurn, NextTurn, ScanReads, ScanFinds, store, vars
<1> QED BY <1>2, <1>3, <1>4, <1>5, <1>6 DEF Next, Step, Scan

-----------------------------------------------------------------------------
(* The invariant holds, and what follows from it *)

LEMMA InitIInv == Init => IInv
<1> SUFFICES ASSUME Init PROVE IInv
  OBVIOUS
<1>1. Types
  BY InitTypes
<1>2. GateHeld /\ Grants /\ Uses
  BY DEF Init, GateHeld, Grants, Uses, OneUseOfAComment, NewRequest, Inside, None
<1>3. \A r \in Requests : Asked(r) /\ Recorded(r) /\ Approved(r)
  BY DEF Init, Asked, Recorded, Approved, NewRequest, At, None
<1> QED BY <1>1, <1>2, <1>3 DEF IInv

LEMMA IInvStep == IInv /\ [Next]_vars => IInv'
BY TypesStep, GateStep, WholeStep, GrantsStep, UsesStep DEF IInv, Whole

LEMMA IInvAlways == Spec => []IInv
BY InitIInv, IInvStep, PTL DEF Spec

\* An approval has its own answer, or a grant that an answer made.
LEMMA PersonFromIInv == IInv => ApprovedByPerson
<1> SUFFICES ASSUME IInv, NEW r \in Requests, request[r].approved
             PROVE  \/ answerOf[r] # None /\ Permits(r, answerOf[r])
                    \/ \E s \in Requests :
                         /\ answerOf[s] # None /\ Permits(s, answerOf[s])
                         /\ comments[answerOf[s]].says = "always"
                         /\ CommandOf[s] = CommandOf[r] /\ CommandOf[r] # NoCommand
  BY DEF ApprovedByPerson
<1>1. ASSUME NEW s \in Requests, answerOf[s] # None, request[s].says \in {"yes", "always"}
      PROVE  Permits(s, answerOf[s]) /\ comments[answerOf[s]].says = request[s].says
  BY <1>1 DEF IInv, Recorded, IsAnswer, Answers, Asked, Permits
<1>2. CASE answerOf[r] # None /\ request[r].says \in {"yes", "always"}
  BY <1>1, <1>2
<1>3. CASE CommandOf[r] \in allowed
  <2>1. PICK s \in Requests :
          answerOf[s] # None /\ request[s].says = "always" /\ CommandOf[s] = CommandOf[r]
    BY <1>3 DEF IInv, Grants
  <2>2. CommandOf[r] # NoCommand
    BY <1>3, RequestsAssumption DEF IInv, Types, TypeOK
  <2> QED BY <1>1, <2>1, <2>2
<1> QED BY <1>2, <1>3 DEF IInv, Approved

\* A request with an open question has the gate, which one request has.
LEMMA OneQuestionFromIInv == IInv => OneOpenQuestion
<1> SUFFICES ASSUME IInv PROVE OneOpenQuestion
  OBVIOUS
<1> DEFINE Open == {r \in Requests : request[r].at \in {"wait", "found"}}
<1>1. \A r, s \in Open : r = s
  BY DEF IInv, GateHeld, Inside
<1>2. CASE Open = {}
  BY <1>2, FS_EmptySet DEF OneOpenQuestion
<1>3. CASE Open # {}
  <2>1. PICK r \in Open : TRUE
    BY <1>3
  <2>2. Open = {r}
    BY <1>1, <2>1
  <2>3. Cardinality(Open) = 1
    BY <2>2, FS_Singleton
  <2> QED BY <2>3 DEF OneOpenQuestion
<1> QED BY <1>2, <1>3

\* The records of requests, comments and grants keep their types: each comment
\* that a request or a scan names is on the card.
THEOREM ApprovalsTyped == Spec => []TypeOK
BY IInvAlways, PTL DEF IInv, Types

\* requestApproval: nothing is approved without the answer of a trusted person
\* to its own question, or an `always' for the identical command.
THEOREM OnlyAPersonApproves == Spec => []ApprovedByPerson
BY IInvAlways, PersonFromIInv, PTL

\* The poll and the scan read the same comments: none becomes both an answer
\* and work, and none answers two requests.
THEOREM NoCommentTwice == Spec => []OneUseOfAComment
BY IInvAlways, PTL DEF IInv, Uses

\* The gate of requestApproval: at most one question of a card is open.
THEOREM OneQuestionAtATime == Spec => []OneOpenQuestion
BY IInvAlways, OneQuestionFromIInv, PTL

\* The gate is not leaked: whichever way a request ends, a gate that is taken has
\* one request, which is on its way to the deferred function that frees it.
GateHasOwner ==
  gate # {} => \E r \in Requests : gate = {r} /\ request[r].at \in Inside

\* No failed post, timeout, end of a turn or answer that does not count leaves
\* the gate of a card taken, which would refuse all later questions: the safety
\* that RequestsEnd rests on.
THEOREM GateIsFreed == Spec => []GateHasOwner
<1>1. IInv => GateHasOwner
  <2> SUFFICES ASSUME IInv, NEW r \in gate
               PROVE  \E q \in Requests : gate = {q} /\ request[q].at \in Inside
    BY DEF GateHasOwner
  <2>1. r \in Requests /\ gate = {r} /\ request[r].at \in Inside
    BY DEF IInv, Types, TypeOK, GateHeld
  <2> QED BY <2>1
<1> QED BY <1>1, IInvAlways, PTL
-----------------------------------------------------------------------------
(* What hides an answer: only an edit                                       *)

\* A step of the card on which nobody edits a comment.
Unedited == \A k \in DOMAIN comments : comments'[k] = comments[k]

Open(r) == request[r].at \in {"wait", "found"}

\* No answer to an open question is handled, and the scan that runs takes none.
InForce ==
  /\ handled \subseteq DOMAIN comments
  /\ scan.work \subseteq DOMAIN comments /\ scan.answers \subseteq DOMAIN comments
  /\ \A r \in Requests : Open(r) => \A k \in Found(r) : k \notin handled /\ k \notin scan.work

\* An open question is the one that was open before, or it is the newest comment.
LEMMA OpenStep ==
  ASSUME IInv, [Next]_vars, NEW r \in Requests, Open(r)'
  PROVE  \/ /\ Open(r)
            /\ request'[r].asked = request[r].asked /\ request'[r].code = request[r].code
         \/ /\ request'[r].asked = Len(comments) + 1
            /\ UNCHANGED <<handled, scan>>
<1> DEFINE Same == /\ Open(r)
                   /\ request'[r].asked = request[r].asked
                   /\ request'[r].code = request[r].code
           Fresh == request'[r].asked = Len(comments) + 1 /\ UNCHANGED <<handled, scan>>
<1> SUFFICES Same \/ Fresh
  OBVIOUS
<1>1. Types
  BY DEF IInv
<1>2. request[r] \in RequestRecord
  BY <1>1 DEF Types, TypeOK
<1>3. request'[r] = request[r] => Same
  BY DEF Open
<1>4. ASSUME NEW q \in Requests, NEW x \in Ats \ {"wait", "found"}, Goto(q, x)
      PROVE  Same
  <2>1. Becomes(q, [request[q] EXCEPT !.at = x])
    BY <1>1, <1>4, GotoBecomes
  <2>2. q # r
    BY <1>2, <1>4, <2>1 DEF Becomes, Open, RequestRecord
  <2> QED BY <1>3, <2>1, <2>2 DEF Becomes
<1>5. ASSUME NEW q \in Requests,
             TakeGate(q) \/ GiveUp(q) \/ Leave(q) \/ Finish(q)
             \/ \E code \in Codes : PostFails(q, code)
      PROVE  Same
  BY <1>4, <1>5 DEF TakeGate, GiveUp, Leave, Finish, PostFails, Ats
<1>6. ASSUME NEW q \in Requests, Ask(q) PROVE Same
  <2>1. Becomes(q, [request[q] EXCEPT !.at = "gate", !.turn = turn.number])
    BY <1>1, <1>6, AskBecomes
  <2> QED BY <1>2, <1>3, <2>1 DEF Becomes, Open, RequestRecord
<1>7. ASSUME NEW q \in Requests, CheckAllowed(q) PROVE Same
  <2>1. CASE CommandOf[q] \in allowed /\ Alive(q)
    <3>1. Becomes(q, [request[q] EXCEPT !.at = "leave", !.approved = TRUE])
      BY <1>1, <1>7, <2>1, AllowedBecomes
    <3> QED BY <1>2, <1>3, <3>1 DEF Becomes, Open, RequestRecord
  <2>2. CASE ~ (CommandOf[q] \in allowed /\ Alive(q))
    <3>1. Goto(q, "ask")
      BY <1>7, <2>2 DEF CheckAllowed
    <3> QED BY <1>4, <3>1 DEF Ats
  <2> QED BY <2>1, <2>2
<1>8. ASSUME NEW q \in Requests, NEW code \in Codes, PostQuestion(q, code)
      PROVE  Same \/ Fresh
  <2>1. Becomes(q, [request[q] EXCEPT !.at = "wait", !.code = code,
                                     !.asked = Len(comments) + 1])
        /\ UNCHANGED <<handled, scan>>
    BY <1>1, <1>8, PostBecomes DEF PostQuestion, store
  <2>2. CASE q = r
    BY <1>2, <2>1, <2>2 DEF Becomes, RequestRecord
  <2> QED BY <1>3, <2>1, <2>2 DEF Becomes
<1>9. ASSUME NEW q \in Requests, Poll(q) PROVE Same
  <2>1. PICK x : /\ x.at = "found" /\ x.asked = request[q].asked /\ x.code = request[q].code
                 /\ Becomes(q, x)
    <3>1. PICK k \in DOMAIN comments :
            Becomes(q, [request[q] EXCEPT !.at = "found", !.found = k,
                                          !.says = comments[k].says])
      BY <1>1, <1>9, PollBecomes
    <3>2. request[q] \in RequestRecord
      BY <1>1 DEF Types, TypeOK
    <3> QED BY <3>1, <3>2 DEF RequestRecord
  <2>2. At(q, "wait")
    BY <1>9 DEF Poll
  <2> QED BY <1>3, <2>1, <2>2 DEF Becomes, Open, At
<1>10. ASSUME NEW q \in Requests, Answer(q) PROVE Same
  <2>1. Becomes(q, [request[q] EXCEPT !.at = "leave", !.approved = request[q].says # "no"])
    BY <1>1, <1>10, AnswerBecomes
  <2> QED BY <1>2, <1>3, <2>1 DEF Becomes, Open, RequestRecord
<1>11. ASSUME NEW q \in Requests, KeepWaiting(q) PROVE Same
  <2>1. /\ Becomes(q, [request[q] EXCEPT !.at = "wait", !.found = None, !.says = "other"])
        /\ At(q, "found")
    BY <1>1, <1>11, KeepBecomes DEF KeepWaiting
  <2> QED BY <1>2, <1>3, <2>1 DEF Becomes, Open, At, RequestRecord
<1>12. ASSUME \/ \E c \in Remarks : Write(c)
              \/ \E k \in DOMAIN comments, c \in Remarks : Edit(k, c)
              \/ EndTurn \/ NextTurn \/ Scan \/ UNCHANGED vars
       PROVE  Same
  BY <1>3, <1>12 DEF Write, Edit, EndTurn, NextTurn, Scan, ScanReads, ScanFinds,
     ScanRecords, vars
<1> HIDE DEF Same, Fresh
<1> QED
  BY <1>5, <1>6, <1>7, <1>8, <1>9, <1>10, <1>11, <1>12 DEF Next, Step

\* Without an edit, a new answer is a new comment.
LEMMA NewAnswers ==
  ASSUME IInv, [Next]_vars, Unedited, NEW r \in Requests, Open(r)', NEW k \in Found(r)'
  PROVE  (Open(r) /\ k \in Found(r)) \/ k \notin DOMAIN comments
<1>1. DOMAIN comments = 1..Len(comments) /\ Len(comments) \in Nat
  BY CommentNumbers DEF IInv
<1>2. /\ k \in DOMAIN comments' /\ k > request'[r].asked
      /\ ~ IsQuestion(comments'[k]) /\ comments'[k].trusted /\ comments'[k].says # "other"
      /\ comments'[k].code = request'[r].code
  BY DEF Found, Answers, IsQuestion
<1>3. CASE k \in DOMAIN comments
  <2>1. comments'[k] = comments[k] /\ request'[r].asked # Len(comments) + 1
    BY <1>1, <1>2, <1>3 DEF Unedited
  <2>2. Open(r) /\ request'[r].asked = request[r].asked /\ request'[r].code = request[r].code
    BY <2>1, OpenStep
  <2> QED BY <1>2, <1>3, <2>1, <2>2 DEF Found, Answers, IsQuestion
<1> QED BY <1>3

\* What is handled or found by the scan: an Answer needs the gate, and the scan
\* takes no answer while a request is pending.
LEMMA InForceStep ==
  ASSUME IInv, [Next]_vars, Unedited, InForce
  PROVE  InForce'
<1> DEFINE Gone == handled \cup scan.work
<1>1. /\ Types /\ DOMAIN comments \subseteq DOMAIN comments'
      /\ handled \cup scan.work \cup scan.answers \subseteq DOMAIN comments
  BY CommentsStayStep DEF IInv, CommentsStay, InForce
<1>2. ASSUME Gone' \subseteq Gone, scan'.answers \subseteq scan.answers
      PROVE  InForce'
  <2>1. ASSUME NEW r \in Requests, Open(r)', NEW k \in Found(r)'
        PROVE  k \notin Gone'
    <3>1. CASE Open(r) /\ k \in Found(r)
      BY <1>2, <3>1 DEF InForce
    <3>2. CASE k \notin DOMAIN comments
      BY <1>1, <1>2, <3>2
    <3> QED BY <2>1, <3>1, <3>2, NewAnswers
  <2> QED BY <1>1, <1>2, <2>1 DEF InForce
<1>3. CASE UNCHANGED <<handled, scan>>
  BY <1>2, <1>3
<1>4. ASSUME NEW q \in Requests, Answer(q) PROVE InForce'
  <2>1. /\ handled' = handled \cup {request[q].found} /\ UNCHANGED <<scan, comments>>
        /\ At(q, "found") /\ request[q].found \in DOMAIN comments
    BY <1>4 DEF Answer, IInv, Recorded, IsAnswer
  <2>2. Becomes(q, [request[q] EXCEPT !.at = "leave", !.approved = request[q].says # "no"])
    BY <1>1, <1>4, AnswerBecomes
  <2>3. ASSUME NEW r \in Requests, Open(r)' PROVE FALSE
    <3>1. request[q] \in RequestRecord
      BY <1>1 DEF Types, TypeOK
    <3>2. r # q /\ Open(r)
      BY <2>2, <2>3, <3>1 DEF Becomes, Open, RequestRecord
    <3>3. r \in gate /\ q \in gate
      BY <2>1, <3>2 DEF IInv, GateHeld, Inside, Open, At
    <3> QED BY <3>2, <3>3 DEF IInv, GateHeld
  <2> QED BY <1>1, <2>1, <2>3 DEF InForce
<1>5. CASE ScanReads
  <2>1. /\ UNCHANGED <<handled, request, comments>>
        /\ scan'.work \subseteq DOMAIN comments /\ scan'.answers \subseteq DOMAIN comments
        /\ \A k \in scan'.work : comments[k].says = "other"
    BY <1>5 DEF ScanReads, NewMentions, store
  <2>2. ASSUME NEW r \in Requests, Open(r)', NEW k \in Found(r)'
        PROVE  k \notin handled /\ k \notin scan'.work
    <3>1. Open(r) /\ k \in Found(r) /\ comments[k].says # "other"
      BY <2>1, <2>2 DEF Open, Found, Answers, IsQuestion
    <3> QED BY <2>1, <3>1 DEF InForce
  <2> QED BY <1>1, <2>1, <2>2 DEF InForce
<1>6. CASE ScanFinds
  <2>1. UNCHANGED <<handled, request, comments>>
    BY <1>6 DEF ScanFinds, store
  <2>2. CASE Pending
    BY <1>2, <1>6, <2>1, <2>2 DEF ScanFinds, Triggers, NoScan
  <2>3. CASE ~ Pending
    <3>1. \A r \in Requests : ~ Open(r)'
      BY <2>1, <2>3 DEF Pending, Open
    <3>2. scan'.work \subseteq scan.work \cup scan.answers /\ scan'.answers = {}
      BY <1>6 DEF ScanFinds, Triggers, NoScan
    <3> QED BY <1>1, <2>1, <3>1, <3>2 DEF InForce
  <2> QED BY <2>2, <2>3
<1>7. CASE ScanRecords
  <2>1. Gone' \subseteq Gone /\ scan'.answers = {}
    BY <1>7 DEF ScanRecords, StillNew, NoScan
  <2> QED BY <1>2, <2>1
<1>8. ASSUME \/ \E c \in Remarks : Write(c)
             \/ \E k \in DOMAIN comments, c \in Remarks : Edit(k, c)
             \/ EndTurn \/ NextTurn \/ UNCHANGED vars
             \/ \E r \in Requests :
                  \/ Ask(r) \/ TakeGate(r) \/ GiveUp(r) \/ Poll(r)
                  \/ CheckAllowed(r) \/ KeepWaiting(r) \/ Leave(r) \/ Finish(r)
                  \/ \E code \in Codes : PostQuestion(r, code) \/ PostFails(r, code)
      PROVE  UNCHANGED <<handled, scan>>
  BY <1>8 DEF Write, Edit, EndTurn, NextTurn, Ask, TakeGate, GiveUp, Poll, CheckAllowed,
     KeepWaiting, Leave, Finish, PostQuestion, PostFails, store, vars
<1> HIDE DEF Gone
<1> QED BY <1>3, <1>4, <1>5, <1>6, <1>7, <1>8 DEF Next, Step, Scan

\* approvals.go says that a comment which was edited into an answer counts, which
\* the run approvals_edit refutes.  Without edits, whatever requests, scans, turns
\* and lost responses there are, what a poll finds is not handled yet: each answer
\* after an open question counts until the question is closed.
THEOREM OnlyEditsHideAnswers == Spec /\ [][Unedited]_vars => AnswersCount
<1>1. Init => InForce
  BY DEF Init, InForce, NewRequest, NoScan, Open
<1>2. IInv /\ InForce /\ [Next]_vars /\ [Unedited]_vars => InForce'
  <2>1. UNCHANGED vars => Unedited
    BY DEF vars, Unedited
  <2> QED BY <2>1, InForceStep
<1>3. ASSUME IInv, InForce, NEW r \in Requests, At(r, "wait"), Poll(r)
      PROVE  request'[r].found \notin handled
  <2>1. PICK k \in DOMAIN comments :
          /\ Answers(r, k)
          /\ Becomes(r, [request[r] EXCEPT !.at = "found", !.found = k,
                                           !.says = comments[k].says])
    BY <1>3, PollBecomes DEF IInv
  <2>2. request[r] \in RequestRecord
    BY <1>3 DEF IInv, Types, TypeOK
  <2>3. request'[r].found = k /\ k \in Found(r) /\ Open(r)
    BY <1>3, <2>1, <2>2 DEF Becomes, RequestRecord, Found, Open, At
  <2> QED BY <1>3, <2>3 DEF InForce
<1>4. IInv /\ InForce =>
        [\A r \in Requests : At(r, "wait") /\ Poll(r)
           => \/ request'[r].found \notin handled
              \/ Found(r) \subseteq handled]_vars
  BY <1>3
<1>5. Spec /\ [][Unedited]_vars => [](IInv /\ InForce)
  BY <1>1, <1>2, IInvAlways, PTL DEF Spec
<1> QED BY <1>4, <1>5, PTL DEF AnswersCount
==============================================================================
