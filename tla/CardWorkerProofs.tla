--------------------------- MODULE CardWorkerProofs ---------------------------
(***************************************************************************)
(* Proofs about CardWorker for every value of its constants: its types,    *)
(* one worker for each card, the slots, the wakeups, the front of a queue  *)
(* that a turn owns, and the length of chains of agent messages.           *)
(***************************************************************************)
EXTENDS CardWorker, FiniteSetTheorems, SequenceTheorems, WellFoundedInduction, TLAPS

(* The helpers of CardWorker *)

\* MaxOf is the least bound: it exists because MaxAgentHops is one.
LEMMA MaxOfBound ==
  ASSUME NEW f, NEW S, \A i \in S : f[i] \in Nat /\ f[i] <= MaxAgentHops
  PROVE  /\ MaxOf(f, S) \in 0..MaxAgentHops
         /\ \A i \in S : f[i] <= MaxOf(f, S)
         /\ \A m \in 0..MaxAgentHops :
              (\A i \in S : f[i] <= m) => MaxOf(f, S) <= m
<1> DEFINE Bound(n) == \A i \in S : f[i] <= n
           B == {n \in 0..MaxAgentHops : Bound(n)}
           Less == {p \in Nat \X Nat : p[1] < p[2]}
<1>1. MaxAgentHops \in B /\ B \subseteq Nat
  BY LimitsAssumption
<1>2. PICK n \in B : \A m \in B : <<m, n>> \notin Less
  <2>1. IsWellFoundedOn(Less, Nat)
    BY NatLessThanWellFounded DEF OpToRel
  <2> HIDE DEF B, Less
  <2> QED BY <1>1, <2>1, WFMin
<1>3. \A m \in B : n <= m
  <2> SUFFICES ASSUME NEW m \in B PROVE n <= m
    OBVIOUS
  <2>1. m \in Nat /\ n \in Nat
    BY <1>1
  <2>2. ~ (m < n)
    BY <1>2, <2>1
  <2> QED BY <2>1, <2>2
<1>4. \E k \in 0..MaxAgentHops :
        Bound(k) /\ \A m \in 0..MaxAgentHops : Bound(m) => k <= m
  BY <1>2, <1>3
<1> HIDE DEF Bound
<1>5. MaxOf(f, S) = CHOOSE k \in 0..MaxAgentHops :
        Bound(k) /\ \A m \in 0..MaxAgentHops : Bound(m) => k <= m
  BY DEF MaxOf, Bound
<1>6. /\ MaxOf(f, S) \in 0..MaxAgentHops /\ Bound(MaxOf(f, S))
      /\ \A m \in 0..MaxAgentHops : Bound(m) => MaxOf(f, S) <= m
  BY <1>4, <1>5
<1> QED BY <1>6 DEF Bound

LEMMA DropFirstType ==
  ASSUME NEW S, NEW s \in Seq(S), NEW n \in Nat
  PROVE  DropFirst(s, n) \in Seq(S)
<1>1. Len(s) \in Nat /\ \A k \in n + 1 .. Len(s) : s[k] \in S
  BY LenProperties, ElementOfSeq
<1> QED BY <1>1, SubSeqProperties DEF DropFirst

LEMMA ItemsOfType ==
  ASSUME NEW S, NEW s \in Seq(S)
  PROVE  ItemsOf(s) \subseteq S
BY ElementOfSeq DEF ItemsOf

LEMMA NoWorkerType == NoWorker \in WorkerRecord /\ NoTurn \in TurnRecord
<1>1. (CHOOSE c \in Cards : TRUE) \in Cards
  BY CardsAssumption
<1>2. <<>> \in Seq(Items)
  BY EmptySeq
<1> QED BY <1>1, <1>2 DEF NoWorker, NoTurn, WorkerRecord, TurnRecord, Pcs

-----------------------------------------------------------------------------
(* The invariant *)

\* The steps at which a worker has a token in `slots'.
Holding == Pcs \ {"gone", "top", "slot", "retry"}
Holders == {w \in Workers : worker[w].pc \in Holding}

SlotsHeld == slots = Cardinality(Holders)

\* What belongs to a Claude process is there only while the worker is at it.
OnlyAtClaude ==
  \A w \in Workers :
    /\ turn[w].live => At(w, "claude")
    /\ checking[w] # <<>> => Running(w)
    /\ given[w] # <<>> => worker[w].pc \in {"claude", "save"}

\* Hops are counted up to the limit, and a chain is not longer than the hops
\* of its last message.
HopsBounded ==
  /\ \A i \in Items : depth[i] <= hops[i] /\ hops[i] <= MaxAgentHops
  /\ \A w \in Workers : turn[w].hops <= MaxAgentHops

-----------------------------------------------------------------------------
(* Types *)

LEMMA InitTypes == Init => TypeOK
BY NoWorkerType, EmptySeq, LimitsAssumption DEF Init, TypeOK

LEMMA HopsOf ==
  ASSUME TypeOK, HopsBounded, NEW S, S \subseteq Items
  PROVE  /\ MaxOf(hops, S) \in 0..MaxAgentHops
         /\ \A i \in S : hops[i] <= MaxOf(hops, S)
<1>1. \A i \in S : hops[i] \in Nat /\ hops[i] <= MaxAgentHops
  BY DEF TypeOK, HopsBounded
<1> QED BY <1>1, MaxOfBound

LEMMA DepthOf ==
  ASSUME TypeOK, HopsBounded, NEW S, S \subseteq Items
  PROVE  /\ MaxOf(depth, S) \in 0..MaxAgentHops
         /\ \A n \in 0..MaxAgentHops :
              (\A i \in S : depth[i] <= n) => MaxOf(depth, S) <= n
<1>1. \A i \in S : depth[i] \in Nat /\ depth[i] <= MaxAgentHops
  BY LimitsAssumption DEF TypeOK, HopsBounded
<1> QED BY <1>1, MaxOfBound

\* A worker goes to another step.
LEMMA GotoType ==
  ASSUME TypeOK, NEW w \in Workers, NEW pc \in Pcs
  PROVE  [worker EXCEPT ![w].pc = pc] \in [Workers -> WorkerRecord]
BY DEF TypeOK, WorkerRecord

LEMMA EnqueueType ==
  ASSUME TypeOK, NEW i \in Items, Enqueue(i)
  PROVE  TypeOK'
<1>1. CardOf[i] \in Cards
  BY ItemsAssumption
<1>2. /\ Append(queue[CardOf[i]], i) \in Seq(Items)
      /\ Append(log[CardOf[i]], i) \in Seq(Items)
  BY <1>1, AppendProperties DEF TypeOK
<1>3. /\ queue' \in [Cards -> Seq(Items)] /\ log' \in [Cards -> Seq(Items)]
      /\ stage' \in [Items -> {"new", "checked", "kick", "done"}]
  BY <1>1, <1>2 DEF TypeOK, Enqueue
<1> QED BY <1>3 DEF TypeOK, Enqueue, daemon, process

LEMMA KickCardType ==
  ASSUME TypeOK, NEW c \in Cards, KickCard(c)
  PROVE  running' \subseteq Cards /\ worker' \in [Workers -> WorkerRecord]
<1>1. CASE c \in running
  BY <1>1 DEF KickCard, TypeOK
<1>2. CASE c \notin running
  <2>1. [NoWorker EXCEPT !.pc = "top", !.card = c] \in WorkerRecord
    BY NoWorkerType DEF WorkerRecord, Pcs
  <2> QED BY <1>2, <2>1 DEF KickCard, Spawn, TypeOK
<1> QED BY <1>1, <1>2

LEMMA ArriveType ==
  ASSUME TypeOK, NEW i \in Items, Arrive(i)
  PROVE  TypeOK'
<1>1. CASE QueueMention(i) \/ QueueMessage(i)
  BY <1>1, EnqueueType DEF QueueMention, QueueMessage
<1>2. CASE Kick(i)
  <2>1. running' \subseteq Cards /\ worker' \in [Workers -> WorkerRecord]
    BY <1>2, KickCardType, ItemsAssumption DEF Kick
  <2> QED BY <1>2, <2>1 DEF Kick, TypeOK, store, process
<1> QED BY <1>1, <1>2 DEF Arrive

\* The signals, the crash and the restart.
LEMMA ModeType ==
  ASSUME TypeOK, Drain \/ Stop \/ Exit \/ Crash \/ Restart
  PROVE  TypeOK'
<1>1. CASE Drain \/ Stop \/ Restart
  BY <1>1, LimitsAssumption DEF Drain, Stop, Restart, TypeOK, store, process, arrival
<1>2. ASSUME LoseMemory, stops' \in 0..MaxStops PROVE TypeOK'
  <2>1. stage' \in [Items -> {"new", "checked", "kick", "done"}]
    BY <1>2 DEF LoseMemory, TypeOK
  <2>2. slots' \in 0..MaxConcurrent
    BY <1>2, LimitsAssumption DEF LoseMemory
  <2> QED BY <1>2, <2>1, <2>2, NoWorkerType, EmptySeq DEF LoseMemory, TypeOK, store
<1> QED BY <1>1, <1>2, LimitsAssumption DEF Exit, Crash, TypeOK

\* A worker that holds a slot is one of those that `slots' counts.
LEMMA SlotCount ==
  ASSUME TypeOK, SlotsHeld
  PROVE  /\ IsFiniteSet(Holders)
         /\ Holders # {} => slots > 0
<1>1. IsFiniteSet(Holders)
  BY CardsAssumption, FS_Subset DEF Holders
<1>2. Holders # {} => Cardinality(Holders) # 0
  BY <1>1, FS_EmptySet
<1> QED BY <1>1, <1>2 DEF SlotsHeld, TypeOK

LEMMA ReleaseType ==
  ASSUME TypeOK, SlotsHeld, NEW w \in Workers, ReleaseSlot(w)
  PROVE  TypeOK'
<1>1. w \in Holders
  BY DEF ReleaseSlot, Holders, Holding, Pcs
<1>2. slots' \in 0..MaxConcurrent
  BY <1>1, SlotCount, LimitsAssumption DEF ReleaseSlot, SlotsAfter, TypeOK
<1>3. Card(w) \in Cards
  BY DEF Card, TypeOK, WorkerRecord
<1>4. \A pc \in Pcs : [NoWorker EXCEPT !.pc = pc, !.card = Card(w)] \in WorkerRecord
  BY <1>3, NoWorkerType DEF WorkerRecord
<1>5. worker' \in [Workers -> WorkerRecord]
  BY <1>4 DEF ReleaseSlot, TypeOK, Pcs
<1> QED BY <1>2, <1>5 DEF ReleaseSlot, TypeOK, store, process, arrival

\* The steps of `work' before Claude.
LEMMA BeforeClaudeType ==
  ASSUME TypeOK, HopsBounded, SlotsHeld, NEW w \in Workers,
         \/ FinishIfIdle(w) \/ AcquireSlot(w) \/ StopWaiting(w) \/ ReleaseSlot(w)
         \/ StartTurn(w) \/ DeliverReply(w) \/ DeliverFails(w) \/ ClearReply(w)
         \/ BeginTurn(w) \/ LoadFails(w)
  PROVE  TypeOK'
<1>9. \A pc \in Pcs : [worker EXCEPT ![w].pc = pc] \in [Workers -> WorkerRecord]
  BY GotoType
<1>0. Card(w) \in Cards /\ queue[Card(w)] \in Seq(Items) /\ worker[w].items \in Seq(Items)
  BY DEF Card, TypeOK, WorkerRecord
<1>1. CASE FinishIfIdle(w)
  <2>1. worker' \in [Workers -> WorkerRecord] /\ running' \subseteq Cards
    <3>1. [worker EXCEPT ![w] = NoWorker] \in [Workers -> WorkerRecord]
      BY NoWorkerType DEF TypeOK
    <3> QED BY <1>1, <1>9, <3>1 DEF FinishIfIdle, Goto, Pcs, TypeOK
  <2> QED BY <1>1, <2>1 DEF FinishIfIdle, TypeOK, store, process, arrival
<1>2. CASE AcquireSlot(w)
  <2>1. slots' \in 0..MaxConcurrent
    BY <1>2, LimitsAssumption DEF AcquireSlot, SlotFree, TypeOK
  <2>2. worker' \in [Workers -> WorkerRecord]
    BY <1>2, <1>9 DEF AcquireSlot, Goto, Pcs
  <2> QED BY <1>2, <2>1, <2>2 DEF AcquireSlot, TypeOK, store, process, arrival
<1>3. CASE StopWaiting(w) \/ LoadFails(w)
  <2>1. worker' \in [Workers -> WorkerRecord]
    BY <1>3, <1>9 DEF StopWaiting, LoadFails, Goto, Pcs
  <2> QED BY <1>3, <2>1 DEF StopWaiting, LoadFails, TypeOK, store, process, arrival
<1>4. CASE StartTurn(w)
  <2>1. FirstStep(Card(w)) \in Pcs /\ sessionStarted[Card(w)] \in BOOLEAN
    BY <1>0 DEF FirstStep, Pcs, TypeOK
  <2> DEFINE u == [worker[w] EXCEPT !.pc = FirstStep(Card(w)), !.items = queue[Card(w)],
                                    !.resumed = sessionStarted[Card(w)]]
  <2>2. u \in WorkerRecord
    BY <1>0, <2>1 DEF TypeOK, WorkerRecord
  <2>3. worker' \in [Workers -> WorkerRecord]
    BY <1>4, <2>2 DEF StartTurn, TypeOK
  <2> QED BY <1>4, <2>3 DEF StartTurn, TypeOK, store, process, arrival
<1>5. CASE DeliverReply(w) \/ DeliverFails(w)
  <2>1. Finished(Card(w)) \subseteq Items
    BY <1>0, ItemsOfType DEF Finished, TypeOK
  <2>2. worker' \in [Workers -> WorkerRecord]
    BY <1>5, <1>9 DEF DeliverReply, DeliverFails, Goto, Pcs
  <2>3. answered' \subseteq Items
    BY <1>5, <2>1 DEF DeliverReply, DeliverFails, TypeOK
  <2> QED
    BY <1>5, <2>2, <2>3 DEF DeliverReply, DeliverFails, TypeOK, process, arrival, store
<1>6. CASE ClearReply(w)
  <2>1. worker' \in [Workers -> WorkerRecord]
    BY <1>6, <1>9 DEF ClearReply, Goto, Pcs
  <2> QED BY <1>6, <2>1 DEF ClearReply, TypeOK, process, arrival
<1>7. CASE BeginTurn(w)
  <2> DEFINE h == MaxOf(hops, ItemsOf(worker[w].items))
             t == [NoTurn EXCEPT !.live = TRUE, !.hops = h]
  <2>1. h \in Nat
    BY <1>0, HopsOf, ItemsOfType, LimitsAssumption
  <2>2. Len(worker[w].items) \in Nat /\ HasHumanTrigger(worker[w].items) \in BOOLEAN
    BY <1>0, LenProperties DEF HasHumanTrigger
  <2> HIDE DEF h
  <2>3. [t EXCEPT !.consumed = Len(worker[w].items),
                  !.humanRequest = HasHumanTrigger(worker[w].items)] \in TurnRecord
    BY <2>1, <2>2 DEF NoTurn, TurnRecord
  <2>4. turn' \in [Workers -> TurnRecord] /\ given' \in [Workers -> Seq(Items)]
    BY <1>0, <1>7, <2>3 DEF BeginTurn, Prompt, TypeOK, h
  <2>5. worker' \in [Workers -> WorkerRecord]
    BY <1>7, <1>9 DEF BeginTurn, Goto, Pcs
  <2> QED BY <1>7, <2>4, <2>5 DEF BeginTurn, TypeOK, store, arrival
<1> QED BY <1>1, <1>2, <1>3, <1>4, <1>5, <1>6, <1>7, ReleaseType

\* The steps of `work' from the start of Claude to the end of the turn.
LEMMA AfterClaudeType ==
  ASSUME TypeOK, NEW w \in Workers,
         Renew(w) \/ ClaudeEnds(w) \/ ClaudeNotStarted(w) \/ SaveTurn(w)
  PROVE  TypeOK'
<1>9. \A pc \in Pcs : [worker EXCEPT ![w].pc = pc] \in [Workers -> WorkerRecord]
  BY GotoType
<1>0. /\ Card(w) \in Cards /\ queue[Card(w)] \in Seq(Items)
      /\ worker[w].items \in Seq(Items) /\ turn[w] \in TurnRecord
  BY DEF Card, TypeOK, WorkerRecord
<1>1. CASE Renew(w)
  <2>1. Len(worker[w].items) \in Nat /\ HasHumanTrigger(worker[w].items) \in BOOLEAN
    BY <1>0, LenProperties DEF HasHumanTrigger
  <2>2. [turn[w] EXCEPT !.consumed = Len(worker[w].items),
                        !.humanRequest = HasHumanTrigger(worker[w].items)] \in TurnRecord
    BY <1>0, <2>1 DEF TurnRecord
  <2>3. turn' \in [Workers -> TurnRecord] /\ given' \in [Workers -> Seq(Items)]
    BY <1>0, <1>1, <2>2 DEF Renew, Prompt, TypeOK
  <2>4. worker' \in [Workers -> WorkerRecord]
    BY <1>1 DEF Renew, TypeOK, WorkerRecord
  <2> QED BY <1>1, <2>3, <2>4 DEF Renew, TypeOK, store, arrival
<1>2. ASSUME NEW next \in {"save", "fail"}, EndTurn(w, next) PROVE TypeOK'
  <2>1. turn' \in [Workers -> TurnRecord] /\ given' \in [Workers -> Seq(Items)]
    <3>1. [turn EXCEPT ![w].live = FALSE] \in [Workers -> TurnRecord]
      BY DEF TypeOK, TurnRecord
    <3>2. [turn EXCEPT ![w] = NoTurn] \in [Workers -> TurnRecord]
      BY NoWorkerType DEF TypeOK
    <3>3. [given EXCEPT ![w] = <<>>] \in [Workers -> Seq(Items)]
      BY EmptySeq DEF TypeOK
    <3> QED BY <1>2, <3>1, <3>2, <3>3 DEF EndTurn, TypeOK
  <2>2. checking' \in [Workers -> Seq(Items)]
    BY <1>2, EmptySeq DEF EndTurn, TypeOK
  <2>3. worker' \in [Workers -> WorkerRecord]
    BY <1>2, <1>9 DEF EndTurn, Goto, Pcs
  <2> QED BY <1>2, <2>1, <2>2, <2>3 DEF EndTurn, TypeOK, store, arrival
<1>3. CASE SaveTurn(w)
  <2>1. queue' \in [Cards -> Seq(Items)]
    <3>1. DropFirst(queue[Card(w)], Removed(w)) \in Seq(Items)
      BY <1>0, DropFirstType DEF Removed, TurnRecord
    <3> QED BY <1>3, <3>1 DEF SaveTurn, TypeOK
  <2>2. OwesAnswer(w) \in BOOLEAN /\ (worker[w].resumed \/ worker[w].up) \in BOOLEAN
    BY DEF OwesAnswer
  <2>3. /\ pendingReply' \in [Cards -> BOOLEAN] /\ sessionStarted' \in [Cards -> BOOLEAN]
    BY <1>3, <2>2 DEF SaveTurn, TypeOK
  <2>4. turn' \in [Workers -> TurnRecord] /\ given' \in [Workers -> Seq(Items)]
    BY <1>3, NoWorkerType, EmptySeq DEF SaveTurn, TypeOK
  <2>5. worker' \in [Workers -> WorkerRecord]
    BY <1>3, <1>9 DEF SaveTurn, Goto, Pcs
  <2> QED BY <1>3, <2>1, <2>3, <2>4, <2>5 DEF SaveTurn, TypeOK, arrival
<1> QED BY <1>1, <1>2, <1>3 DEF ClaudeEnds, ClaudeNotStarted

\* The tool calls of Claude.
LEMMA ClaudeType ==
  ASSUME TypeOK, HopsBounded, NEW w \in Workers, Claude(w)
  PROVE  TypeOK'
<1>0. /\ Card(w) \in Cards /\ queue[Card(w)] \in Seq(Items)
      /\ given[w] \in Seq(Items) /\ checking[w] \in Seq(Items) /\ turn[w] \in TurnRecord
      /\ ItemsOf(given[w]) \subseteq Items /\ ItemsOf(checking[w]) \subseteq Items
  BY ItemsOfType DEF Card, TypeOK, WorkerRecord
<1>1. CASE ClaudeStarts(w)
  <2>1. worker' \in [Workers -> WorkerRecord]
    BY <1>1 DEF ClaudeStarts, TypeOK, WorkerRecord
  <2> QED BY <1>1, <2>1 DEF ClaudeStarts, TypeOK, store, process, arrival
<1>2. ASSUME NEW kind \in {"reply", "progress"}, PostComment(w, kind) PROVE TypeOK'
  BY <1>0, <1>2 DEF PostComment, TypeOK, store, daemon, arrival
<1>3. CASE NoteComment(w) \/ LoseNote(w)
  <2>1. [turn[w] EXCEPT !.replied = @ \/ posting[w] = "reply", !.current = TRUE]
          \in TurnRecord
    BY <1>0 DEF TurnRecord
  <2>2. turn' \in [Workers -> TurnRecord]
    BY <1>3, <2>1 DEF NoteComment, LoseNote, TypeOK
  <2> QED BY <1>3, <2>2 DEF NoteComment, LoseNote, TypeOK, store, daemon, arrival
<1>4. CASE CheckReads(w)
  <2>1. NewItems(w) \in Seq(Items)
    BY <1>0, DropFirstType DEF NewItems, TurnRecord
  <2> QED BY <1>4, <2>1 DEF CheckReads, TypeOK, store, daemon, arrival
<1>5. CASE CheckGives(w)
  <2> DEFINE h == MaxOf(hops, ItemsOf(checking[w]))
  <2>1. h \in Nat /\ Len(checking[w]) \in Nat /\ HasHumanTrigger(checking[w]) \in BOOLEAN
    BY <1>0, HopsOf, LenProperties, LimitsAssumption DEF HasHumanTrigger
  <2>2. Own(turn[w], checking[w]) \in TurnRecord
    <3>1. (IF h > turn[w].hops THEN h ELSE turn[w].hops) \in Nat
      BY <1>0, <2>1 DEF TurnRecord
    <3>2. turn[w].consumed + Len(checking[w]) \in Nat
      BY <1>0, <2>1 DEF TurnRecord
    <3> HIDE DEF h
    <3> QED BY <1>0, <2>1, <3>1, <3>2 DEF Own, TurnRecord, h
  <2> HIDE DEF h
  <2>3. given[w] \o checking[w] \in Seq(Items)
    BY <1>0, ConcatProperties
  <2> QED BY <1>5, <2>2, <2>3, EmptySeq DEF CheckGives, TypeOK, store, daemon, arrival
<1>6. CASE CheckFails(w)
  BY <1>6, EmptySeq DEF CheckFails, TypeOK, store, daemon, arrival
<1>7. CASE Expire(w)
  <2>1. [turn[w] EXCEPT !.expired = TRUE] \in TurnRecord
    BY <1>0 DEF TurnRecord
  <2> QED BY <1>7, <2>1 DEF Expire, TypeOK, store, daemon, arrival
<1>8. ASSUME NEW i \in Items, SendMessage(w, i) PROVE TypeOK'
  <2>1. turn[w].hops + 1 \in Nat /\ MaxOf(depth, ItemsOf(given[w])) + 1 \in Nat
    BY <1>0, DepthOf, LimitsAssumption DEF TurnRecord
  <2> QED BY <1>8, <2>1 DEF SendMessage, TypeOK, store, daemon, process
<1> QED BY <1>1, <1>2, <1>3, <1>4, <1>5, <1>6, <1>7, <1>8 DEF Claude

LEMMA TypesStep ==
  ASSUME TypeOK, HopsBounded, SlotsHeld, [Next]_vars
  PROVE  TypeOK'
<1>1. ASSUME NEW c \in Cards, ResumeQueue(c) PROVE TypeOK'
  <2>1. running' \subseteq Cards /\ worker' \in [Workers -> WorkerRecord]
    BY <1>1, KickCardType DEF ResumeQueue
  <2> QED BY <1>1, <2>1 DEF ResumeQueue, TypeOK, store, process, arrival
<1>2. CASE UNCHANGED vars
  BY <1>2 DEF vars, TypeOK, store, daemon, process, arrival
<1> QED BY <1>1, <1>2, BeforeClaudeType, AfterClaudeType, ClaudeType, ArriveType,
           ModeType DEF Next, Work

-----------------------------------------------------------------------------
(* How a step moves the workers *)

Others(w) == \A v \in Workers \ {w} : worker'[v] = worker[v]

\* The goroutine of w ends.
Ends(w) ==
  /\ At(w, "top") /\ worker'[w] = NoWorker
  /\ running' = running \ {Card(w)} /\ slots' = slots

\* It goes on with its card, and takes, keeps or frees a slot.
GoesOn(w) ==
  /\ worker'[w].card = Card(w) /\ running' = running
  /\ worker[w].pc \in Pcs \ {"gone"} /\ worker'[w].pc \in Pcs \ {"gone"}
  /\ \/ slots' = slots /\ (worker[w].pc \in Holding <=> worker'[w].pc \in Holding)
     \/ slots' = slots + 1 /\ worker[w].pc \notin Holding /\ worker'[w].pc \in Holding
     \/ slots' = slots - 1 /\ worker[w].pc \in Holding /\ worker'[w].pc \notin Holding

LEMMA GotoMoves ==
  ASSUME TypeOK, NEW w \in Workers, NEW pc, Goto(w, pc)
  PROVE  /\ Others(w) /\ worker'[w].pc = pc /\ worker'[w].card = Card(w)
         /\ worker'[w].items = worker[w].items /\ worker'[w].up = worker[w].up
         /\ worker'[w].resumed = worker[w].resumed
BY DEF Goto, Others, Card, TypeOK, WorkerRecord

LEMMA WorkMoves ==
  ASSUME TypeOK, NEW w \in Workers, Work(w)
  PROVE  Others(w) /\ (Ends(w) \/ GoesOn(w))
<1> DEFINE To(from, to) == worker[w].pc \in from /\ \E pc \in to : Goto(w, pc)
           Rest == {"start", "deliver", "clear", "load", "claude", "save",
                    "deliverEnd", "clearEnd", "free", "fail"}
<1>0. /\ \A pc : Goto(w, pc) => Others(w) /\ worker'[w].pc = pc /\ worker'[w].card = Card(w)
      /\ Holding = Rest /\ Pcs \ {"gone"} = Rest \cup {"top", "slot", "retry"}
  BY GotoMoves DEF Holding, Pcs
<1>1. ASSUME To(Rest, Rest), running' = running, slots' = slots
      PROVE  Others(w) /\ GoesOn(w)
  <2>1. PICK pc \in Rest : Goto(w, pc)
    BY <1>1
  <2> QED BY <1>0, <1>1, <2>1 DEF GoesOn
<1>2. CASE FinishIfIdle(w)
  <2>1. CASE Idle(Card(w))
    <3>1. worker' = [worker EXCEPT ![w] = NoWorker]
      BY <1>2, <2>1 DEF FinishIfIdle
    <3> QED BY <1>2, <2>1, <3>1 DEF FinishIfIdle, Others, Ends, TypeOK
  <2>2. CASE ~ Idle(Card(w))
    <3>1. Goto(w, "slot") /\ At(w, "top") /\ running' = running /\ slots' = slots
      BY <1>2, <2>2 DEF FinishIfIdle
    <3> QED BY <1>0, <3>1 DEF GoesOn, At
  <2> QED BY <2>1, <2>2
<1>3. CASE AcquireSlot(w)
  BY <1>0, <1>3 DEF AcquireSlot, GoesOn, At
<1>4. CASE StopWaiting(w)
  BY <1>0, <1>4 DEF StopWaiting, GoesOn, At
<1>5. CASE ReleaseSlot(w)
  <2>1. PICK pc \in {"retry", "top"} :
          worker' = [worker EXCEPT ![w] = [NoWorker EXCEPT !.pc = pc, !.card = Card(w)]]
    BY <1>5 DEF ReleaseSlot
  <2>2. Others(w) /\ worker'[w].pc = pc /\ worker'[w].card = Card(w)
    BY <2>1 DEF Others, TypeOK, NoWorker
  <2> QED BY <1>0, <1>5, <2>2 DEF ReleaseSlot, SlotsAfter, GoesOn
<1>6. CASE StartTurn(w)
  <2>1. /\ Others(w) /\ worker'[w].pc = FirstStep(Card(w)) /\ worker'[w].card = Card(w)
    BY <1>6 DEF StartTurn, Others, Card, TypeOK, WorkerRecord
  <2>2. FirstStep(Card(w)) \in Rest
    BY DEF FirstStep
  <2> QED BY <1>0, <1>6, <2>1, <2>2 DEF StartTurn, GoesOn, At
<1>7. CASE DeliverReply(w) \/ DeliverFails(w) \/ ClearReply(w) \/ LoadFails(w)
  <2>1. To(Rest, Rest) /\ running' = running /\ slots' = slots
    BY <1>7 DEF DeliverReply, DeliverFails, ClearReply, LoadFails, At
  <2> QED BY <1>1, <2>1
<1>8. CASE BeginTurn(w) \/ SaveTurn(w)
  <2>1. To(Rest, Rest) /\ running' = running /\ slots' = slots
    BY <1>8 DEF BeginTurn, SaveTurn, At
  <2> QED BY <1>1, <2>1
<1>9. CASE ClaudeEnds(w) \/ ClaudeNotStarted(w)
  <2>1. To(Rest, Rest) /\ running' = running /\ slots' = slots
    BY <1>9 DEF ClaudeEnds, ClaudeNotStarted, EndTurn, At
  <2> QED BY <1>1, <2>1
<1>10. CASE Renew(w)
  <2>1. Others(w) /\ worker'[w].pc = worker[w].pc /\ worker'[w].card = Card(w)
    BY <1>10 DEF Renew, Others, Card, TypeOK, WorkerRecord
  <2> QED BY <1>0, <1>10, <2>1 DEF Renew, GoesOn, At
<1> QED
  BY <1>2, <1>3, <1>4, <1>5, <1>6, <1>7, <1>8, <1>9, <1>10 DEF Work

\* A tool call moves no worker.
LEMMA ClaudeMoves ==
  ASSUME TypeOK, NEW w \in Workers, Claude(w)
  PROVE  /\ \A v \in Workers :
              /\ worker'[v].pc = worker[v].pc /\ worker'[v].card = worker[v].card
              /\ worker'[v].items = worker[v].items
         /\ UNCHANGED <<running, slots, mode, resume>>
<1>1. CASE ClaudeStarts(w)
  BY <1>1 DEF ClaudeStarts, TypeOK, WorkerRecord
<1>2. CASE ~ ClaudeStarts(w)
  <2>1. UNCHANGED daemon
    BY <1>2 DEF Claude, PostComment, NoteComment, LoseNote, CheckReads, CheckGives,
                CheckFails, Expire, SendMessage
  <2> QED BY <2>1 DEF daemon
<1> QED BY <1>1, <1>2

\* A kick starts a goroutine only for a card that has none.
LEMMA KickMoves ==
  ASSUME TypeOK, NEW c \in Cards, KickCard(c)
  PROVE  \/ c \in running /\ UNCHANGED <<running, worker>>
         \/ /\ c \notin running /\ running' = running \cup {c}
            /\ \E w \in Workers :
                 /\ Others(w) /\ At(w, "gone")
                 /\ worker'[w].pc = "top" /\ worker'[w].card = c
                 /\ worker'[w].items = <<>>
<1>1. CASE c \notin running
  <2>1. PICK w \in Workers :
          /\ At(w, "gone")
          /\ worker' = [worker EXCEPT ![w] = [NoWorker EXCEPT !.pc = "top", !.card = c]]
    BY <1>1 DEF KickCard, Spawn
  <2>2. /\ Others(w) /\ worker'[w].pc = "top" /\ worker'[w].card = c
        /\ worker'[w].items = <<>>
    BY <2>1 DEF Others, TypeOK, NoWorker
  <2> QED BY <1>1, <2>1, <2>2 DEF KickCard
<1> QED BY <1>1 DEF KickCard

-----------------------------------------------------------------------------
(* One worker for each card *)

Busy == {v \in Workers : ~ At(v, "gone")}

LEMMA OneWorkerIs ==
  OneWorkerPerCard <=>
    /\ \A v, w \in Busy : Card(v) = Card(w) => v = w
    /\ running = {Card(w) : w \in Busy}
BY DEF OneWorkerPerCard, Busy

\* Nothing that the invariant reads changes.
LEMMA OneWorkerSame ==
  ASSUME OneWorkerPerCard, running' = running,
         \A v \in Workers : worker'[v].pc = worker[v].pc /\ worker'[v].card = worker[v].card
  PROVE  OneWorkerPerCard'
BY DEF OneWorkerPerCard, At, Card

LEMMA OneWorkerKick ==
  ASSUME TypeOK, OneWorkerPerCard, NEW c \in Cards, KickCard(c)
  PROVE  OneWorkerPerCard'
<1>1. CASE UNCHANGED <<running, worker>>
  BY <1>1, OneWorkerSame
<1>2. CASE c \notin running /\ ~ UNCHANGED <<running, worker>>
  <2>1. PICK w \in Workers :
          /\ Others(w) /\ At(w, "gone") /\ worker'[w].pc = "top" /\ worker'[w].card = c
    BY <1>2, KickMoves
  <2>2. Busy' = Busy \cup {w} /\ w \notin Busy /\ running' = running \cup {c}
    BY <1>2, <2>1, KickMoves DEF Busy, At, Others
  <2>3. Card(w)' = c /\ \A v \in Busy : Card(v)' = Card(v)
    BY <2>1, <2>2 DEF Card, Others, Busy
  <2>4. /\ \A v, x \in Busy : Card(v) = Card(x) => v = x
        /\ running = {Card(v) : v \in Busy}
    BY OneWorkerIs
  <2>5. \A v, x \in Busy' : Card(v)' = Card(x)' => v = x
    BY <1>2, <2>2, <2>3, <2>4
  <2>6. running' = {Card(v)' : v \in Busy'}
    BY <2>2, <2>3, <2>4
  <2> QED BY <2>5, <2>6 DEF OneWorkerPerCard, Busy
<1> QED BY <1>1, <1>2, KickMoves

LEMMA OneWorkerWork ==
  ASSUME TypeOK, OneWorkerPerCard, NEW w \in Workers, Work(w)
  PROVE  OneWorkerPerCard'
<1>1. Others(w)
  BY WorkMoves
<1>2. CASE GoesOn(w)
  <2>1. \A v \in Workers : /\ At(v, "gone")' <=> At(v, "gone")
                           /\ Card(v)' = Card(v)
    BY <1>1, <1>2 DEF Others, GoesOn, At, Card
  <2> QED BY <1>2, <2>1 DEF OneWorkerPerCard, GoesOn
<1>3. CASE Ends(w)
  <2>1. Busy' = Busy \ {w} /\ w \in Busy /\ \A v \in Busy' : Card(v)' = Card(v)
    BY <1>1, <1>3 DEF Others, Ends, Busy, At, Card, NoWorker
  <2>2. /\ \A v, x \in Busy : Card(v) = Card(x) => v = x
        /\ running = {Card(v) : v \in Busy}
    BY OneWorkerIs
  <2>3. running' = {Card(v) : v \in Busy \ {w}}
    BY <1>3, <2>1, <2>2 DEF Ends
  <2>4. running' = {Card(v)' : v \in Busy'}
    BY <2>1, <2>3
  <2> QED BY <2>1, <2>2, <2>4 DEF OneWorkerPerCard, Busy
<1> QED BY <1>2, <1>3, WorkMoves

LEMMA OneWorkerStep ==
  ASSUME TypeOK, OneWorkerPerCard, [Next]_vars
  PROVE  OneWorkerPerCard'
<1>1. ASSUME NEW w \in Workers, Claude(w) PROVE OneWorkerPerCard'
  BY <1>1, ClaudeMoves, OneWorkerSame
<1>2. ASSUME NEW i \in Items, Arrive(i) PROVE OneWorkerPerCard'
  <2>1. CASE QueueMention(i) \/ QueueMessage(i)
    BY <2>1, OneWorkerSame DEF QueueMention, QueueMessage, Enqueue, daemon
  <2>2. CASE Kick(i)
    BY <2>2, ItemsAssumption, OneWorkerKick DEF Kick
  <2> QED BY <1>2, <2>1, <2>2 DEF Arrive
<1>3. ASSUME NEW c \in Cards, ResumeQueue(c) PROVE OneWorkerPerCard'
  BY <1>3, OneWorkerKick DEF ResumeQueue
<1>4. CASE Drain \/ Stop \/ Restart \/ UNCHANGED vars
  BY <1>4, OneWorkerSame DEF Drain, Stop, Restart, vars, daemon
<1>5. CASE LoseMemory
  BY <1>5 DEF LoseMemory, OneWorkerPerCard, At, NoWorker
<1> QED
  BY <1>1, <1>2, <1>3, <1>4, <1>5, OneWorkerWork DEF Next, Exit, Crash

-----------------------------------------------------------------------------
(* Slots *)

\* No worker takes or frees a slot.
LEMMA SlotsSame ==
  ASSUME SlotsHeld, slots' = slots,
         \A v \in Workers : worker[v].pc \in Holding <=> worker'[v].pc \in Holding
  PROVE  SlotsHeld'
<1>1. Holders' = Holders
  BY DEF Holders
<1> QED BY <1>1 DEF SlotsHeld

LEMMA SlotsWork ==
  ASSUME TypeOK, SlotsHeld, NEW w \in Workers, Work(w)
  PROVE  SlotsHeld'
<1>1. Others(w)
  BY WorkMoves
<1>2. IsFiniteSet(Holders)
  BY SlotCount
<1>3. CASE \/ Ends(w)
           \/ slots' = slots /\ (worker[w].pc \in Holding <=> worker'[w].pc \in Holding)
  BY <1>1, <1>3, SlotsSame DEF Others, Ends, At, NoWorker, Holding, Pcs
<1>4. CASE /\ slots' = slots + 1
           /\ worker[w].pc \notin Holding /\ worker'[w].pc \in Holding
  <2>1. Holders' = Holders \cup {w} /\ w \notin Holders
    BY <1>1, <1>4 DEF Holders, Others
  <2> QED BY <1>2, <1>4, <2>1, FS_AddElement DEF SlotsHeld
<1>5. CASE /\ slots' = slots - 1
           /\ worker[w].pc \in Holding /\ worker'[w].pc \notin Holding
  <2>1. Holders' = Holders \ {w} /\ w \in Holders
    BY <1>1, <1>5 DEF Holders, Others
  <2> QED BY <1>2, <1>5, <2>1, FS_RemoveElement DEF SlotsHeld
<1> QED BY <1>3, <1>4, <1>5, WorkMoves DEF GoesOn

LEMMA SlotsKick ==
  ASSUME TypeOK, SlotsHeld, NEW c \in Cards, KickCard(c), slots' = slots
  PROVE  SlotsHeld'
<1>1. \A v \in Workers : worker[v].pc \in Holding <=> worker'[v].pc \in Holding
  BY KickMoves DEF Others, At, Holding, Pcs
<1> QED BY <1>1, SlotsSame

LEMMA SlotsStep ==
  ASSUME TypeOK, SlotsHeld, [Next]_vars
  PROVE  SlotsHeld'
<1>1. ASSUME NEW w \in Workers, Claude(w) PROVE SlotsHeld'
  BY <1>1, ClaudeMoves, SlotsSame
<1>2. ASSUME NEW i \in Items, Arrive(i) PROVE SlotsHeld'
  <2>1. CASE QueueMention(i) \/ QueueMessage(i)
    BY <2>1, SlotsSame DEF QueueMention, QueueMessage, Enqueue, daemon
  <2>2. CASE Kick(i)
    BY <2>2, ItemsAssumption, SlotsKick DEF Kick
  <2> QED BY <1>2, <2>1, <2>2 DEF Arrive
<1>3. ASSUME NEW c \in Cards, ResumeQueue(c) PROVE SlotsHeld'
  BY <1>3, SlotsKick DEF ResumeQueue
<1>4. CASE Drain \/ Stop \/ Restart \/ UNCHANGED vars
  BY <1>4, SlotsSame DEF Drain, Stop, Restart, vars, daemon
<1>5. CASE LoseMemory
  <2>1. Holders' = {}
    BY <1>5 DEF LoseMemory, Holders, Holding, NoWorker
  <2> QED BY <1>5, <2>1, FS_EmptySet DEF LoseMemory, SlotsHeld
<1> QED BY <1>1, <1>2, <1>3, <1>4, <1>5, SlotsWork DEF Next, Exit, Crash

-----------------------------------------------------------------------------
(* What belongs to a Claude process *)

LEMMA AtClaudeWork ==
  ASSUME TypeOK, OnlyAtClaude, NEW w \in Workers, Work(w)
  PROVE  OnlyAtClaude'
<1> DEFINE Clean(v) == ~ turn[v].live /\ checking[v] = <<>> /\ given[v] = <<>>
           Fits(v) == /\ turn[v].live => At(v, "claude")
                      /\ checking[v] # <<>> => Running(v)
                      /\ given[v] # <<>> => worker[v].pc \in {"claude", "save"}
<1>1. \A v \in Workers \ {w} : worker'[v] = worker[v]
  BY WorkMoves DEF Others
<1>2. \A v \in Workers \ {w} : turn'[v] = turn[v] /\ checking'[v] = checking[v]
                               /\ given'[v] = given[v]
  BY DEF Work, FinishIfIdle, AcquireSlot, StopWaiting, ReleaseSlot, StartTurn,
         DeliverReply, DeliverFails, ClearReply, BeginTurn, Prompt, LoadFails, Renew,
         ClaudeEnds, ClaudeNotStarted, EndTurn, SaveTurn, process, TypeOK
<1>3. \A v \in Workers \ {w} : Fits(v)'
  BY <1>1, <1>2 DEF OnlyAtClaude, At, Running
<1>4. CASE \/ FinishIfIdle(w) \/ AcquireSlot(w) \/ StopWaiting(w) \/ ReleaseSlot(w)
           \/ StartTurn(w) \/ DeliverReply(w) \/ DeliverFails(w) \/ ClearReply(w)
           \/ LoadFails(w)
  <2>1. worker[w].pc \notin {"claude", "save"} /\ UNCHANGED process
    BY <1>4 DEF FinishIfIdle, AcquireSlot, StopWaiting, ReleaseSlot, StartTurn,
                DeliverReply, DeliverFails, ClearReply, LoadFails, At
  <2>2. Clean(w)'
    BY <2>1 DEF OnlyAtClaude, At, Running, process
  <2> QED BY <1>3, <2>2 DEF OnlyAtClaude
<1>5. CASE BeginTurn(w)
  <2>1. worker'[w].pc = "claude" /\ checking'[w] = <<>>
    BY <1>5, GotoMoves DEF BeginTurn, OnlyAtClaude, At, Running
  <2> QED BY <1>3, <2>1 DEF OnlyAtClaude, At
<1>6. CASE Renew(w)
  <2>1. worker'[w].pc = "claude"
    BY <1>6 DEF Renew, At, TypeOK, WorkerRecord
  <2>2. checking'[w] = <<>>
    BY <1>6 DEF Renew, OnlyAtClaude, Running
  <2> QED BY <1>3, <2>1, <2>2 DEF OnlyAtClaude, At
<1>7. ASSUME NEW next \in {"save", "fail"}, EndTurn(w, next) PROVE OnlyAtClaude'
  <2>1. /\ worker'[w].pc = next /\ checking'[w] = <<>> /\ ~ turn'[w].live
        /\ next = "fail" => given'[w] = <<>>
    BY <1>7, GotoMoves DEF EndTurn, TypeOK, TurnRecord, NoTurn
  <2> QED BY <1>3, <2>1 DEF OnlyAtClaude
<1>8. CASE SaveTurn(w)
  <2>1. At(w, "save") /\ checking' = checking /\ turn'[w] = NoTurn /\ given'[w] = <<>>
    BY <1>8 DEF SaveTurn, TypeOK
  <2>2. Clean(w)'
    BY <2>1 DEF OnlyAtClaude, At, Running, NoTurn
  <2> QED BY <1>3, <2>2 DEF OnlyAtClaude
<1> QED
  BY <1>4, <1>5, <1>6, <1>7, <1>8 DEF Work, ClaudeEnds, ClaudeNotStarted

LEMMA AtClaudeClaude ==
  ASSUME TypeOK, OnlyAtClaude, NEW w \in Workers, Claude(w)
  PROVE  OnlyAtClaude'
<1>1. \A v \in Workers : worker'[v].pc = worker[v].pc
  BY ClaudeMoves
<1>2. CASE ClaudeStarts(w)
  <2>1. \A v \in Workers : worker[v].up => worker'[v].up
    BY <1>2 DEF ClaudeStarts, TypeOK, WorkerRecord
  <2> QED BY <1>1, <1>2, <2>1 DEF ClaudeStarts, OnlyAtClaude, At, Running, process
<1>3. CASE ~ ClaudeStarts(w)
  <2>1. worker' = worker
    BY <1>3 DEF Claude, PostComment, NoteComment, LoseNote, CheckReads, CheckGives,
                CheckFails, Expire, SendMessage, daemon
  <2>2. \A v \in Workers :
          /\ turn'[v].live = turn[v].live
          /\ given'[v] # given[v] => checking[v] # <<>>
          /\ checking'[v] # <<>> => checking[v] # <<>> \/ Running(v)
    <3>1. CASE \/ \E kind \in {"reply", "progress"} : PostComment(w, kind)
               \/ LoseNote(w) \/ \E i \in Items : SendMessage(w, i)
      BY <3>1 DEF PostComment, LoseNote, SendMessage, process
    <3>2. CASE NoteComment(w)
      <4>1. \A r : [turn EXCEPT ![w].replied = r, ![w].current = TRUE][w].live = turn[w].live
        BY DEF TypeOK, TurnRecord
      <4> QED BY <3>2, <4>1 DEF NoteComment, TypeOK
    <3>5. CASE Expire(w)
      BY <3>5 DEF Expire, TypeOK, TurnRecord
    <3>3. CASE CheckReads(w) \/ CheckFails(w)
      BY <3>3 DEF CheckReads, CheckFails, TypeOK
    <3>4. CASE CheckGives(w)
      BY <3>4 DEF CheckGives, Own, TypeOK, TurnRecord
    <3> QED BY <1>3, <3>1, <3>2, <3>3, <3>4, <3>5 DEF Claude
  <2> QED BY <2>1, <2>2 DEF OnlyAtClaude, At, Running
<1> QED BY <1>2, <1>3

LEMMA AtClaudeKick ==
  ASSUME TypeOK, OnlyAtClaude, NEW c \in Cards, KickCard(c), UNCHANGED process
  PROVE  OnlyAtClaude'
<1>1. \A v \in Workers : worker'[v] = worker[v] \/ At(v, "gone")
  BY KickMoves DEF Others
<1> QED BY <1>1 DEF OnlyAtClaude, process, At, Running

LEMMA AtClaudeStep ==
  ASSUME TypeOK, OnlyAtClaude, [Next]_vars
  PROVE  OnlyAtClaude'
<1>1. ASSUME NEW i \in Items, Arrive(i) PROVE OnlyAtClaude'
  <2>1. CASE QueueMention(i) \/ QueueMessage(i)
    BY <2>1 DEF QueueMention, QueueMessage, Enqueue, daemon, process, OnlyAtClaude,
                At, Running
  <2>2. CASE Kick(i)
    BY <2>2, ItemsAssumption, AtClaudeKick DEF Kick
  <2> QED BY <1>1, <2>1, <2>2 DEF Arrive
<1>2. ASSUME NEW c \in Cards, ResumeQueue(c) PROVE OnlyAtClaude'
  BY <1>2, AtClaudeKick DEF ResumeQueue
<1>3. CASE Drain \/ Stop \/ Restart \/ UNCHANGED vars
  BY <1>3 DEF Drain, Stop, Restart, vars, daemon, process, OnlyAtClaude, At, Running
<1>4. CASE LoseMemory
  BY <1>4 DEF LoseMemory, OnlyAtClaude, NoTurn
<1> QED
  BY <1>1, <1>2, <1>3, <1>4, AtClaudeWork, AtClaudeClaude DEF Next, Exit, Crash

-----------------------------------------------------------------------------
(* Work and workers *)

LEMMA HasWorkerStep ==
  ASSUME TypeOK, OneWorkerPerCard, WorkHasWorker, [Next]_vars
  PROVE  WorkHasWorker'
<1> DEFINE Open(c) == queue[c] # <<>> \/ pendingReply[c]
           Served(c) == \/ c \in running \cup resume
                        \/ \E i \in Items : CardOf[i] = c /\ stage[i] = "kick"
<1>0. mode = "up" => \A c \in Cards : Open(c) => Served(c)
  BY DEF WorkHasWorker
<1>1. SUFFICES ASSUME mode' = "up", NEW c \in Cards, Open(c)' PROVE Served(c)'
  BY DEF WorkHasWorker
<1>2. ASSUME NEW w \in Workers, Claude(w) PROVE Served(c)'
  <2>1. UNCHANGED store /\ UNCHANGED <<running, resume, mode>>
    BY <1>2, ClaudeMoves DEF Claude, ClaudeStarts, PostComment, NoteComment, LoseNote,
       CheckReads, CheckGives, CheckFails, Expire, SendMessage
  <2>2. \A i \in Items : stage[i] = "kick" => stage'[i] = "kick"
    BY <1>2 DEF Claude, ClaudeStarts, PostComment, NoteComment, LoseNote,
       CheckReads, CheckGives, CheckFails, Expire, SendMessage, arrival, TypeOK
  <2> QED BY <1>0, <1>1, <2>1, <2>2 DEF store
<1>3. ASSUME NEW w \in Workers, Work(w) PROVE Served(c)'
  <2>1. UNCHANGED <<mode, resume, stage>>
    BY <1>3 DEF Work, FinishIfIdle, AcquireSlot, StopWaiting, ReleaseSlot, StartTurn,
       DeliverReply, DeliverFails, ClearReply, BeginTurn, LoadFails, Renew,
       ClaudeEnds, ClaudeNotStarted, EndTurn, SaveTurn, arrival
  <2>2. CASE Ends(w)
    <3>1. FinishIfIdle(w)
      BY <1>3, <2>2 DEF Work, AcquireSlot, StopWaiting, ReleaseSlot, StartTurn,
         DeliverReply, DeliverFails, ClearReply, BeginTurn, LoadFails, Renew,
         ClaudeEnds, ClaudeNotStarted, SaveTurn, Ends, At
    <3>2. worker'[w].pc # "slot"
      BY <2>2 DEF Ends, NoWorker
    <3>3. Idle(Card(w)) /\ UNCHANGED store
      BY <3>1, <3>2, GotoMoves DEF FinishIfIdle
    <3>4. c = Card(w) => ~ Open(c)
      BY <1>1, <2>1, <3>3 DEF Idle
    <3> QED BY <1>0, <1>1, <2>1, <2>2, <3>3, <3>4 DEF Ends, store
  <2>3. CASE GoesOn(w)
    <3>1. CASE c \in running
      BY <2>3, <3>1 DEF GoesOn
    <3>2. CASE c \notin running
      <4>1. c # Card(w)
        BY <2>3, <3>2 DEF OneWorkerPerCard, GoesOn, At
      <4>2. Open(c) <=> Open(c)'
        BY <1>3, <4>1 DEF Work, FinishIfIdle, AcquireSlot, StopWaiting, ReleaseSlot,
           StartTurn, DeliverReply, DeliverFails, ClearReply, BeginTurn, LoadFails, Renew,
           ClaudeEnds, ClaudeNotStarted, EndTurn, SaveTurn, store, TypeOK
      <4> QED BY <1>0, <1>1, <2>1, <2>3, <4>2 DEF GoesOn
    <3> QED BY <3>1, <3>2
  <2> QED BY <1>3, <2>2, <2>3, WorkMoves
<1>4. ASSUME NEW i \in Items, QueueMention(i) \/ QueueMessage(i) PROVE Served(c)'
  <2>1. /\ UNCHANGED <<daemon, pendingReply>>
        /\ stage'[i] = "kick" /\ \A j \in Items \ {i} : stage'[j] = stage[j]
        /\ c # CardOf[i] => queue'[c] = queue[c]
    BY <1>4 DEF QueueMention, QueueMessage, Enqueue, TypeOK
  <2>2. CASE c # CardOf[i]
    BY <1>0, <1>1, <2>1, <2>2 DEF daemon
  <2> QED BY <2>1, <2>2
<1>5. ASSUME NEW i \in Items, Kick(i) PROVE Served(c)'
  <2>1. /\ UNCHANGED <<store, mode, resume>>
        /\ \A j \in Items \ {i} : stage'[j] = stage[j]
    BY <1>5 DEF Kick, TypeOK
  <2>2. running \subseteq running' /\ CardOf[i] \in running'
    BY <1>5, ItemsAssumption, KickMoves DEF Kick
  <2> QED BY <1>0, <1>1, <2>1, <2>2 DEF store
<1>6. ASSUME NEW d \in Cards, ResumeQueue(d) PROVE Served(c)'
  <2>1. running \subseteq running' /\ d \in running'
    BY <1>6, KickMoves DEF ResumeQueue
  <2>2. UNCHANGED <<store, mode, stage>> /\ resume' = resume \ {d}
    BY <1>6 DEF ResumeQueue, arrival
  <2> QED BY <1>0, <1>1, <2>1, <2>2 DEF store
<1>7. CASE Restart
  BY <1>1, <1>7 DEF Restart, HasWork, store
<1>8. CASE Drain \/ Stop \/ LoseMemory
  BY <1>1, <1>8 DEF Drain, Stop, LoseMemory
<1>9. CASE UNCHANGED vars
  BY <1>0, <1>1, <1>9 DEF vars, store, daemon, arrival
<1> QED
  BY <1>2, <1>3, <1>4, <1>5, <1>6, <1>7, <1>8, <1>9 DEF Next, Arrive, Exit, Crash

-----------------------------------------------------------------------------
(* The start of a queue *)

\* s is the start of q.
FrontOf(s, q) == Len(s) <= Len(q) /\ \A k \in 1..Len(s) : s[k] = q[k]

LEMMA FrontAppend ==
  ASSUME NEW S, NEW s \in Seq(S), NEW q \in Seq(S), NEW x \in S, FrontOf(s, q)
  PROVE  FrontOf(s, Append(q, x))
<1>1. /\ Len(s) \in Nat /\ Len(q) \in Nat /\ Len(Append(q, x)) = Len(q) + 1
      /\ \A k \in 1..Len(q) : Append(q, x)[k] = q[k]
  BY AppendProperties, LenProperties
<1> QED BY <1>1 DEF FrontOf

LEMMA FrontIsSubSeq ==
  ASSUME NEW S, NEW s \in Seq(S), NEW q \in Seq(S), FrontOf(s, q)
  PROVE  s = SubSeq(q, 1, Len(s))
<1>1. /\ Len(s) \in Nat /\ Len(q) \in Nat /\ \A k \in 1..Len(s) : q[k] \in S
  BY LenProperties, ElementOfSeq DEF FrontOf
<1>2. /\ SubSeq(q, 1, Len(s)) \in Seq(S) /\ Len(SubSeq(q, 1, Len(s))) = Len(s)
      /\ \A k \in 1..Len(s) : SubSeq(q, 1, Len(s))[k] = q[k]
  BY <1>1, SubSeqProperties
<1> QED BY <1>1, <1>2, SeqEqual DEF FrontOf

\* With the rest of the queue, its start is the queue.
LEMMA FrontAndRest ==
  ASSUME NEW S, NEW s \in Seq(S), NEW q \in Seq(S), FrontOf(s, q)
  PROVE  FrontOf(s \o DropFirst(q, Len(s)), q)
<1> DEFINE r == DropFirst(q, Len(s))
<1>1. /\ Len(s) \in Nat /\ Len(q) \in Nat /\ Len(s) <= Len(q)
      /\ \A k \in 1..Len(q) : q[k] \in S
  BY LenProperties, ElementOfSeq DEF FrontOf
<1>2. \A k \in Len(s) + 1 .. Len(q) : q[k] \in S
  BY <1>1
<1>3. /\ r \in Seq(S)
      /\ Len(r) = Len(q) - Len(s)
      /\ \A k \in 1..Len(r) : r[k] = q[Len(s) + k]
  BY <1>1, <1>2, SubSeqProperties DEF DropFirst
<1> HIDE DEF r
<1>4. /\ Len(s \o r) = Len(q)
      /\ \A k \in 1..Len(q) : (s \o r)[k] = IF k <= Len(s) THEN s[k] ELSE r[k - Len(s)]
  BY <1>1, <1>3, ConcatProperties
<1>5. ASSUME NEW k \in 1..Len(q) PROVE (s \o r)[k] = q[k]
  <2>1. CASE k <= Len(s)
    BY <1>1, <1>4, <2>1 DEF FrontOf
  <2>2. CASE ~ (k <= Len(s))
    <3>1. k - Len(s) \in 1..Len(r) /\ Len(s) + (k - Len(s)) = k
      BY <1>1, <1>3, <2>2
    <3> QED BY <1>3, <1>4, <2>2, <3>1
  <2> QED BY <2>1, <2>2
<1> QED BY <1>1, <1>4, <1>5 DEF FrontOf, r

LEMMA FrontOfConcat ==
  ASSUME NEW S, NEW s \in Seq(S), NEW t \in Seq(S), NEW q \in Seq(S), FrontOf(s \o t, q)
  PROVE  FrontOf(s, q)
<1>1. /\ Len(s) \in Nat /\ Len(t) \in Nat /\ Len(q) \in Nat
      /\ Len(s \o t) = Len(s) + Len(t)
      /\ \A k \in 1..Len(s) : (s \o t)[k] = s[k]
  BY ConcatProperties, LenProperties
<1> QED BY <1>1 DEF FrontOf

LEMMA ItemsOfConcat ==
  ASSUME NEW S, NEW s \in Seq(S), NEW t \in Seq(S)
  PROVE  ItemsOf(s \o t) \subseteq ItemsOf(s) \cup ItemsOf(t)
<1> SUFFICES ASSUME NEW x \in ItemsOf(s \o t) PROVE x \in ItemsOf(s) \cup ItemsOf(t)
  OBVIOUS
<1>1. /\ Len(s) \in Nat /\ Len(t) \in Nat /\ Len(s \o t) = Len(s) + Len(t)
  BY ConcatProperties, LenProperties
<1>2. PICK k \in 1..Len(s) + Len(t) : x = (s \o t)[k]
  BY <1>1 DEF ItemsOf
<1>3. CASE k <= Len(s)
  <2>1. k \in 1..Len(s) /\ x = s[k]
    BY <1>1, <1>2, <1>3, ConcatProperties
  <2> QED BY <2>1 DEF ItemsOf
<1>4. CASE ~ (k <= Len(s))
  <2>1. k - Len(s) \in 1..Len(t) /\ x = t[k - Len(s)]
    BY <1>1, <1>2, <1>4, ConcatProperties
  <2> QED BY <2>1 DEF ItemsOf
<1> QED BY <1>3, <1>4

LEMMA ItemsOfDrop ==
  ASSUME NEW S, NEW s \in Seq(S), NEW n \in Nat
  PROVE  ItemsOf(DropFirst(s, n)) \subseteq ItemsOf(s)
<1>1. Len(s) \in Nat /\ \A k \in n + 1 .. Len(s) : s[k] \in S
  BY LenProperties, ElementOfSeq
<1>2. /\ Len(DropFirst(s, n)) = IF n + 1 <= Len(s) THEN Len(s) - n ELSE 0
      /\ \A k \in 1 .. Len(s) - (n + 1) + 1 : DropFirst(s, n)[k] = s[(n + 1) + k - 1]
  BY <1>1, SubSeqProperties DEF DropFirst
<1> SUFFICES ASSUME NEW x \in ItemsOf(DropFirst(s, n)) PROVE x \in ItemsOf(s)
  OBVIOUS
<1>3. PICK k \in 1..Len(DropFirst(s, n)) : x = DropFirst(s, n)[k]
  BY DEF ItemsOf
<1>4. n + k \in 1..Len(s) /\ x = s[n + k]
  BY <1>1, <1>2, <1>3
<1> QED BY <1>4 DEF ItemsOf

LEMMA ItemsOfAppend ==
  ASSUME NEW S, NEW s \in Seq(S), NEW x \in S
  PROVE  ItemsOf(Append(s, x)) \subseteq ItemsOf(s) \cup {x}
<1>1. /\ Len(s) \in Nat /\ Len(Append(s, x)) = Len(s) + 1
      /\ \A k \in 1..Len(s) : Append(s, x)[k] = s[k]
      /\ Append(s, x)[Len(s) + 1] = x
  BY AppendProperties, LenProperties
<1> SUFFICES ASSUME NEW y \in ItemsOf(Append(s, x)) PROVE y \in ItemsOf(s) \cup {x}
  OBVIOUS
<1>2. PICK k \in 1..Len(s) + 1 : y = Append(s, x)[k]
  BY <1>1 DEF ItemsOf
<1>3. CASE k = Len(s) + 1
  BY <1>1, <1>2, <1>3
<1>4. CASE k \in 1..Len(s)
  BY <1>1, <1>2, <1>4 DEF ItemsOf
<1> QED BY <1>1, <1>2, <1>3, <1>4

LEMMA ItemsOfEmpty == ItemsOf(<<>>) = {}
<1>1. Len(<<>>) = 0
  BY EmptySeq
<1> QED BY <1>1 DEF ItemsOf

\* What a worker read of the queue of its card is still the start of it: items
\* come at the end only, and nobody else removes items.
Fronts(w) ==
  /\ worker[w].pc \in {"deliver", "clear", "load", "claude", "save"} =>
       FrontOf(worker[w].items, queue[Card(w)])
  /\ worker[w].pc \in {"claude", "save"} =>
       /\ Len(given[w]) = turn[w].consumed
       /\ FrontOf(given[w] \o checking[w], queue[Card(w)])

WorkersFront == \A w \in Workers : Fronts(w)

LEMMA SeqTypes ==
  ASSUME TypeOK, NEW w \in Workers
  PROVE  /\ Card(w) \in Cards /\ queue[Card(w)] \in Seq(Items)
         /\ worker[w].items \in Seq(Items) /\ given[w] \in Seq(Items)
         /\ checking[w] \in Seq(Items) /\ given[w] \o checking[w] \in Seq(Items)
         /\ turn[w].consumed \in Nat /\ turn[w].hops \in Nat
<1>1. /\ given[w] \in Seq(Items) /\ checking[w] \in Seq(Items)
  BY DEF TypeOK
<1> QED BY <1>1, ConcatProperties DEF TypeOK, Card, WorkerRecord, TurnRecord

\* Nothing changes that the invariant reads of w.
LEMMA FrontsSame ==
  ASSUME NEW w \in Workers, Fronts(w),
         worker'[w].pc = worker[w].pc, worker'[w].items = worker[w].items,
         worker'[w].card = worker[w].card,
         given'[w] = given[w], checking'[w] = checking[w],
         turn'[w].consumed = turn[w].consumed, queue'[Card(w)] = queue[Card(w)]
  PROVE  Fronts(w)'
BY DEF Fronts, Card

LEMMA FrontsEnqueue ==
  ASSUME TypeOK, NEW w \in Workers, Fronts(w), NEW i \in Items, Enqueue(i)
  PROVE  Fronts(w)'
<1>1. CASE Card(w) = CardOf[i]
  <2>1. queue'[Card(w)] = Append(queue[Card(w)], i)
    BY <1>1, SeqTypes DEF Enqueue, TypeOK
  <2>2. \A s \in Seq(Items) : FrontOf(s, queue[Card(w)]) => FrontOf(s, queue'[Card(w)])
    BY <2>1, SeqTypes, FrontAppend
  <2> QED BY <2>2, SeqTypes DEF Enqueue, Fronts, daemon, process, Card
<1>2. CASE Card(w) # CardOf[i]
  <2>1. queue'[Card(w)] = queue[Card(w)]
    BY <1>2, SeqTypes DEF Enqueue, TypeOK
  <2> QED BY <2>1, FrontsSame DEF Enqueue, daemon, process
<1> QED BY <1>1, <1>2

LEMMA FrontsKick ==
  ASSUME TypeOK, NEW w \in Workers, Fronts(w), NEW c \in Cards, KickCard(c),
         UNCHANGED <<store, process>>
  PROVE  Fronts(w)'
<1>1. CASE worker'[w] = worker[w]
  BY <1>1, FrontsSame DEF store, process
<1>2. CASE worker'[w].pc = "top"
  BY <1>2 DEF Fronts
<1> QED BY <1>1, <1>2, KickMoves DEF Others

LEMMA FrontsClaude ==
  ASSUME TypeOK, NEW v \in Workers, Fronts(v), NEW w \in Workers, Claude(w)
  PROVE  Fronts(v)'
<1>1. /\ worker'[v].pc = worker[v].pc /\ worker'[v].items = worker[v].items
      /\ worker'[v].card = worker[v].card
  BY ClaudeMoves
<1>2. queue' = queue
  BY DEF Claude, ClaudeStarts, PostComment, NoteComment, LoseNote, CheckReads,
         CheckGives, CheckFails, Expire, SendMessage, store
<1>3. CASE v # w
  <2>1. given'[v] = given[v] /\ checking'[v] = checking[v] /\ turn'[v] = turn[v]
    BY <1>3 DEF Claude, ClaudeStarts, PostComment, NoteComment, LoseNote, CheckReads,
                CheckGives, CheckFails, Expire, SendMessage, process, TypeOK
  <2> QED BY <1>1, <1>2, <2>1, FrontsSame
<1>4. CASE v = w /\ worker[w].pc \notin {"claude", "save"}
  BY <1>1, <1>2, <1>4 DEF Fronts, Card
<1>5. CASE v = w /\ worker[w].pc \in {"claude", "save"}
  <2> DEFINE q == queue[Card(w)]
  <2>0. /\ Len(given[w]) = turn[w].consumed /\ FrontOf(given[w] \o checking[w], q)
        /\ FrontOf(given[w], q)
    BY <1>5, SeqTypes, FrontOfConcat DEF Fronts
  <2>1. SUFFICES /\ Len(given'[w]) = turn'[w].consumed
                 /\ FrontOf(given'[w] \o checking'[w], q)
    BY <1>1, <1>2, <1>5 DEF Fronts, Card
  <2>2. CASE CheckReads(w)
    <3>1. /\ given' = given /\ turn' = turn
          /\ checking'[w] = DropFirst(q, Len(given[w]))
      BY <2>0, <2>2 DEF CheckReads, NewItems, TypeOK
    <3> QED BY <2>0, <3>1, SeqTypes, FrontAndRest
  <2>3. CASE CheckGives(w)
    <3>1. /\ given'[w] = given[w] \o checking[w] /\ checking'[w] = <<>>
          /\ turn'[w].consumed = turn[w].consumed + Len(checking[w])
      BY <2>3 DEF CheckGives, Own, TypeOK, TurnRecord
    <3>2. given'[w] \o checking'[w] = given[w] \o checking[w]
      BY <3>1, SeqTypes, ConcatEmptySeq
    <3>3. Len(given'[w]) = Len(given[w]) + Len(checking[w])
      BY <3>1, SeqTypes, ConcatProperties
    <3> QED BY <2>0, <3>1, <3>2, <3>3
  <2>4. CASE CheckFails(w)
    <3>1. given' = given /\ checking'[w] = <<>> /\ turn' = turn
      BY <2>4 DEF CheckFails, TypeOK
    <3>2. given'[w] \o checking'[w] = given[w]
      BY <3>1, SeqTypes, ConcatEmptySeq
    <3> QED BY <2>0, <3>1, <3>2
  <2>5. CASE ~ (CheckReads(w) \/ CheckGives(w) \/ CheckFails(w))
    <3>1. UNCHANGED <<given, checking>>
      BY <2>5 DEF Claude, ClaudeStarts, PostComment, NoteComment, LoseNote, Expire,
                  SendMessage, process
    <3>2. turn'[w].consumed = turn[w].consumed
      <4>1. CASE NoteComment(w)
        <5>1. \A r : [turn EXCEPT ![w].replied = r, ![w].current = TRUE][w].consumed
                       = turn[w].consumed
          BY DEF TypeOK, TurnRecord
        <5> QED BY <4>1, <5>1 DEF NoteComment
      <4>2. CASE Expire(w)
        BY <4>2 DEF Expire, TypeOK, TurnRecord
      <4>3. CASE ~ (NoteComment(w) \/ Expire(w))
        BY <2>5, <4>3 DEF Claude, ClaudeStarts, PostComment, LoseNote, SendMessage, process
      <4> QED BY <4>1, <4>2, <4>3
    <3> QED BY <2>0, <3>1, <3>2
  <2> QED BY <2>2, <2>3, <2>4, <2>5
<1> QED BY <1>3, <1>4, <1>5

\* A step of another worker.
LEMMA FrontsOther ==
  ASSUME TypeOK, OneWorkerPerCard, NEW w \in Workers, Work(w),
         NEW v \in Workers \ {w}, Fronts(v)
  PROVE  Fronts(v)'
<1>1. worker'[v] = worker[v]
  BY WorkMoves DEF Others
<1>2. turn'[v] = turn[v] /\ checking'[v] = checking[v] /\ given'[v] = given[v]
  BY DEF Work, FinishIfIdle, AcquireSlot, StopWaiting, ReleaseSlot, StartTurn,
         DeliverReply, DeliverFails, ClearReply, BeginTurn, Prompt, LoadFails, Renew,
         ClaudeEnds, ClaudeNotStarted, EndTurn, SaveTurn, process, TypeOK
<1>3. CASE At(v, "gone")
  BY <1>1, <1>3 DEF Fronts, At
<1>4. CASE ~ At(v, "gone")
  <2>1. ~ At(w, "gone")
    BY WorkMoves DEF Ends, GoesOn, At
  <2>2. Card(v) # Card(w)
    BY <1>4, <2>1 DEF OneWorkerPerCard
  <2>3. queue'[Card(v)] = queue[Card(v)]
    BY <2>2, SeqTypes DEF Work, FinishIfIdle, AcquireSlot, StopWaiting, ReleaseSlot,
       StartTurn, DeliverReply, DeliverFails, ClearReply, BeginTurn, LoadFails, Renew,
       ClaudeEnds, ClaudeNotStarted, EndTurn, SaveTurn, store, TypeOK
  <2> QED BY <1>1, <1>2, <2>3, FrontsSame
<1> QED BY <1>3, <1>4

\* A step of the worker itself.
LEMMA FrontsOwn ==
  ASSUME TypeOK, OnlyAtClaude, NEW w \in Workers, Fronts(w), Work(w)
  PROVE  Fronts(w)'
<1> DEFINE Owned == {"deliver", "clear", "load", "claude", "save"}
<1>1. CASE FinishIfIdle(w) \/ AcquireSlot(w) \/ StopWaiting(w) \/ ReleaseSlot(w)
           \/ DeliverFails(w) \/ LoadFails(w) \/ ClaudeNotStarted(w) \/ SaveTurn(w)
  <2>1. CASE ~ (FinishIfIdle(w) \/ ReleaseSlot(w))
    <3>1. \E pc : pc \notin Owned /\ Goto(w, pc)
      BY <1>1, <2>1 DEF AcquireSlot, StopWaiting, DeliverFails, LoadFails,
                        ClaudeNotStarted, EndTurn, SaveTurn
    <3> QED BY <3>1, GotoMoves DEF Fronts
  <2>2. CASE FinishIfIdle(w)
    <3>1. worker'[w] = NoWorker \/ Goto(w, "slot")
      BY <2>2 DEF FinishIfIdle, TypeOK
    <3>2. worker'[w].pc \in {"gone", "slot"}
      BY <3>1, GotoMoves DEF NoWorker
    <3> QED BY <3>2 DEF Fronts
  <2>3. CASE ReleaseSlot(w)
    <3>1. worker'[w].pc \in {"retry", "top"}
      BY <2>3 DEF ReleaseSlot, NoWorker, TypeOK
    <3> QED BY <3>1 DEF Fronts
  <2> QED BY <2>1, <2>2, <2>3
<1>2. CASE StartTurn(w)
  <2>1. /\ worker'[w].pc \in {"deliver", "free", "load"} /\ queue' = queue
        /\ worker'[w].items = queue[Card(w)] /\ Card(w)' = Card(w)
    BY <1>2 DEF StartTurn, FirstStep, TypeOK, WorkerRecord, store, Card
  <2>2. FrontOf(queue[Card(w)], queue[Card(w)])
    BY SeqTypes, LenProperties DEF FrontOf
  <2> QED BY <2>1, <2>2 DEF Fronts
<1>3. CASE DeliverReply(w) \/ ClearReply(w)
  <2>1. /\ worker'[w].pc \in {"clear", "clearEnd", "load", "free"} /\ queue' = queue
        /\ worker'[w].pc \in {"clear", "load"} => worker[w].pc \in {"deliver", "clear"}
        /\ worker'[w].items = worker[w].items /\ worker'[w].card = Card(w)
    BY <1>3, GotoMoves DEF DeliverReply, ClearReply, store, At
  <2> QED BY <2>1 DEF Fronts, Card
<1>4. ASSUME worker[w].pc \in {"load", "claude"}, worker'[w].pc = "claude",
             worker'[w].items = worker[w].items, worker'[w].card = Card(w),
             given'[w] = worker[w].items, turn'[w].consumed = Len(worker[w].items),
             checking'[w] = <<>>, queue' = queue
      PROVE  Fronts(w)'
  <2>1. FrontOf(worker[w].items, queue[Card(w)])
    BY <1>4 DEF Fronts
  <2>2. given'[w] \o checking'[w] = worker[w].items
    BY <1>4, SeqTypes, ConcatEmptySeq
  <2> QED BY <1>4, <2>1, <2>2 DEF Fronts, Card
<1>5. CASE BeginTurn(w)
  <2>1. checking'[w] = <<>> /\ At(w, "load") /\ queue' = queue /\ Goto(w, "claude")
    BY <1>5 DEF BeginTurn, OnlyAtClaude, Running, At, store
  <2>2. given'[w] = worker[w].items /\ turn'[w].consumed = Len(worker[w].items)
    BY <1>5 DEF BeginTurn, Prompt, NoTurn, TypeOK
  <2> QED BY <1>4, <2>1, <2>2, GotoMoves DEF At
<1>6. CASE Renew(w)
  <2>1. checking'[w] = <<>> /\ queue' = queue /\ At(w, "claude")
    BY <1>6 DEF Renew, OnlyAtClaude, Running, store
  <2>2. given'[w] = worker[w].items /\ turn'[w].consumed = Len(worker[w].items)
    BY <1>6 DEF Renew, Prompt, TypeOK, TurnRecord
  <2>3. /\ worker'[w].pc = "claude" /\ worker'[w].items = worker[w].items
        /\ worker'[w].card = Card(w)
    BY <1>6 DEF Renew, TypeOK, WorkerRecord, At, Card
  <2> QED BY <1>4, <2>1, <2>2, <2>3 DEF At
<1>7. CASE ClaudeEnds(w)
  <2>1. PICK next \in {"save", "fail"} : EndTurn(w, next)
    BY <1>7 DEF ClaudeEnds
  <2>2. CASE next = "fail"
    BY <2>1, <2>2, GotoMoves DEF EndTurn, Fronts
  <2>3. CASE next = "save"
    <3>1. /\ worker'[w].pc = "save" /\ worker'[w].items = worker[w].items
          /\ worker'[w].card = Card(w) /\ queue' = queue
          /\ checking'[w] = <<>> /\ given'[w] = given[w]
          /\ turn'[w].consumed = turn[w].consumed
      BY <2>1, <2>3, GotoMoves DEF EndTurn, store, TypeOK, TurnRecord
    <3>2. /\ At(w, "claude") /\ FrontOf(worker[w].items, queue[Card(w)])
          /\ Len(given[w]) = turn[w].consumed /\ FrontOf(given[w], queue[Card(w)])
      BY <1>7, SeqTypes, FrontOfConcat DEF ClaudeEnds, Fronts, At
    <3>3. given'[w] \o checking'[w] = given[w]
      BY <3>1, SeqTypes, ConcatEmptySeq
    <3> QED BY <3>1, <3>2, <3>3 DEF Fronts, Card
  <2> QED BY <2>2, <2>3
<1> QED BY <1>1, <1>2, <1>3, <1>5, <1>6, <1>7 DEF Work

LEMMA FrontStep ==
  ASSUME TypeOK, OneWorkerPerCard, OnlyAtClaude, WorkersFront, [Next]_vars
  PROVE  WorkersFront'
<1> SUFFICES ASSUME NEW v \in Workers PROVE Fronts(v)'
  BY DEF WorkersFront
<1>0. Fronts(v)
  BY DEF WorkersFront
<1>1. ASSUME NEW i \in Items, Arrive(i) PROVE Fronts(v)'
  <2>1. CASE QueueMention(i) \/ QueueMessage(i)
    BY <1>0, <2>1, FrontsEnqueue DEF QueueMention, QueueMessage
  <2>2. CASE Kick(i)
    BY <1>0, <2>2, ItemsAssumption, FrontsKick DEF Kick
  <2> QED BY <1>1, <2>1, <2>2 DEF Arrive
<1>2. ASSUME NEW c \in Cards, ResumeQueue(c) PROVE Fronts(v)'
  BY <1>0, <1>2, FrontsKick DEF ResumeQueue
<1>3. CASE Drain \/ Stop \/ Restart \/ UNCHANGED vars
  BY <1>0, <1>3, FrontsSame DEF Drain, Stop, Restart, vars, daemon, process, store
<1>4. CASE LoseMemory
  BY <1>4 DEF LoseMemory, Fronts, NoWorker
<1> QED
  BY <1>0, <1>1, <1>2, <1>3, <1>4, FrontsClaude, FrontsOther, FrontsOwn
     DEF Next, Exit, Crash

-----------------------------------------------------------------------------
(* Chains of agent messages *)

\* The items that are in a queue or were: their hops do not change any more.
Sent == {i \in Items : stage[i] \in {"kick", "done"}}

ItemsSent ==
  /\ \A c \in Cards : ItemsOf(queue[c]) \subseteq Sent
  /\ \A w \in Workers : /\ ItemsOf(worker[w].items) \subseteq Sent
                        /\ ItemsOf(given[w]) \subseteq Sent
                        /\ ItemsOf(checking[w]) \subseteq Sent

\* A turn has at least the hops of each item that it got.
GivenHops ==
  \A w \in Workers : At(w, "claude") =>
    \A i \in ItemsOf(given[w]) \cup ItemsOf(worker[w].items) : hops[i] <= turn[w].hops

Chains == HopsBounded /\ ItemsSent /\ GivenHops

\* Items stay sent, and only a message that is not sent gets its hops.
LEMMA SentGrows ==
  ASSUME TypeOK, [Next]_vars
  PROVE  /\ Sent \subseteq Sent'
         /\ \A i \in Sent : hops'[i] = hops[i] /\ depth'[i] = depth[i]
<1>1. ASSUME NEW w \in Workers, NEW i \in Items, SendMessage(w, i)
      PROVE  /\ Sent \subseteq Sent'
             /\ \A j \in Sent : hops'[j] = hops[j] /\ depth'[j] = depth[j]
  <2>1. i \notin Sent /\ \A j \in Items \ {i} :
          stage'[j] = stage[j] /\ hops'[j] = hops[j] /\ depth'[j] = depth[j]
    BY <1>1 DEF SendMessage, Sent, TypeOK
  <2> QED BY <2>1 DEF Sent
<1>2. ASSUME NEW w \in Workers, Work(w) \/ Claude(w),
             ~ \E i \in Items : SendMessage(w, i)
      PROVE  UNCHANGED arrival
  BY <1>2 DEF Work, FinishIfIdle, AcquireSlot, StopWaiting, ReleaseSlot, StartTurn,
     DeliverReply, DeliverFails, ClearReply, BeginTurn, LoadFails, Renew, ClaudeEnds,
     ClaudeNotStarted, EndTurn, SaveTurn, Claude, ClaudeStarts, PostComment, NoteComment,
     LoseNote, CheckReads, CheckGives, CheckFails, Expire, arrival
<1>3. ASSUME NEW i \in Items, Arrive(i)
      PROVE  Sent \subseteq Sent' /\ UNCHANGED <<hops, depth>>
  BY <1>3 DEF Arrive, QueueMention, QueueMessage, Enqueue, Kick, Sent, TypeOK
<1>4. CASE \/ \E c \in Cards : ResumeQueue(c)
           \/ Drain \/ Stop \/ Restart \/ UNCHANGED vars
  BY <1>4 DEF ResumeQueue, Drain, Stop, Restart, vars, arrival, Sent
<1>5. CASE LoseMemory
  BY <1>5 DEF LoseMemory, Sent
<1>6. CASE UNCHANGED arrival
  BY <1>6 DEF arrival, Sent
<1> QED BY <1>1, <1>2, <1>3, <1>4, <1>5, <1>6 DEF Next, Exit, Crash

\* Only the message that is being sent changes its hops.
LEMMA HopsChange ==
  ASSUME TypeOK, [Next]_vars, NEW i \in Items
  PROVE  \/ hops'[i] = hops[i] /\ depth'[i] = depth[i]
         \/ \E w \in Workers : SendMessage(w, i)
<1>1. ASSUME NEW w \in Workers, NEW j \in Items, j # i, SendMessage(w, j)
      PROVE  hops'[i] = hops[i] /\ depth'[i] = depth[i]
  BY <1>1 DEF SendMessage, TypeOK
<1>2. ASSUME NEW w \in Workers, Work(w) \/ Claude(w),
             ~ \E j \in Items : SendMessage(w, j)
      PROVE  UNCHANGED <<hops, depth>>
  BY <1>2 DEF Work, FinishIfIdle, AcquireSlot, StopWaiting, ReleaseSlot, StartTurn,
     DeliverReply, DeliverFails, ClearReply, BeginTurn, LoadFails, Renew, ClaudeEnds,
     ClaudeNotStarted, EndTurn, SaveTurn, Claude, ClaudeStarts, PostComment, NoteComment,
     LoseNote, CheckReads, CheckGives, CheckFails, Expire, arrival
<1>3. CASE \/ \E j \in Items : Arrive(j)
           \/ \E c \in Cards : ResumeQueue(c)
           \/ Drain \/ Stop \/ Restart \/ LoseMemory \/ UNCHANGED vars
  BY <1>3 DEF Arrive, QueueMention, QueueMessage, Enqueue, Kick, ResumeQueue, Drain, Stop,
              Restart, LoseMemory, vars, arrival
<1> QED BY <1>1, <1>2, <1>3 DEF Next, Exit, Crash

\* How a queue changes.
LEMMA QueueChange ==
  ASSUME TypeOK, [Next]_vars, NEW c \in Cards
  PROVE  \/ queue'[c] = queue[c]
         \/ \E i \in Items : i \in Sent' /\ queue'[c] = Append(queue[c], i)
         \/ \E n \in Nat : queue'[c] = DropFirst(queue[c], n)
<1>1. ASSUME NEW i \in Items, Enqueue(i)
      PROVE  \/ queue'[c] = queue[c]
             \/ i \in Sent' /\ queue'[c] = Append(queue[c], i)
  BY <1>1, ItemsAssumption DEF Enqueue, Sent, TypeOK
<1>2. ASSUME NEW w \in Workers, SaveTurn(w)
      PROVE  queue'[c] = queue[c] \/ \E n \in Nat : queue'[c] = DropFirst(queue[c], n)
  BY <1>2, SeqTypes DEF SaveTurn, Removed, TypeOK
<1>3. CASE /\ ~ \E i \in Items : Enqueue(i)
           /\ ~ \E w \in Workers : SaveTurn(w)
  <2>1. queue' = queue
    BY <1>3 DEF Next, Work, FinishIfIdle, AcquireSlot, StopWaiting, ReleaseSlot, StartTurn,
       DeliverReply, DeliverFails, ClearReply, BeginTurn, LoadFails, Renew, ClaudeEnds,
       ClaudeNotStarted, EndTurn, Claude, ClaudeStarts, PostComment, NoteComment,
       LoseNote, CheckReads, CheckGives, CheckFails, Expire, SendMessage, Arrive,
       QueueMention, QueueMessage, Kick, ResumeQueue, Drain, Stop, Exit, Crash,
       LoseMemory, Restart, vars, store
  <2> QED BY <2>1
<1> QED BY <1>1, <1>2, <1>3

\* How the items of a worker change.
LEMMA WorkerItemsChange ==
  ASSUME TypeOK, [Next]_vars, NEW v \in Workers
  PROVE  worker'[v].items \in {worker[v].items, <<>>, queue[Card(v)]}
<1>1. ASSUME NEW c \in Cards, KickCard(c)
      PROVE  worker'[v].items \in {worker[v].items, <<>>}
  BY <1>1, KickMoves DEF Others
<1>2. ASSUME NEW w \in Workers, Work(w), v # w PROVE worker'[v] = worker[v]
  BY <1>2, WorkMoves DEF Others
<1>3. ASSUME Work(v) PROVE worker'[v].items \in {worker[v].items, <<>>, queue[Card(v)]}
  <2>1. CASE StartTurn(v)
    BY <2>1 DEF StartTurn, TypeOK, WorkerRecord
  <2>2. CASE FinishIfIdle(v)
    <3>1. Goto(v, "slot") \/ worker'[v] = NoWorker
      BY <2>2 DEF FinishIfIdle, TypeOK
    <3> QED BY <3>1, GotoMoves DEF NoWorker
  <2>3. CASE ReleaseSlot(v)
    BY <2>3 DEF ReleaseSlot, NoWorker, TypeOK
  <2>4. CASE Renew(v)
    BY <2>4 DEF Renew, TypeOK, WorkerRecord
  <2>5. CASE \E pc : Goto(v, pc)
    BY <2>5, GotoMoves
  <2>6. StartTurn(v) \/ FinishIfIdle(v) \/ ReleaseSlot(v) \/ Renew(v) \/ \E pc : Goto(v, pc)
    BY <1>3 DEF Work, AcquireSlot, StopWaiting, DeliverReply, DeliverFails, ClearReply,
       BeginTurn, LoadFails, ClaudeEnds, ClaudeNotStarted, EndTurn, SaveTurn
  <2> QED BY <2>1, <2>2, <2>3, <2>4, <2>5, <2>6
<1>4. ASSUME NEW i \in Items, Arrive(i) PROVE worker'[v].items \in {worker[v].items, <<>>}
  BY <1>1, <1>4, ItemsAssumption DEF Arrive, QueueMention, QueueMessage, Enqueue, Kick, daemon
<1>5. CASE Drain \/ Stop \/ Restart \/ UNCHANGED vars
  BY <1>5 DEF Drain, Stop, Restart, vars, daemon
<1>6. CASE LoseMemory
  BY <1>6 DEF LoseMemory, NoWorker
<1> QED
  BY <1>1, <1>2, <1>3, <1>4, <1>5, <1>6, ClaudeMoves DEF Next, ResumeQueue, Exit, Crash

\* How the items that Claude has, and that a check found, change.
LEMMA GivenChange ==
  ASSUME TypeOK, [Next]_vars, NEW v \in Workers
  PROVE  /\ \/ given'[v] \in {given[v], <<>>, worker[v].items}
            \/ CheckGives(v) /\ given'[v] = given[v] \o checking[v]
         /\ checking'[v] \in {checking[v], <<>>, NewItems(v)}
<1>1. ASSUME NEW w \in Workers, Work(w)
      PROVE  /\ given'[v] \in {given[v], <<>>, worker[v].items}
             /\ checking'[v] \in {checking[v], <<>>}
  BY <1>1 DEF Work, FinishIfIdle, AcquireSlot, StopWaiting, ReleaseSlot, StartTurn,
     DeliverReply, DeliverFails, ClearReply, BeginTurn, Prompt, LoadFails, Renew,
     ClaudeEnds, ClaudeNotStarted, EndTurn, SaveTurn, process, TypeOK
<1>2. ASSUME NEW w \in Workers, Claude(w)
      PROVE  /\ \/ given'[v] = given[v]
                \/ CheckGives(v) /\ given'[v] = given[v] \o checking[v]
             /\ checking'[v] \in {checking[v], <<>>, NewItems(v)}
  <2>1. CASE CheckReads(w) \/ CheckFails(w)
    BY <2>1 DEF CheckReads, CheckFails, TypeOK
  <2>2. CASE CheckGives(w)
    BY <2>2 DEF CheckGives, TypeOK
  <2>3. CASE ~ (CheckReads(w) \/ CheckFails(w) \/ CheckGives(w))
    <3>1. UNCHANGED <<given, checking>>
      BY <1>2, <2>3 DEF Claude, ClaudeStarts, PostComment, NoteComment, LoseNote, Expire,
                        SendMessage, process
    <3> QED BY <3>1
  <2> QED BY <2>1, <2>2, <2>3
<1>3. CASE LoseMemory
  BY <1>3 DEF LoseMemory
<1>4. CASE \/ \E i \in Items : Arrive(i)
           \/ \E c \in Cards : ResumeQueue(c)
           \/ Drain \/ Stop \/ Restart \/ UNCHANGED vars
  BY <1>4 DEF Arrive, QueueMention, QueueMessage, Enqueue, Kick, ResumeQueue, Drain, Stop,
              Restart, vars, process
<1> QED BY <1>1, <1>2, <1>3, <1>4 DEF Next, Exit, Crash

LEMMA ItemsSentStep ==
  ASSUME TypeOK, ItemsSent, [Next]_vars
  PROVE  ItemsSent'
<1>1. Sent \subseteq Sent'
  BY SentGrows
<1>2. ASSUME NEW c \in Cards PROVE ItemsOf(queue'[c]) \subseteq Sent'
  <2>1. queue[c] \in Seq(Items) /\ ItemsOf(queue[c]) \subseteq Sent
    BY DEF TypeOK, ItemsSent
  <2>2. ASSUME NEW i \in Items, i \in Sent', queue'[c] = Append(queue[c], i)
        PROVE  ItemsOf(queue'[c]) \subseteq Sent'
    BY <1>1, <2>1, <2>2, ItemsOfAppend
  <2>3. ASSUME NEW n \in Nat, queue'[c] = DropFirst(queue[c], n)
        PROVE  ItemsOf(queue'[c]) \subseteq Sent'
    BY <1>1, <2>1, <2>3, ItemsOfDrop
  <2> QED BY <1>1, <2>1, <2>2, <2>3, QueueChange
<1>3. ASSUME NEW w \in Workers
      PROVE  /\ ItemsOf(worker'[w].items) \subseteq Sent'
             /\ ItemsOf(given'[w]) \subseteq Sent'
             /\ ItemsOf(checking'[w]) \subseteq Sent'
  <2>1. /\ ItemsOf(queue[Card(w)]) \subseteq Sent /\ ItemsOf(worker[w].items) \subseteq Sent
        /\ ItemsOf(given[w]) \subseteq Sent /\ ItemsOf(checking[w]) \subseteq Sent
    BY SeqTypes DEF ItemsSent
  <2>2. ItemsOf(given[w] \o checking[w]) \subseteq Sent
    BY <2>1, SeqTypes, ItemsOfConcat
  <2>3. ItemsOf(NewItems(w)) \subseteq Sent
    BY <2>1, SeqTypes, ItemsOfDrop DEF NewItems
  <2>4. ItemsOf(worker'[w].items) \subseteq Sent'
    BY <1>1, <2>1, WorkerItemsChange, ItemsOfEmpty
  <2>5. ItemsOf(given'[w]) \subseteq Sent'
    BY <1>1, <2>1, <2>2, GivenChange, ItemsOfEmpty
  <2>6. ItemsOf(checking'[w]) \subseteq Sent'
    BY <1>1, <2>1, <2>3, GivenChange, ItemsOfEmpty
  <2> QED BY <2>4, <2>5, <2>6
<1> QED BY <1>2, <1>3 DEF ItemsSent

\* A tool call changes the hops of a turn only when it gives it items.
LEMMA ClaudeHops ==
  ASSUME TypeOK, NEW v \in Workers, NEW w \in Workers, Claude(w)
  PROVE  turn'[v].hops = turn[v].hops \/ CheckGives(v)
<1>1. CASE NoteComment(w)
  <2>1. \A r : [turn EXCEPT ![w].replied = r, ![w].current = TRUE][v].hops = turn[v].hops
    BY DEF TypeOK, TurnRecord
  <2> QED BY <1>1, <2>1 DEF NoteComment
<1>2. CASE Expire(w)
  BY <1>2 DEF Expire, TypeOK, TurnRecord
<1>3. CASE CheckGives(w) /\ v # w
  BY <1>3 DEF CheckGives, TypeOK
<1>4. CASE ~ (NoteComment(w) \/ Expire(w) \/ CheckGives(w))
  <2>1. UNCHANGED turn
    BY <1>4 DEF Claude, ClaudeStarts, PostComment, LoseNote, CheckReads, CheckFails,
                SendMessage, process
  <2> QED BY <2>1
<1> QED BY <1>1, <1>2, <1>3, <1>4

\* Only these steps give a turn items or hops.
LEMMA TurnHopsChange ==
  ASSUME TypeOK, [Next]_vars, NEW v \in Workers
  PROVE  \/ turn'[v].hops = turn[v].hops
         \/ turn'[v] = NoTurn
         \/ BeginTurn(v) \/ CheckGives(v)
<1>1. ASSUME NEW w \in Workers, Work(w)
      PROVE  turn'[v].hops = turn[v].hops \/ turn'[v] = NoTurn \/ BeginTurn(v)
  <2>1. CASE Renew(w)
    BY <2>1 DEF Renew, Prompt, TypeOK, TurnRecord
  <2>2. CASE ClaudeEnds(w) \/ ClaudeNotStarted(w)
    <3>1. PICK next \in {"save", "fail"} : EndTurn(w, next)
      BY <2>2 DEF ClaudeEnds, ClaudeNotStarted
    <3>2. \/ turn' = [turn EXCEPT ![w].live = FALSE]
          \/ turn' = [turn EXCEPT ![w] = NoTurn]
      BY <3>1 DEF EndTurn
    <3>3. CASE turn' = [turn EXCEPT ![w].live = FALSE]
      BY <3>3 DEF TypeOK, TurnRecord
    <3>4. CASE turn' = [turn EXCEPT ![w] = NoTurn]
      BY <3>4 DEF TypeOK
    <3> QED BY <3>2, <3>3, <3>4
  <2>3. CASE SaveTurn(w)
    BY <2>3 DEF SaveTurn, TypeOK
  <2>4. CASE BeginTurn(w) /\ v # w
    BY <2>4 DEF BeginTurn, Prompt, TypeOK
  <2>5. CASE ~ (\/ Renew(w) \/ ClaudeEnds(w) \/ ClaudeNotStarted(w) \/ SaveTurn(w)
                \/ BeginTurn(w))
    <3>1. UNCHANGED process
      BY <1>1, <2>5 DEF Work, FinishIfIdle, AcquireSlot, StopWaiting, ReleaseSlot,
         StartTurn, DeliverReply, DeliverFails, ClearReply, LoadFails
    <3> QED BY <3>1 DEF process
  <2> QED BY <2>1, <2>2, <2>3, <2>4, <2>5
<1>2. ASSUME NEW w \in Workers, Claude(w)
      PROVE  turn'[v].hops = turn[v].hops \/ CheckGives(v)
  BY <1>2, ClaudeHops
<1>3. CASE LoseMemory
  BY <1>3 DEF LoseMemory
<1>4. CASE \/ \E i \in Items : Arrive(i)
           \/ \E c \in Cards : ResumeQueue(c)
           \/ Drain \/ Stop \/ Restart \/ UNCHANGED vars
  BY <1>4 DEF Arrive, QueueMention, QueueMessage, Enqueue, Kick, ResumeQueue, Drain, Stop,
              Restart, vars, process
<1> QED BY <1>1, <1>2, <1>3, <1>4 DEF Next, Exit, Crash

\* The hops of a turn that starts, and of one that a check gives items.
LEMMA NewHops ==
  ASSUME TypeOK, HopsBounded, NEW w \in Workers
  PROVE  /\ BeginTurn(w) =>
              /\ turn'[w].hops \in 0..MaxAgentHops /\ given'[w] = worker[w].items
              /\ \A i \in ItemsOf(worker[w].items) : hops[i] <= turn'[w].hops
         /\ CheckGives(w) =>
              /\ turn'[w].hops \in 0..MaxAgentHops /\ turn[w].hops <= turn'[w].hops
              /\ given'[w] = given[w] \o checking[w]
              /\ \A i \in ItemsOf(checking[w]) : hops[i] <= turn'[w].hops
<1>1. ItemsOf(worker[w].items) \subseteq Items /\ ItemsOf(checking[w]) \subseteq Items
  BY SeqTypes, ItemsOfType
<1>2. ASSUME BeginTurn(w)
      PROVE  turn'[w].hops = MaxOf(hops, ItemsOf(worker[w].items)) /\ given'[w] = worker[w].items
  <2> DEFINE h == MaxOf(hops, ItemsOf(worker[w].items))
  <2> HIDE DEF h
  <2> QED BY <1>2 DEF BeginTurn, Prompt, NoTurn, TypeOK, h
<1>3. ASSUME CheckGives(w)
      PROVE  /\ turn'[w].hops = IF MaxOf(hops, ItemsOf(checking[w])) > turn[w].hops
                                THEN MaxOf(hops, ItemsOf(checking[w])) ELSE turn[w].hops
             /\ given'[w] = given[w] \o checking[w]
  BY <1>3 DEF CheckGives, Own, TypeOK, TurnRecord
<1>4. turn[w].hops \in 0..MaxAgentHops
  BY SeqTypes, LimitsAssumption DEF HopsBounded
<1>5. /\ MaxOf(hops, ItemsOf(worker[w].items)) \in 0..MaxAgentHops
      /\ \A i \in ItemsOf(worker[w].items) : hops[i] <= MaxOf(hops, ItemsOf(worker[w].items))
  BY <1>1, HopsOf
<1>6. /\ MaxOf(hops, ItemsOf(checking[w])) \in 0..MaxAgentHops
      /\ \A i \in ItemsOf(checking[w]) : hops[i] <= MaxOf(hops, ItemsOf(checking[w]))
  BY <1>1, HopsOf
<1>7. \A i \in ItemsOf(checking[w]) : hops[i] \in Nat
  BY <1>1 DEF TypeOK
<1>8. BeginTurn(w) =>
        /\ turn'[w].hops \in 0..MaxAgentHops /\ given'[w] = worker[w].items
        /\ \A i \in ItemsOf(worker[w].items) : hops[i] <= turn'[w].hops
  BY <1>2, <1>5
<1>9. ASSUME CheckGives(w)
      PROVE  /\ turn'[w].hops \in 0..MaxAgentHops /\ turn[w].hops <= turn'[w].hops
             /\ given'[w] = given[w] \o checking[w]
             /\ \A i \in ItemsOf(checking[w]) : hops[i] <= turn'[w].hops
  <2> DEFINE h == MaxOf(hops, ItemsOf(checking[w]))
  <2>1. h \in 0..MaxAgentHops /\ \A i \in ItemsOf(checking[w]) : hops[i] <= h
    BY <1>6
  <2>2. turn'[w].hops = IF h > turn[w].hops THEN h ELSE turn[w].hops
    BY <1>3, <1>9
  <2> HIDE DEF h
  <2>3. h <= turn'[w].hops /\ turn[w].hops <= turn'[w].hops /\ turn'[w].hops \in 0..MaxAgentHops
    BY <1>4, <2>1, <2>2, LimitsAssumption
  <2>4. \A i \in ItemsOf(checking[w]) : hops[i] <= turn'[w].hops
    BY <1>7, <2>1, <2>3, LimitsAssumption
  <2> QED BY <1>3, <1>9, <2>3, <2>4
<1> QED BY <1>8, <1>9

\* How a worker comes to be at its Claude process after a step.
LEMMA ComesToClaude ==
  ASSUME TypeOK, [Next]_vars, NEW v \in Workers, At(v, "claude")'
  PROVE  \/ BeginTurn(v)
         \/ /\ At(v, "claude") /\ worker'[v].items = worker[v].items
            /\ turn'[v].hops = turn[v].hops \/ CheckGives(v)
<1>1. ASSUME NEW w \in Workers, w # v, Work(w)
      PROVE  worker'[v] = worker[v] /\ turn'[v] = turn[v]
  <2>1. worker'[v] = worker[v]
    BY <1>1, WorkMoves DEF Others
  <2>2. turn'[v] = turn[v]
    BY <1>1 DEF Work, FinishIfIdle, AcquireSlot, StopWaiting, ReleaseSlot, StartTurn,
       DeliverReply, DeliverFails, ClearReply, BeginTurn, Prompt, LoadFails, Renew,
       ClaudeEnds, ClaudeNotStarted, EndTurn, SaveTurn, process, TypeOK
  <2> QED BY <2>1, <2>2
<1>2. ASSUME Work(v) PROVE BeginTurn(v) \/ Renew(v)
  <2>1. CASE FinishIfIdle(v)
    <3>1. Goto(v, "slot") \/ worker'[v] = NoWorker
      BY <2>1 DEF FinishIfIdle, TypeOK
    <3> QED BY <3>1, GotoMoves DEF NoWorker, At
  <2>2. CASE ReleaseSlot(v)
    BY <2>2 DEF ReleaseSlot, NoWorker, TypeOK, At
  <2>3. CASE StartTurn(v)
    BY <2>3 DEF StartTurn, FirstStep, TypeOK, WorkerRecord, At
  <2>4. CASE \/ AcquireSlot(v) \/ StopWaiting(v) \/ DeliverReply(v) \/ DeliverFails(v)
             \/ ClearReply(v) \/ LoadFails(v) \/ ClaudeEnds(v) \/ ClaudeNotStarted(v)
             \/ SaveTurn(v)
    <3>1. \E pc : pc # "claude" /\ Goto(v, pc)
      BY <2>4 DEF AcquireSlot, StopWaiting, DeliverReply, DeliverFails, ClearReply,
                  LoadFails, ClaudeEnds, ClaudeNotStarted, EndTurn, SaveTurn
    <3> QED BY <3>1, GotoMoves DEF At
  <2> QED BY <1>2, <2>1, <2>2, <2>3, <2>4 DEF Work
<1>3. ASSUME Renew(v)
      PROVE  /\ At(v, "claude") /\ worker'[v].items = worker[v].items
             /\ turn'[v].hops = turn[v].hops
  BY <1>3 DEF Renew, Prompt, TypeOK, TurnRecord, WorkerRecord
<1>4. ASSUME NEW w \in Workers, Claude(w)
      PROVE  /\ At(v, "claude") /\ worker'[v].items = worker[v].items
             /\ turn'[v].hops = turn[v].hops \/ CheckGives(v)
  BY <1>4, ClaudeMoves, ClaudeHops DEF At
<1>5. ASSUME NEW c \in Cards, KickCard(c) PROVE worker'[v] = worker[v]
  BY <1>5, KickMoves DEF Others, At
<1>6. ASSUME NEW i \in Items, Arrive(i) PROVE worker'[v] = worker[v] /\ turn' = turn
  BY <1>5, <1>6, ItemsAssumption DEF Arrive, QueueMention, QueueMessage, Enqueue, Kick,
                                     daemon, process
<1>7. ASSUME NEW c \in Cards, ResumeQueue(c) PROVE worker'[v] = worker[v] /\ turn' = turn
  BY <1>5, <1>7 DEF ResumeQueue, process
<1>8. CASE Drain \/ Stop \/ Restart \/ UNCHANGED vars
  BY <1>8 DEF Drain, Stop, Restart, vars, daemon, process, At
<1>9. ~ LoseMemory
  BY DEF LoseMemory, NoWorker, At
<1> QED
  BY <1>1, <1>2, <1>3, <1>4, <1>6, <1>7, <1>8, <1>9 DEF Next, Exit, Crash, At

LEMMA GivenHopsStep ==
  ASSUME TypeOK, Chains, OnlyAtClaude, [Next]_vars
  PROVE  GivenHops'
<1> SUFFICES ASSUME NEW v \in Workers, At(v, "claude")',
                    NEW i \in ItemsOf(given'[v]) \cup ItemsOf(worker'[v].items)
             PROVE  hops'[i] <= turn'[v].hops
  BY DEF GivenHops
<1> USE DEF Chains
<1>1. /\ ItemsOf(worker[v].items) \subseteq Sent /\ ItemsOf(given[v]) \subseteq Sent
      /\ ItemsOf(checking[v]) \subseteq Sent
  BY DEF ItemsSent
<1>2. \A j \in Sent : hops'[j] = hops[j] /\ hops[j] \in Nat
  BY SentGrows DEF Sent, TypeOK
<1>3. CASE BeginTurn(v)
  <2>1. worker'[v].items = worker[v].items
    BY <1>3, GotoMoves DEF BeginTurn
  <2> QED BY <1>1, <1>2, <1>3, <2>1, NewHops
<1>4. CASE CheckGives(v)
  <2>1. At(v, "claude") /\ worker' = worker
    BY <1>4 DEF CheckGives, OnlyAtClaude, Running, daemon
  <2>2. ItemsOf(given'[v]) \subseteq ItemsOf(given[v]) \cup ItemsOf(checking[v])
    BY <1>4, NewHops, SeqTypes, ItemsOfConcat
  <2>3. CASE i \in ItemsOf(checking[v])
    BY <1>1, <1>2, <1>4, <2>3, NewHops
  <2>4. CASE i \in ItemsOf(given[v]) \cup ItemsOf(worker[v].items)
    <3>1. hops[i] <= turn[v].hops /\ turn[v].hops <= turn'[v].hops
      BY <1>4, <2>1, <2>4, NewHops DEF GivenHops
    <3>2. turn[v].hops \in Nat
      BY SeqTypes
    <3>3. turn'[v].hops \in 0..MaxAgentHops
      BY <1>4, NewHops
    <3>4. turn'[v].hops \in Nat
      BY <3>3
    <3>5. hops'[i] = hops[i] /\ hops[i] \in Nat
      BY <1>1, <1>2, <2>1, <2>4 DEF ItemsSent
    <3> QED BY <3>1, <3>2, <3>4, <3>5
  <2> QED BY <2>1, <2>2, <2>3, <2>4
<1>5. CASE ~ BeginTurn(v) /\ ~ CheckGives(v)
  <2>1. /\ At(v, "claude") /\ worker'[v].items = worker[v].items
        /\ turn'[v].hops = turn[v].hops
    BY <1>5, ComesToClaude
  <2>2. given'[v] \in {given[v], <<>>, worker[v].items}
    BY <1>5, GivenChange
  <2>3. i \in ItemsOf(given[v]) \cup ItemsOf(worker[v].items)
    BY <2>1, <2>2, ItemsOfEmpty
  <2> QED BY <1>1, <1>2, <2>1, <2>3 DEF GivenHops
<1> QED BY <1>3, <1>4, <1>5

LEMMA HopsBoundedStep ==
  ASSUME TypeOK, Chains, OnlyAtClaude, [Next]_vars
  PROVE  HopsBounded'
<1> USE DEF Chains
<1>1. ASSUME NEW w \in Workers PROVE turn'[w].hops <= MaxAgentHops
  <2>1. turn[w].hops <= MaxAgentHops /\ NoTurn.hops <= MaxAgentHops
    BY LimitsAssumption DEF HopsBounded, NoTurn
  <2>2. BeginTurn(w) \/ CheckGives(w) => turn'[w].hops \in 0..MaxAgentHops
    BY NewHops
  <2> QED BY <2>1, <2>2, TurnHopsChange, LimitsAssumption
<1>2. ASSUME NEW i \in Items PROVE depth'[i] <= hops'[i] /\ hops'[i] <= MaxAgentHops
  <2>1. depth[i] <= hops[i] /\ hops[i] <= MaxAgentHops
    BY DEF HopsBounded
  <2>2. CASE hops'[i] = hops[i] /\ depth'[i] = depth[i]
    BY <2>1, <2>2
  <2>3. ASSUME NEW w \in Workers, SendMessage(w, i)
        PROVE  depth'[i] <= hops'[i] /\ hops'[i] <= MaxAgentHops
    <3> DEFINE h == turn[w].hops
    <3>1. /\ hops'[i] = h + 1 /\ depth'[i] = MaxOf(depth, ItemsOf(given[w])) + 1
          /\ h < MaxAgentHops /\ At(w, "claude") /\ h \in 0..MaxAgentHops
      BY <2>3, SeqTypes, LimitsAssumption DEF SendMessage, SendAllowed, TypeOK
    <3>2. ItemsOf(given[w]) \subseteq Items
      BY SeqTypes, ItemsOfType
    <3>3. \A j \in ItemsOf(given[w]) : depth[j] <= h
      <4> SUFFICES ASSUME NEW j \in ItemsOf(given[w]) PROVE depth[j] <= h
        OBVIOUS
      <4>1. depth[j] <= hops[j] /\ hops[j] <= h
        BY <3>1, <3>2 DEF HopsBounded, GivenHops
      <4>2. depth[j] \in Nat /\ hops[j] \in Nat
        BY <3>2 DEF TypeOK
      <4> QED BY <3>1, <4>1, <4>2
    <3>4. MaxOf(depth, ItemsOf(given[w])) \in 0..MaxAgentHops
          /\ MaxOf(depth, ItemsOf(given[w])) <= h
      BY <3>1, <3>2, <3>3, DepthOf
    <3> QED BY <3>1, <3>4, LimitsAssumption
  <2>4. \/ hops'[i] = hops[i] /\ depth'[i] = depth[i]
        \/ \E w \in Workers : SendMessage(w, i)
    BY HopsChange
  <2> QED BY <2>2, <2>3, <2>4
<1> QED BY <1>1, <1>2 DEF HopsBounded

-----------------------------------------------------------------------------
(* The inductive invariant and what follows from it *)

IInv ==
  /\ TypeOK
  /\ OneWorkerPerCard
  /\ SlotsHeld
  /\ OnlyAtClaude
  /\ WorkHasWorker
  /\ WorkersFront
  /\ Chains

LEMMA InitIInv == Init => IInv
<1> SUFFICES ASSUME Init PROVE IInv
  OBVIOUS
<1>1. \A w \in Workers : worker[w].pc = "gone" /\ worker[w].items = <<>>
  BY DEF Init, NoWorker
<1>2. OneWorkerPerCard /\ OnlyAtClaude /\ WorkHasWorker /\ WorkersFront
  BY <1>1 DEF Init, OneWorkerPerCard, OnlyAtClaude, WorkHasWorker, WorkersFront, Fronts,
              At, NoTurn
<1>3. SlotsHeld
  <2>1. Holders = {}
    BY <1>1 DEF Holders, Holding
  <2> QED BY <2>1, FS_EmptySet DEF Init, SlotsHeld
<1>4. Chains
  BY <1>1, ItemsOfEmpty, LimitsAssumption
     DEF Init, Chains, HopsBounded, ItemsSent, GivenHops, At, NoTurn
<1> QED BY <1>2, <1>3, <1>4, InitTypes DEF IInv

LEMMA StepIInv == IInv /\ [Next]_vars => IInv'
<1> SUFFICES ASSUME IInv, [Next]_vars PROVE IInv'
  OBVIOUS
<1> USE DEF IInv
<1>1. TypeOK'
  BY TypesStep DEF Chains
<1>2. OneWorkerPerCard' /\ SlotsHeld' /\ OnlyAtClaude' /\ WorkHasWorker'
  BY OneWorkerStep, SlotsStep, AtClaudeStep, HasWorkerStep
<1>3. WorkersFront'
  BY FrontStep
<1>4. Chains'
  BY HopsBoundedStep, ItemsSentStep, GivenHopsStep DEF Chains
<1> QED BY <1>1, <1>2, <1>3, <1>4

LEMMA Invariance == Spec => []IInv
BY InitIInv, StepIInv, PTL DEF Spec

\* The state of the daemon keeps its types; a slot is never freed that nobody
\* holds.
THEOREM TypeCorrect == Spec => []TypeOK
BY Invariance, PTL DEF IInv

\* kick and finishIfIdle agree: for any cards, items and number of workers, one
\* goroutine at a time works on a card, and `running' has exactly those cards.
THEOREM OneWorker == Spec => []OneWorkerPerCard
BY Invariance, PTL DEF IInv

\* No queued item and no recorded answer waits without a worker or a kick while
\* the daemon takes turns: no wakeup between finishIfIdle and kick is lost.
THEOREM NoWakeupLost == Spec => []WorkHasWorker
BY Invariance, PTL DEF IInv

\* Never more than max_concurrent turns: each live turn has a worker that holds
\* a token of `slots', and the channel has room for max_concurrent.
THEOREM LimitKept == Spec => []TurnsWithinLimit
<1>1. IInv => TurnsWithinLimit
  <2> SUFFICES ASSUME IInv PROVE TurnsWithinLimit
    OBVIOUS
  <2> DEFINE Live == {w \in Workers : turn[w].live}
  <2>1. Live \subseteq Holders
    BY DEF IInv, OnlyAtClaude, Holders, Holding, Pcs, At
  <2>2. IsFiniteSet(Holders) /\ slots = Cardinality(Holders) /\ slots <= MaxConcurrent
    BY SlotCount, LimitsAssumption DEF IInv, SlotsHeld, TypeOK
  <2>3. Cardinality(Live) <= Cardinality(Holders) /\ IsFiniteSet(Live)
    BY <2>1, <2>2, FS_Subset
  <2>4. Cardinality(Live) \in Nat /\ Cardinality(Holders) \in Nat
    BY <2>2, <2>3, FS_CardinalityType
  <2> QED BY <2>2, <2>3, <2>4, LimitsAssumption DEF TurnsWithinLimit
<1> QED BY <1>1, Invariance, PTL

\* What the last store.Update of runTurn removes from the queue is what Claude
\* got, whatever arrived, was checked, failed or was renewed in the turn.
THEOREM OwnsFront == Spec => []TurnOwnsFrontOfQueue
<1>1. IInv => TurnOwnsFrontOfQueue
  <2> SUFFICES ASSUME IInv, NEW w \in Workers, worker[w].pc \in {"claude", "save"}
               PROVE  /\ turn[w].consumed <= Len(queue[Card(w)])
                      /\ given[w] = SubSeq(queue[Card(w)], 1, turn[w].consumed)
    BY DEF TurnOwnsFrontOfQueue
  <2>1. TypeOK /\ Fronts(w)
    BY DEF IInv, WorkersFront
  <2>2. Len(given[w]) = turn[w].consumed /\ FrontOf(given[w], queue[Card(w)])
    BY <2>1, SeqTypes, FrontOfConcat DEF Fronts
  <2>3. given[w] = SubSeq(queue[Card(w)], 1, Len(given[w]))
    BY <2>1, <2>2, SeqTypes, FrontIsSubSeq
  <2> QED BY <2>2, <2>3 DEF FrontOf
<1> QED BY <1>1, Invariance, PTL

\* A chain of agent messages ends at maxAgentHops, for any agents, messages and
\* parallel turns: a message counts the hops of all that its turn got.
THEOREM ChainsEnd == Spec => []ChainsBounded
<1>1. IInv => ChainsBounded
  <2> SUFFICES ASSUME IInv, NEW i \in Items PROVE depth[i] <= MaxAgentHops
    BY DEF ChainsBounded
  <2>1. depth[i] \in Nat /\ hops[i] \in Nat
    BY DEF IInv, TypeOK
  <2> QED BY <2>1, LimitsAssumption DEF IInv, Chains, HopsBounded
<1> QED BY <1>1, Invariance, PTL

-----------------------------------------------------------------------------
(* What leaves a queue *)

\* A turn starts with items and without an answer to post, and the queue of a
\* card is not longer than its log.
Ready(w) ==
  /\ worker[w].pc \in {"load", "claude", "save"} =>
       worker[w].items # <<>> /\ ~ pendingReply[Card(w)]
  /\ worker[w].pc \in {"claude", "save"} => Len(worker[w].items) <= turn[w].consumed

WorkersReady == \A w \in Workers : Ready(w)

QueueInLog == \A c \in Cards : Len(queue[c]) <= Len(log[c])

LEMMA ItemsOfAppendIs ==
  ASSUME NEW S, NEW s \in Seq(S), NEW x \in S
  PROVE  ItemsOf(Append(s, x)) = ItemsOf(s) \cup {x}
<1>1. /\ Len(s) \in Nat /\ Len(Append(s, x)) = Len(s) + 1
      /\ \A k \in 1..Len(s) : Append(s, x)[k] = s[k]
      /\ Append(s, x)[Len(s) + 1] = x
  BY AppendProperties, LenProperties
<1>2. ItemsOf(s) \subseteq ItemsOf(Append(s, x))
  <2> SUFFICES ASSUME NEW y \in ItemsOf(s) PROVE y \in ItemsOf(Append(s, x))
    OBVIOUS
  <2>1. PICK k \in 1..Len(s) : y = s[k]
    BY DEF ItemsOf
  <2>2. k \in 1..Len(Append(s, x)) /\ y = Append(s, x)[k]
    BY <1>1, <2>1
  <2> QED BY <2>2 DEF ItemsOf
<1>3. x \in ItemsOf(Append(s, x))
  <2>1. Len(s) + 1 \in 1..Len(Append(s, x))
    BY <1>1
  <2> QED BY <1>1, <2>1 DEF ItemsOf
<1> QED BY <1>2, <1>3, ItemsOfAppend

LEMMA DropFirstIs ==
  ASSUME NEW S, NEW s \in Seq(S), NEW n \in Nat, n <= Len(s)
  PROVE  /\ DropFirst(s, n) \in Seq(S)
         /\ Len(DropFirst(s, n)) = Len(s) - n
         /\ \A k \in 1 .. Len(s) - n : DropFirst(s, n)[k] = s[n + k]
<1>1. Len(s) \in Nat /\ \A k \in n + 1 .. Len(s) : s[k] \in S
  BY LenProperties, ElementOfSeq
<1>2. /\ DropFirst(s, n) \in Seq(S)
      /\ Len(DropFirst(s, n)) = IF n + 1 <= Len(s) THEN Len(s) - n ELSE 0
      /\ \A k \in 1 .. Len(s) - (n + 1) + 1 : DropFirst(s, n)[k] = s[(n + 1) + k - 1]
  BY <1>1, SubSeqProperties DEF DropFirst
<1> QED BY <1>1, <1>2

\* What is dropped is the start of the queue.
LEMMA FrontLeaves ==
  ASSUME NEW S, NEW s \in Seq(S), NEW q \in Seq(S), FrontOf(s, q)
  PROVE  ItemsOf(q) \subseteq ItemsOf(s) \cup ItemsOf(DropFirst(q, Len(s)))
<1>1. Len(s) \in Nat /\ Len(q) \in Nat /\ Len(s) <= Len(q)
  BY LenProperties DEF FrontOf
<1> SUFFICES ASSUME NEW x \in ItemsOf(q), x \notin ItemsOf(s)
             PROVE  x \in ItemsOf(DropFirst(q, Len(s)))
  OBVIOUS
<1>2. PICK k \in 1..Len(q) : x = q[k]
  BY DEF ItemsOf
<1>3. k > Len(s)
  BY <1>1, <1>2 DEF FrontOf, ItemsOf
<1>4. /\ k - Len(s) \in 1 .. Len(q) - Len(s)
      /\ Len(s) + (k - Len(s)) = k
  BY <1>1, <1>3
<1>5. PICK n : n = Len(s)
  OBVIOUS
<1>6. /\ n \in Nat /\ n <= Len(q)
      /\ Len(DropFirst(q, n)) = Len(q) - n
      /\ \A i \in 1..(Len(q) - n) : DropFirst(q, n)[i] = q[n + i]
  BY <1>1, <1>5, DropFirstIs
<1>7. k - n \in 1..Len(DropFirst(q, n)) /\ x = DropFirst(q, n)[k - n]
  BY <1>2, <1>4, <1>5, <1>6
<1>8. x \in ItemsOf(DropFirst(q, n))
  BY <1>7 DEF ItemsOf
<1> QED BY <1>5, <1>8

\* What the last Update of a turn removes is what Claude got.
LEMMA SaveRemoves ==
  ASSUME IInv, NEW w \in Workers, At(w, "save")
  PROVE  /\ Len(given[w]) = turn[w].consumed
         /\ FrontOf(given[w], queue[Card(w)])
<1>1. TypeOK /\ Fronts(w)
  BY DEF IInv, WorkersFront
<1> QED BY <1>1, SeqTypes, FrontOfConcat DEF Fronts, At

\* Only these steps change the queue, the log or the answer of card c.
LEMMA StoreChange ==
  ASSUME IInv, [Next]_vars, NEW c \in Cards
  PROVE  \/ UNCHANGED <<queue[c], log[c], pendingReply[c]>>
         \/ \E i \in Items :
              /\ queue'[c] = Append(queue[c], i) /\ log'[c] = Append(log[c], i)
              /\ pendingReply'[c] = pendingReply[c]
              /\ queue' = [queue EXCEPT ![c] = Append(@, i)]
              /\ log' = [log EXCEPT ![c] = Append(@, i)]
              /\ pendingReply' = pendingReply
              /\ UNCHANGED <<worker, turn, given, answered>>
         \/ \E w \in Workers : Card(w) = c /\ (SaveTurn(w) \/ ClearReply(w))
<1>0. TypeOK
  BY DEF IInv
<1>1. ASSUME NEW i \in Items, Enqueue(i), c = CardOf[i]
      PROVE  /\ queue'[c] = Append(queue[c], i) /\ log'[c] = Append(log[c], i)
             /\ pendingReply'[c] = pendingReply[c]
             /\ queue' = [queue EXCEPT ![c] = Append(@, i)]
             /\ log' = [log EXCEPT ![c] = Append(@, i)]
             /\ pendingReply' = pendingReply
             /\ UNCHANGED <<worker, turn, given, answered>>
  BY <1>0, <1>1 DEF Enqueue, TypeOK, daemon, process
<1>2. ASSUME NEW i \in Items, Enqueue(i), c # CardOf[i]
      PROVE  UNCHANGED <<queue[c], log[c], pendingReply[c]>>
  BY <1>0, <1>2, ItemsAssumption DEF Enqueue, TypeOK
<1>3. ASSUME NEW w \in Workers, SaveTurn(w) \/ ClearReply(w), Card(w) # c
      PROVE  UNCHANGED <<queue[c], log[c], pendingReply[c]>>
  BY <1>0, <1>3, SeqTypes DEF SaveTurn, ClearReply, TypeOK, arrival
<1>4. CASE /\ ~ \E i \in Items : Enqueue(i)
           /\ ~ \E w \in Workers : SaveTurn(w) \/ ClearReply(w)
  <2>1. UNCHANGED <<queue, pendingReply, log>>
    BY <1>4 DEF Next, Work, FinishIfIdle, AcquireSlot, StopWaiting, ReleaseSlot, StartTurn,
       DeliverReply, DeliverFails, BeginTurn, LoadFails, Renew,
       ClaudeEnds, ClaudeNotStarted, EndTurn, Claude, ClaudeStarts, PostComment, NoteComment,
       LoseNote, CheckReads, CheckGives, CheckFails, Expire, SendMessage, Arrive,
       QueueMention, QueueMessage, Kick, ResumeQueue, Drain, Stop, Exit, Crash,
       LoseMemory, Restart, vars, store, arrival
  <2> QED BY <2>1
<1> QED BY <1>1, <1>2, <1>3, <1>4

LEMMA QueueInLogStep ==
  ASSUME IInv, QueueInLog, [Next]_vars
  PROVE  QueueInLog'
<1> SUFFICES ASSUME NEW c \in Cards PROVE Len(queue'[c]) <= Len(log'[c])
  BY DEF QueueInLog
<1>1. /\ queue[c] \in Seq(Items) /\ log[c] \in Seq(Items)
      /\ Len(queue[c]) \in Nat /\ Len(log[c]) \in Nat /\ Len(queue[c]) <= Len(log[c])
  BY LenProperties DEF IInv, TypeOK, QueueInLog
<1>2. ASSUME NEW i \in Items, queue'[c] = Append(queue[c], i), log'[c] = Append(log[c], i)
      PROVE  Len(queue'[c]) <= Len(log'[c])
  BY <1>1, <1>2, AppendProperties
<1>3. ASSUME NEW w \in Workers, Card(w) = c, SaveTurn(w)
      PROVE  Len(queue'[c]) <= Len(log'[c])
  <2>1. /\ queue'[c] = DropFirst(queue[c], turn[w].consumed) /\ log' = log
        /\ At(w, "save")
    BY <1>3 DEF SaveTurn, Removed, IInv, TypeOK, arrival
  <2>2. turn[w].consumed \in Nat /\ turn[w].consumed <= Len(queue[c])
    BY <1>3, <2>1, SaveRemoves, SeqTypes DEF FrontOf, IInv
  <2> QED BY <1>1, <2>1, <2>2, DropFirstIs
<1>4. ASSUME NEW w \in Workers, ClearReply(w) PROVE Len(queue'[c]) <= Len(log'[c])
  BY <1>1, <1>4 DEF ClearReply, arrival
<1> QED BY <1>1, <1>2, <1>3, <1>4, StoreChange

\* Nothing changes that Ready reads of w.
LEMMA ReadySame ==
  ASSUME NEW w \in Workers, Ready(w),
         worker'[w].pc = worker[w].pc, worker'[w].items = worker[w].items,
         worker'[w].card = worker[w].card,
         turn'[w].consumed = turn[w].consumed,
         pendingReply'[Card(w)] = pendingReply[Card(w)]
  PROVE  Ready(w)'
BY DEF Ready, Card

LEMMA ReadyClaude ==
  ASSUME IInv, NEW v \in Workers, Ready(v), NEW w \in Workers, Claude(w)
  PROVE  Ready(v)'
<1>0. TypeOK
  BY DEF IInv
<1>1. /\ worker'[v].pc = worker[v].pc /\ worker'[v].items = worker[v].items
      /\ worker'[v].card = worker[v].card
  BY <1>0, ClaudeMoves
<1>2. pendingReply' = pendingReply
  BY DEF Claude, ClaudeStarts, PostComment, NoteComment, LoseNote, CheckReads,
         CheckGives, CheckFails, Expire, SendMessage, store
<1>3. turn'[v].consumed \in Nat /\ turn'[v].consumed >= turn[v].consumed
  <2>0. turn[v].consumed \in Nat
    BY <1>0, SeqTypes
  <2>1. CASE NoteComment(w)
    <3>1. \A r : [turn EXCEPT ![w].replied = r, ![w].current = TRUE][v].consumed
                   = turn[v].consumed
      BY <1>0 DEF TypeOK, TurnRecord
    <3> QED BY <2>0, <2>1, <3>1 DEF NoteComment
  <2>2. CASE Expire(w)
    BY <1>0, <2>0, <2>2 DEF Expire, TypeOK, TurnRecord
  <2>3. CASE CheckGives(w)
    <3>1. turn'[v].consumed \in {turn[v].consumed, turn[v].consumed + Len(checking[w])}
      BY <1>0, <2>3 DEF CheckGives, Own, TypeOK, TurnRecord
    <3>2. Len(checking[w]) \in Nat
      BY <1>0, SeqTypes, LenProperties
    <3> QED BY <2>0, <3>1, <3>2
  <2>4. CASE ~ (NoteComment(w) \/ Expire(w) \/ CheckGives(w))
    <3>1. turn' = turn
      BY <2>4 DEF Claude, ClaudeStarts, PostComment, LoseNote, CheckReads, CheckFails,
                  SendMessage, process
    <3> QED BY <2>0, <3>1
  <2> QED BY <2>1, <2>2, <2>3, <2>4
<1>4. turn[v].consumed \in Nat /\ Len(worker[v].items) \in Nat
  BY <1>0, SeqTypes, LenProperties
<1> QED BY <1>1, <1>2, <1>3, <1>4 DEF Ready, Card

\* A step of another worker.
LEMMA ReadyOther ==
  ASSUME IInv, NEW w \in Workers, Work(w), NEW v \in Workers \ {w}, Ready(v)
  PROVE  Ready(v)'
<1>0. TypeOK /\ OneWorkerPerCard
  BY DEF IInv
<1>1. worker'[v] = worker[v]
  BY <1>0, WorkMoves DEF Others
<1>2. turn'[v] = turn[v]
  BY <1>0 DEF Work, FinishIfIdle, AcquireSlot, StopWaiting, ReleaseSlot, StartTurn,
         DeliverReply, DeliverFails, ClearReply, BeginTurn, Prompt, LoadFails, Renew,
         ClaudeEnds, ClaudeNotStarted, EndTurn, SaveTurn, process, TypeOK
<1>3. CASE At(v, "gone")
  BY <1>1, <1>3 DEF Ready, At
<1>4. CASE ~ At(v, "gone")
  <2>1. ~ At(w, "gone")
    BY <1>0, WorkMoves DEF Ends, GoesOn, At
  <2>2. Card(v) # Card(w)
    BY <1>0, <1>4, <2>1 DEF OneWorkerPerCard
  <2>3. pendingReply'[Card(v)] = pendingReply[Card(v)]
    BY <1>0, <2>2, SeqTypes DEF Work, FinishIfIdle, AcquireSlot, StopWaiting, ReleaseSlot,
       StartTurn, DeliverReply, DeliverFails, ClearReply, BeginTurn, LoadFails, Renew,
       ClaudeEnds, ClaudeNotStarted, EndTurn, SaveTurn, store, TypeOK
  <2> QED BY <1>1, <1>2, <2>3, ReadySame
<1> QED BY <1>3, <1>4

\* A step of the worker itself.
LEMMA ReadyOwn ==
  ASSUME IInv, NEW w \in Workers, Ready(w), Work(w)
  PROVE  Ready(w)'
<1> DEFINE InTurn == {"load", "claude", "save"}
<1>0. TypeOK
  BY DEF IInv
<1>1. CASE FinishIfIdle(w) \/ AcquireSlot(w) \/ StopWaiting(w) \/ ReleaseSlot(w)
           \/ DeliverReply(w) \/ DeliverFails(w) \/ LoadFails(w) \/ ClaudeNotStarted(w)
           \/ SaveTurn(w)
  <2>1. CASE ~ (FinishIfIdle(w) \/ ReleaseSlot(w))
    <3>1. \E pc : pc \notin InTurn /\ Goto(w, pc)
      BY <1>1, <2>1 DEF AcquireSlot, StopWaiting, DeliverReply, DeliverFails, LoadFails,
                        ClaudeNotStarted, EndTurn, SaveTurn
    <3> QED BY <1>0, <3>1, GotoMoves DEF Ready
  <2>2. CASE FinishIfIdle(w)
    <3>1. worker'[w] = NoWorker \/ Goto(w, "slot")
      BY <1>0, <2>2 DEF FinishIfIdle, TypeOK
    <3>2. worker'[w].pc \in {"gone", "slot"}
      BY <1>0, <3>1, GotoMoves DEF NoWorker
    <3> QED BY <3>2 DEF Ready
  <2>3. CASE ReleaseSlot(w)
    <3>1. worker'[w].pc \in {"retry", "top"}
      BY <1>0, <2>3 DEF ReleaseSlot, NoWorker, TypeOK
    <3> QED BY <3>1 DEF Ready
  <2> QED BY <2>1, <2>2, <2>3
<1>2. CASE StartTurn(w)
  <2>1. /\ worker'[w].pc = FirstStep(Card(w)) /\ pendingReply' = pendingReply
        /\ worker'[w].items = queue[Card(w)] /\ Card(w)' = Card(w)
    BY <1>0, <1>2 DEF StartTurn, TypeOK, WorkerRecord, store, Card
  <2>2. /\ FirstStep(Card(w)) \in {"deliver", "free", "load"}
        /\ FirstStep(Card(w)) = "load" =>
             queue[Card(w)] # <<>> /\ ~ pendingReply[Card(w)]
    BY DEF FirstStep
  <2> QED BY <2>1, <2>2 DEF Ready
<1>3. CASE ClearReply(w)
  <2>1. /\ worker'[w].pc \in {"load", "free"}
        /\ worker'[w].pc = "load" => worker[w].items # <<>>
        /\ worker'[w].items = worker[w].items /\ Card(w)' = Card(w)
    BY <1>0, <1>3, GotoMoves DEF ClearReply, Card
  <2>2. ~ pendingReply'[Card(w)]
    BY <1>0, <1>3, SeqTypes DEF ClearReply, TypeOK
  <2> QED BY <2>1, <2>2 DEF Ready
<1>4. CASE BeginTurn(w)
  <2>1. /\ At(w, "load") /\ pendingReply' = pendingReply
        /\ worker'[w].pc = "claude" /\ worker'[w].items = worker[w].items
        /\ Card(w)' = Card(w)
    BY <1>0, <1>4, GotoMoves DEF BeginTurn, store, Card
  <2>2. turn'[w].consumed = Len(worker[w].items) /\ Len(worker[w].items) \in Nat
    BY <1>0, <1>4, SeqTypes, LenProperties DEF BeginTurn, Prompt, NoTurn, TypeOK
  <2> QED BY <2>1, <2>2 DEF Ready, At
<1>5. CASE Renew(w)
  <2>1. /\ At(w, "claude") /\ pendingReply' = pendingReply
        /\ worker'[w].pc = "claude" /\ worker'[w].items = worker[w].items
        /\ Card(w)' = Card(w)
    BY <1>0, <1>5 DEF Renew, store, TypeOK, WorkerRecord, At, Card
  <2>2. turn'[w].consumed = Len(worker[w].items) /\ Len(worker[w].items) \in Nat
    BY <1>0, <1>5, SeqTypes, LenProperties DEF Renew, Prompt, TypeOK, TurnRecord
  <2> QED BY <2>1, <2>2 DEF Ready, At
<1>6. CASE ClaudeEnds(w)
  <2>1. PICK next \in {"save", "fail"} : EndTurn(w, next)
    BY <1>6 DEF ClaudeEnds
  <2>2. CASE next = "fail"
    BY <1>0, <2>1, <2>2, GotoMoves DEF EndTurn, Ready
  <2>3. CASE next = "save"
    <3>1. /\ worker'[w].pc = "save" /\ worker'[w].items = worker[w].items
          /\ Card(w)' = Card(w) /\ pendingReply' = pendingReply
          /\ turn'[w].consumed = turn[w].consumed
      BY <1>0, <2>1, <2>3, GotoMoves DEF EndTurn, store, TypeOK, TurnRecord, Card
    <3>2. worker[w].pc = "claude"
      BY <1>6 DEF ClaudeEnds, At
    <3> QED BY <3>1, <3>2 DEF Ready
  <2> QED BY <2>2, <2>3
<1> QED BY <1>1, <1>2, <1>3, <1>4, <1>5, <1>6 DEF Work

LEMMA ReadyStep ==
  ASSUME IInv, WorkersReady, [Next]_vars
  PROVE  WorkersReady'
<1> SUFFICES ASSUME NEW v \in Workers PROVE Ready(v)'
  BY DEF WorkersReady
<1>0. Ready(v) /\ TypeOK
  BY DEF WorkersReady, IInv
<1>1. ASSUME NEW c \in Cards, KickCard(c), UNCHANGED <<store, process>> PROVE Ready(v)'
  <2>1. CASE worker'[v] = worker[v]
    BY <1>0, <1>1, <2>1, ReadySame DEF store, process
  <2>2. CASE worker'[v].pc = "top"
    BY <2>2 DEF Ready
  <2> QED BY <1>0, <1>1, <2>1, <2>2, KickMoves DEF Others
<1>2. ASSUME NEW i \in Items, Arrive(i) PROVE Ready(v)'
  <2>1. CASE QueueMention(i) \/ QueueMessage(i)
    BY <1>0, <2>1, ReadySame DEF QueueMention, QueueMessage, Enqueue, daemon, process
  <2>2. CASE Kick(i)
    BY <1>1, <2>2, ItemsAssumption DEF Kick
  <2> QED BY <1>2, <2>1, <2>2 DEF Arrive
<1>3. ASSUME NEW c \in Cards, ResumeQueue(c) PROVE Ready(v)'
  BY <1>1, <1>3 DEF ResumeQueue
<1>4. CASE Drain \/ Stop \/ Restart \/ UNCHANGED vars
  BY <1>0, <1>4, ReadySame DEF Drain, Stop, Restart, vars, daemon, process, store
<1>5. CASE LoseMemory
  BY <1>5 DEF LoseMemory, Ready, NoWorker
<1> QED
  BY <1>0, <1>2, <1>3, <1>4, <1>5, ReadyClaude, ReadyOther, ReadyOwn
     DEF Next, Exit, Crash

-----------------------------------------------------------------------------
(* CardWorker implements Inbox *)

Filled == IInv /\ WorkersReady /\ QueueInLog

LEMMA FilledInit == Init => Filled
<1> SUFFICES ASSUME Init PROVE Filled
  OBVIOUS
<1>1. IInv
  BY InitIInv
<1>2. WorkersReady
  BY DEF Init, WorkersReady, Ready, NoWorker
<1>3. QueueInLog
  BY EmptySeq DEF Init, QueueInLog
<1> QED BY <1>1, <1>2, <1>3 DEF Filled

LEMMA FilledStep == Filled /\ [Next]_vars => Filled'
BY StepIInv, ReadyStep, QueueInLogStep DEF Filled

LEMMA FilledAlways == Spec => []Filled
BY FilledInit, FilledStep, PTL DEF Spec

\* The last Update of a turn finishes the items that Claude got, at least one,
\* on a card that owes no answer.
LEMMA SaveFinishes ==
  ASSUME Filled, NEW w \in Workers, SaveTurn(w)
  PROVE  Promise!Next
<1> DEFINE c == Card(w)
           n == turn[w].consumed
           rest == DropFirst(queue[c], n)
           done == [d \in Cards |-> Len(log[d]) - Len(queue[d])]
<1>0. TypeOK /\ Ready(w) /\ QueueInLog
  BY DEF Filled, IInv, WorkersReady
<1>1. /\ At(w, "save") /\ log' = log
      /\ queue' = [queue EXCEPT ![c] = rest]
      /\ pendingReply' = [pendingReply EXCEPT ![c] = OwesAnswer(w)]
  BY DEF SaveTurn, Removed, arrival
<1>2. /\ c \in Cards /\ queue[c] \in Seq(Items) /\ n \in Nat
      /\ Len(queue[c]) \in Nat /\ Len(log[c]) \in Nat /\ Len(queue[c]) <= Len(log[c])
  BY <1>0, SeqTypes, LenProperties DEF TypeOK, QueueInLog
<1>3. n >= 1
  <2>1. worker[w].items # <<>> /\ Len(worker[w].items) <= n
    BY <1>0, <1>1 DEF Ready, At
  <2>2. Len(worker[w].items) \in Nat /\ Len(worker[w].items) # 0
    BY <1>0, <2>1, SeqTypes, LenProperties, EmptySeq
  <2> QED BY <1>2, <2>1, <2>2
<1>4. n <= Len(queue[c])
  BY <1>1, SaveRemoves DEF Filled, FrontOf
<1>5. Len(rest) = Len(queue[c]) - n
  BY <1>2, <1>4, DropFirstIs
<1>6. ~ pendingReply[c]
  BY <1>0, <1>1 DEF Ready, At
<1>7. done' = [done EXCEPT ![c] = @ + n]
  <2> SUFFICES ASSUME NEW d \in Cards
               PROVE  Len(log'[d]) - Len(queue'[d]) = [done EXCEPT ![c] = @ + n][d]
    OBVIOUS
  <2>1. CASE d = c
    <3>1. queue'[c] = rest
      BY <1>0, <1>1, <1>2 DEF TypeOK
    <3>2. [done EXCEPT ![c] = @ + n][c] = Len(log[c]) - Len(queue[c]) + n
      BY <1>2
    <3>3. Len(log'[c]) - Len(queue'[c]) = Len(log[c]) - (Len(queue[c]) - n)
      BY <1>1, <1>5, <3>1
    <3>4. Len(log[c]) - Len(queue[c]) + n = Len(log[c]) - (Len(queue[c]) - n)
      <4>1. \A x, y, z \in Nat : x - y + z = x - (y - z)
        OBVIOUS
      <4> HIDE DEF rest, n, c, done
      <4> QED BY <1>2, <4>1
    <3>5. Len(log'[d]) - Len(queue'[d]) = Len(log'[c]) - Len(queue'[c])
      BY <2>1
    <3>6. [done EXCEPT ![c] = @ + n][d] = [done EXCEPT ![c] = @ + n][c]
      BY <2>1
    <3> HIDE DEF rest, n, c, done
    <3> QED BY <3>2, <3>3, <3>4, <3>5, <3>6
  <2>2. CASE d # c
    BY <1>0, <1>1, <2>2 DEF TypeOK
  <2> QED BY <2>1, <2>2
<1>8. done[c] = Len(log[c]) - Len(queue[c])
  BY <1>2
<1>9. n \in 1 .. (Len(log[c]) - done[c]) /\ n \in 1..Len(log[c])
  <2> HIDE DEF done, n, c
  <2> QED BY <1>2, <1>3, <1>4, <1>8
<1>10. OwesAnswer(w) \in BOOLEAN
  BY <1>0 DEF OwesAnswer, Answered, TypeOK, TurnRecord
<1>11. PICK d \in Cards, m \in Nat, answer \in BOOLEAN :
          d = c /\ m = n /\ answer = OwesAnswer(w)
  BY <1>2, <1>10
<1>12. Promise!Finish(d, m, answer)
  BY <1>1, <1>6, <1>7, <1>9, <1>11 DEF Promise!Finish
<1>13. m \in 1..Len(log[d])
  BY <1>9, <1>11
<1> QED BY <1>12, <1>13 DEF Promise!Next

\* Each step is a step of Inbox or changes nothing of it.
LEMMA StepOfInbox ==
  ASSUME Filled, [Next]_vars
  PROVE  [Promise!Next]_(Promise!vars)
<1> DEFINE done == [d \in Cards |-> Len(log[d]) - Len(queue[d])]
<1>0. TypeOK
  BY DEF Filled, IInv
<1>1. CASE UNCHANGED <<queue, log, pendingReply>>
  BY <1>1 DEF Promise!vars
<1>2. ASSUME NEW i \in Items, Enqueue(i) PROVE Promise!Next
  <2> DEFINE c == CardOf[i]
  <2>1. /\ c \in Cards /\ queue' = [queue EXCEPT ![c] = Append(@, i)]
        /\ log' = [log EXCEPT ![c] = Append(@, i)] /\ pendingReply' = pendingReply
    BY <1>2, ItemsAssumption DEF Enqueue
  <2>2. done' = done
    <3> SUFFICES ASSUME NEW d \in Cards
                 PROVE  Len(log'[d]) - Len(queue'[d]) = Len(log[d]) - Len(queue[d])
      OBVIOUS
    <3>1. /\ queue[d] \in Seq(Items) /\ log[d] \in Seq(Items)
          /\ Len(queue[d]) \in Nat /\ Len(log[d]) \in Nat
      BY <1>0, LenProperties DEF TypeOK
    <3>2. CASE d = c
      <4>1. queue'[d] = Append(queue[d], i) /\ log'[d] = Append(log[d], i)
        BY <1>0, <2>1, <3>2 DEF TypeOK
      <4>2. Len(queue'[d]) = Len(queue[d]) + 1 /\ Len(log'[d]) = Len(log[d]) + 1
        BY <3>1, <4>1, AppendProperties
      <4> QED BY <3>1, <4>2
    <3>3. CASE d # c
      BY <1>0, <2>1, <3>3 DEF TypeOK
    <3> QED BY <3>2, <3>3
  <2>3. Promise!Accept(c, i)
    BY <2>1, <2>2 DEF Promise!Accept
  <2> QED BY <2>1, <2>3 DEF Promise!Next
<1>3. ASSUME NEW w \in Workers, ClearReply(w) PROVE [Promise!Next]_(Promise!vars)
  <2> DEFINE c == Card(w)
  <2>1. /\ c \in Cards /\ UNCHANGED <<queue, log>>
        /\ pendingReply' = [pendingReply EXCEPT ![c] = FALSE]
    BY <1>0, <1>3, SeqTypes DEF ClearReply, arrival
  <2>2. CASE pendingReply[c]
    <3>1. Promise!PayAnswer(c)
      BY <2>1, <2>2 DEF Promise!PayAnswer
    <3> QED BY <2>1, <3>1 DEF Promise!Next
  <2>3. CASE ~ pendingReply[c]
    <3>1. pendingReply' = pendingReply
      BY <1>0, <2>1, <2>3 DEF TypeOK
    <3> QED BY <1>1, <2>1, <3>1
  <2> QED BY <2>2, <2>3
<1>4. CASE /\ ~ \E i \in Items : Enqueue(i)
           /\ ~ \E w \in Workers : SaveTurn(w) \/ ClearReply(w)
  <2>1. UNCHANGED <<queue, pendingReply, log>>
    BY <1>4 DEF Next, Work, FinishIfIdle, AcquireSlot, StopWaiting, ReleaseSlot, StartTurn,
       DeliverReply, DeliverFails, BeginTurn, LoadFails, Renew,
       ClaudeEnds, ClaudeNotStarted, EndTurn, Claude, ClaudeStarts, PostComment, NoteComment,
       LoseNote, CheckReads, CheckGives, CheckFails, Expire, SendMessage, Arrive,
       QueueMention, QueueMessage, Kick, ResumeQueue, Drain, Stop, Exit, Crash,
       LoseMemory, Restart, vars, store, arrival
  <2> QED BY <1>1, <2>1
<1> QED BY <1>2, <1>3, <1>4, SaveFinishes

LEMMA StartOfInbox == Init => Promise!Init
<1> SUFFICES ASSUME Init PROVE Promise!Init
  OBVIOUS
<1>1. Len(<<>>) = 0
  BY EmptySeq
<1> QED BY <1>1 DEF Init, Promise!Init

\* The daemon implements Inbox, for any cards, items, workers, slots and
\* crashes: each turn finishes work in the order in which the card accepted it,
\* loses none of it, and first posts the answer that the card owes (runTurn,
\* deliverPendingReply and deliverAgentMessage).
THEOREM ImplementsInbox == Spec => KeepsPromise
<1>1. Init => Promise!Init
  BY StartOfInbox
<1>2. Filled /\ [Next]_vars => [Promise!Next]_(Promise!vars)
  BY StepOfInbox
<1> QED BY <1>1, <1>2, FilledAlways, PTL DEF Spec, KeepsPromise, Promise!Spec

-----------------------------------------------------------------------------
(* Mentions get an answer *)

\* Mentions that Claude has in the turn of w.
Asked(w) == ItemsOf(given[w]) \cap People

\* What the turn of w knows of its comments.  While one is on its way to the
\* daemon no check runs, so Claude gets nothing new.  Before the init event
\* of Claude there is none.
Answering(w) ==
  /\ Asked(w) # {} => turn[w].humanRequest
  /\ turn[w].current => Asked(w) \subseteq answered
  /\ At(w, "claude") /\ ~ worker[w].up => ~ turn[w].current
  /\ posting[w] # "none" =>
       Running(w) /\ Asked(w) \subseteq answered /\ checking[w] = <<>>
  /\ checking[w] # <<>> => posting[w] = "none"

WorkersAnswer == \A w \in Workers : Answering(w)

\* The answer that is about to be cleared is posted.
Posted(w) ==
  worker[w].pc \in {"clear", "clearEnd"} =>
    Finished(Card(w)) \cap People \subseteq answered

Answers == EveryMentionAnswered /\ WorkersAnswer /\ \A w \in Workers : Posted(w)

LEMMA AnsweredGrows ==
  ASSUME [Next]_vars
  PROVE  answered \subseteq answered'
BY DEF Next, Work, FinishIfIdle, AcquireSlot, StopWaiting, ReleaseSlot, StartTurn,
       DeliverReply, DeliverFails, ClearReply, BeginTurn, LoadFails, Renew,
       ClaudeEnds, ClaudeNotStarted, EndTurn, SaveTurn, Claude, ClaudeStarts, PostComment,
       NoteComment, LoseNote, CheckReads, CheckGives, CheckFails, Expire, SendMessage,
       Arrive, QueueMention, QueueMessage, Enqueue, Kick, ResumeQueue, Drain, Stop, Exit,
       Crash, LoseMemory, Restart, vars

\* Nothing changes that the invariant reads of w.
LEMMA AnsweringSame ==
  ASSUME NEW w \in Workers, Answering(w), [Next]_vars,
         worker'[w].pc = worker[w].pc, worker'[w].up = worker[w].up,
         turn'[w].current = turn[w].current, turn'[w].humanRequest = turn[w].humanRequest,
         given'[w] = given[w],
         posting'[w] = posting[w], checking'[w] = checking[w]
  PROVE  Answering(w)'
BY AnsweredGrows DEF Answering, Asked, Running, At

LEMMA AnsweringFresh ==
  ASSUME NEW w \in Workers, turn'[w] = NoTurn, given'[w] = <<>>,
         posting'[w] = "none", checking'[w] = <<>>
  PROVE  Answering(w)'
BY ItemsOfEmpty DEF Answering, Asked, NoTurn

LEMMA AnsweringOther ==
  ASSUME TypeOK, NEW w \in Workers, NEW v \in Workers \ {w}, Answering(v), [Next]_vars,
         Work(w) \/ Claude(w)
  PROVE  Answering(v)'
<1>1. /\ turn'[v] = turn[v] /\ given'[v] = given[v]
      /\ posting'[v] = posting[v] /\ checking'[v] = checking[v]
  <2>1. CASE Work(w)
    BY <2>1 DEF Work, FinishIfIdle, AcquireSlot, StopWaiting, ReleaseSlot, StartTurn,
         DeliverReply, DeliverFails, ClearReply, BeginTurn, Prompt, LoadFails, Renew,
         ClaudeEnds, ClaudeNotStarted, EndTurn, SaveTurn, process, TypeOK
  <2>2. CASE Claude(w)
    BY <2>2 DEF Claude, ClaudeStarts, PostComment, NoteComment, LoseNote, CheckReads,
                CheckGives, CheckFails, Expire, SendMessage, process, TypeOK
  <2> QED BY <2>1, <2>2
<1>2. worker'[v].pc = worker[v].pc /\ worker'[v].up = worker[v].up
  <2>1. CASE Work(w)
    BY <2>1, WorkMoves DEF Others
  <2>2. CASE ClaudeStarts(w)
    BY <2>2 DEF ClaudeStarts, TypeOK
  <2>3. CASE Claude(w) /\ ~ ClaudeStarts(w)
    BY <2>3 DEF Claude, PostComment, NoteComment, LoseNote, CheckReads,
                CheckGives, CheckFails, Expire, SendMessage, daemon
  <2> QED BY <2>1, <2>2, <2>3
<1> QED BY <1>1, <1>2, AnsweringSame

\* A step of the worker.
LEMMA AnsweringWork ==
  ASSUME IInv, NEW w \in Workers, Answering(w), [Next]_vars, Work(w)
  PROVE  Answering(w)'
<1>0. TypeOK /\ OnlyAtClaude
  BY DEF IInv
<1>1. CASE FinishIfIdle(w) \/ AcquireSlot(w) \/ StopWaiting(w) \/ ReleaseSlot(w)
           \/ DeliverReply(w) \/ DeliverFails(w) \/ LoadFails(w)
           \/ StartTurn(w) \/ ClearReply(w)
  <2>1. UNCHANGED <<turn, given, posting, checking>> /\ ~ At(w, "claude")
    BY <1>1 DEF FinishIfIdle, AcquireSlot, StopWaiting, ReleaseSlot, DeliverReply,
       DeliverFails, LoadFails, StartTurn, ClearReply, process, At
  <2>2. worker'[w].pc # "claude"
    <3>1. CASE ~ (FinishIfIdle(w) \/ ReleaseSlot(w) \/ StartTurn(w))
      <4>1. \E pc : pc # "claude" /\ Goto(w, pc)
        BY <1>1, <3>1 DEF AcquireSlot, StopWaiting, DeliverReply, DeliverFails, LoadFails,
                          ClearReply
      <4> QED BY <1>0, <4>1, GotoMoves
    <3>2. CASE FinishIfIdle(w)
      <4>1. worker'[w] = NoWorker \/ Goto(w, "slot")
        BY <1>0, <3>2 DEF FinishIfIdle, TypeOK
      <4> QED BY <1>0, <4>1, GotoMoves DEF NoWorker
    <3>3. CASE ReleaseSlot(w)
      BY <1>0, <3>3 DEF ReleaseSlot, NoWorker, TypeOK
    <3>4. CASE StartTurn(w)
      BY <1>0, <3>4 DEF StartTurn, FirstStep, TypeOK, WorkerRecord
    <3> QED BY <3>1, <3>2, <3>3, <3>4
  <2>3. posting[w] = "none" /\ checking[w] = <<>>
    BY <1>0, <2>1 DEF Answering, OnlyAtClaude, Running
  <2> QED BY <2>1, <2>2, <2>3, AnsweredGrows DEF Answering, Asked, Running, At
<1>2. CASE BeginTurn(w)
  <2>1. posting'[w] = "none" /\ checking'[w] = <<>>
    BY <1>0, <1>2 DEF BeginTurn, Answering, OnlyAtClaude, Running, At
  <2>2. /\ given'[w] = worker[w].items /\ ~ turn'[w].current
        /\ turn'[w].humanRequest = HasHumanTrigger(worker[w].items)
    BY <1>0, <1>2 DEF BeginTurn, Prompt, NoTurn, TypeOK
  <2> QED BY <2>1, <2>2 DEF Answering, Asked, HasHumanTrigger
<1>3. CASE Renew(w)
  <2>1. posting'[w] = "none" /\ checking'[w] = <<>>
    BY <1>0, <1>3 DEF Renew, Answering, OnlyAtClaude, Running
  <2>2. /\ given'[w] = worker[w].items /\ ~ turn'[w].current
        /\ turn'[w].humanRequest = HasHumanTrigger(worker[w].items)
    BY <1>0, <1>3 DEF Renew, Prompt, Answering, TypeOK, TurnRecord
  <2> QED BY <2>1, <2>2 DEF Answering, Asked, HasHumanTrigger
<1>4. CASE ClaudeEnds(w) \/ ClaudeNotStarted(w)
  <2>1. PICK next \in {"save", "fail"} : EndTurn(w, next)
    BY <1>4 DEF ClaudeEnds, ClaudeNotStarted
  <2>2. posting'[w] = "none" /\ checking'[w] = <<>>
    BY <1>0, <2>1 DEF EndTurn, TypeOK
  <2>3. CASE next = "fail"
    <3>1. turn'[w] = NoTurn /\ given'[w] = <<>>
      BY <1>0, <2>1, <2>3 DEF EndTurn, TypeOK
    <3> QED BY <2>2, <3>1, AnsweringFresh
  <2>4. CASE next = "save"
    <3>1. /\ turn'[w].current = turn[w].current /\ given' = given
          /\ turn'[w].humanRequest = turn[w].humanRequest
          /\ worker'[w].pc = "save" /\ answered' = answered
      BY <1>0, <2>1, <2>4, GotoMoves DEF EndTurn, TypeOK, TurnRecord
    <3> QED BY <2>2, <3>1 DEF Answering, Asked, At
  <2> QED BY <2>3, <2>4
<1>5. CASE SaveTurn(w)
  <2>1. posting'[w] = "none" /\ checking'[w] = <<>>
    BY <1>0, <1>5 DEF SaveTurn, Answering, OnlyAtClaude, Running, At
  <2>2. turn'[w] = NoTurn /\ given'[w] = <<>>
    BY <1>0, <1>5 DEF SaveTurn, TypeOK
  <2> QED BY <2>1, <2>2, AnsweringFresh
<1> QED BY <1>1, <1>2, <1>3, <1>4, <1>5 DEF Work

\* A step of Claude or of a check.
LEMMA AnsweringClaude ==
  ASSUME ~ ParallelTools, IInv, NEW w \in Workers, Answering(w), [Next]_vars, Claude(w)
  PROVE  Answering(w)'
<1>0. TypeOK /\ OnlyAtClaude
  BY DEF IInv
<1>1. CASE ClaudeStarts(w)
  <2>1. /\ UNCHANGED <<turn, given, posting, checking, answered>>
        /\ At(w, "claude") /\ ~ worker[w].up
    BY <1>1 DEF ClaudeStarts, process
  <2>2. posting[w] = "none" /\ worker'[w].up
    BY <1>0, <1>1, <2>1 DEF ClaudeStarts, Answering, Running, TypeOK, WorkerRecord
  <2> QED BY <2>1, <2>2 DEF Answering, Asked
<1>2. ASSUME NEW kind \in {"reply", "progress"}, PostComment(w, kind)
      PROVE  Answering(w)'
  <2>1. /\ UNCHANGED <<turn, given, checking, worker>> /\ Running(w)
        /\ checking[w] = <<>> /\ answered' = answered \cup ItemsOf(given[w])
    BY <1>2 DEF PostComment, daemon
  <2> QED BY <2>1 DEF Answering, Asked, Running, At
<1>3. CASE NoteComment(w)
  <2>1. /\ UNCHANGED <<given, checking, worker, answered>>
        /\ Asked(w) \subseteq answered /\ posting'[w] = "none"
        /\ worker[w].up
    BY <1>0, <1>3 DEF NoteComment, Answering, Running, daemon, TypeOK
  <2>2. turn'[w].humanRequest = turn[w].humanRequest
    <3>1. \A r : [turn EXCEPT ![w].replied = r, ![w].current = TRUE][w].humanRequest
                   = turn[w].humanRequest
      BY <1>0 DEF TypeOK, TurnRecord
    <3> QED BY <1>3, <3>1 DEF NoteComment
  <2> QED BY <2>1, <2>2 DEF Answering, Asked
<1>4. CASE LoseNote(w)
  BY <1>0, <1>4 DEF LoseNote, Answering, Asked, Running, At, daemon, TypeOK
<1>5. CASE CheckReads(w) \/ CheckFails(w)
  <2>1. UNCHANGED <<turn, given, posting, worker, answered>>
    BY <1>5 DEF CheckReads, CheckFails, daemon
  <2>2. CASE CheckReads(w)
    BY <2>1, <2>2 DEF CheckReads, Answering, Asked, Running, At
  <2>3. CASE CheckFails(w)
    <3>1. checking'[w] = <<>>
      BY <1>0, <2>3 DEF CheckFails, TypeOK
    <3> QED BY <2>1, <3>1 DEF Answering, Asked, Running, At
  <2> QED BY <1>5, <2>2, <2>3
<1>6. CASE CheckGives(w)
  <2>1. /\ UNCHANGED <<posting, worker, answered>> /\ posting[w] = "none"
        /\ checking'[w] = <<>> /\ worker[w].up
        /\ given'[w] = given[w] \o checking[w]
    BY <1>0, <1>6 DEF CheckGives, Answering, OnlyAtClaude, Running, daemon, TypeOK
  <2>2. /\ turn'[w].humanRequest = (turn[w].humanRequest \/ HasHumanTrigger(checking[w]))
        /\ turn'[w].current = (turn[w].current /\ ~ HasHumanTrigger(checking[w]))
    BY <1>0, <1>6 DEF CheckGives, Own, TypeOK, TurnRecord
  <2>3. Asked(w)' \subseteq Asked(w) \cup (ItemsOf(checking[w]) \cap People)
    BY <1>0, <2>1, SeqTypes, ItemsOfConcat DEF Asked
  <2> QED BY <2>1, <2>2, <2>3 DEF Answering, HasHumanTrigger
<1>7. CASE Expire(w)
  <2>1. /\ UNCHANGED <<posting, worker, answered, given, checking>>
        /\ turn'[w].current = turn[w].current
        /\ turn'[w].humanRequest = turn[w].humanRequest
    BY <1>0, <1>7 DEF Expire, daemon, TypeOK, TurnRecord
  <2> QED BY <2>1 DEF Answering, Asked, Running, At
<1>8. ASSUME NEW i \in Items, SendMessage(w, i) PROVE Answering(w)'
  BY <1>8, AnsweringSame DEF SendMessage, daemon, process
<1> QED BY <1>1, <1>2, <1>3, <1>4, <1>5, <1>6, <1>7, <1>8 DEF Claude

LEMMA AnsweringStep ==
  ASSUME ~ ParallelTools, IInv, WorkersAnswer, [Next]_vars
  PROVE  WorkersAnswer'
<1> SUFFICES ASSUME NEW v \in Workers PROVE Answering(v)'
  BY DEF WorkersAnswer
<1>0. Answering(v) /\ TypeOK /\ OnlyAtClaude
  BY DEF WorkersAnswer, IInv
<1>1. ASSUME NEW c \in Cards, KickCard(c), UNCHANGED process PROVE Answering(v)'
  <2>1. CASE worker'[v] = worker[v]
    BY <1>0, <1>1, <2>1, AnsweringSame DEF process
  <2>2. CASE worker'[v].pc = "top" /\ At(v, "gone")
    <3>1. posting[v] = "none"
      BY <1>0, <2>2 DEF Answering, Running, At
    <3> QED BY <1>0, <1>1, <2>2, <3>1, AnsweredGrows
            DEF Answering, Asked, At, process
  <2> QED BY <1>0, <1>1, <2>1, <2>2, KickMoves DEF Others
<1>2. ASSUME NEW i \in Items, Arrive(i) PROVE Answering(v)'
  <2>1. CASE QueueMention(i) \/ QueueMessage(i)
    BY <1>0, <2>1, AnsweringSame DEF QueueMention, QueueMessage, Enqueue, daemon, process
  <2>2. CASE Kick(i)
    BY <1>1, <2>2, ItemsAssumption DEF Kick
  <2> QED BY <1>2, <2>1, <2>2 DEF Arrive
<1>3. ASSUME NEW c \in Cards, ResumeQueue(c) PROVE Answering(v)'
  BY <1>1, <1>3 DEF ResumeQueue
<1>4. CASE Drain \/ Stop \/ Restart \/ UNCHANGED vars
  BY <1>0, <1>4, AnsweringSame DEF Drain, Stop, Restart, vars, daemon, process
<1>5. CASE LoseMemory
  BY <1>5, AnsweringFresh DEF LoseMemory
<1>6. ASSUME NEW w \in Workers, Work(w) \/ Claude(w) PROVE Answering(v)'
  BY <1>0, <1>6, AnsweringOther, AnsweringWork, AnsweringClaude
<1> QED
  BY <1>2, <1>3, <1>4, <1>5, <1>6 DEF Next, Exit, Crash

\* Which items of card c are finished changes only when a turn is saved.
LEMMA FinishedChange ==
  ASSUME IInv, [Next]_vars, NEW c \in Cards
  PROVE  \/ Finished(c)' \subseteq Finished(c)
         \/ \E w \in Workers :
              /\ Card(w) = c /\ SaveTurn(w)
              /\ Finished(c)' \subseteq Finished(c) \cup ItemsOf(given[w])
<1>0. TypeOK /\ queue[c] \in Seq(Items) /\ log[c] \in Seq(Items)
  BY DEF IInv, TypeOK
<1>1. CASE UNCHANGED <<queue[c], log[c]>>
  BY <1>1 DEF Finished
<1>2. ASSUME NEW i \in Items, queue'[c] = Append(queue[c], i), log'[c] = Append(log[c], i)
      PROVE  Finished(c)' \subseteq Finished(c)
  BY <1>0, <1>2, ItemsOfAppendIs DEF Finished
<1>3. ASSUME NEW w \in Workers, Card(w) = c, SaveTurn(w)
      PROVE  Finished(c)' \subseteq Finished(c) \cup ItemsOf(given[w])
  <2>1. /\ At(w, "save") /\ log' = log
        /\ queue'[c] = DropFirst(queue[c], turn[w].consumed)
    BY <1>0, <1>3 DEF SaveTurn, Removed, TypeOK, arrival
  <2>2. /\ given[w] \in Seq(Items) /\ Len(given[w]) = turn[w].consumed
        /\ FrontOf(given[w], queue[c])
    BY <1>0, <1>3, <2>1, SaveRemoves, SeqTypes
  <2>3. ItemsOf(queue[c]) \subseteq ItemsOf(given[w]) \cup ItemsOf(queue'[c])
    BY <1>0, <2>1, <2>2, FrontLeaves
  <2> QED BY <2>1, <2>3 DEF Finished
<1>4. ASSUME NEW w \in Workers, ClearReply(w) PROVE UNCHANGED <<queue[c], log[c]>>
  BY <1>4 DEF ClearReply, arrival
<1> QED BY <1>1, <1>2, <1>3, <1>4, StoreChange

\* At the end of a turn: an answer is owed, or each mention has one.
LEMMA SaveAnswers ==
  ASSUME IInv, NEW w \in Workers, Answering(w), SaveTurn(w), ~ OwesAnswer(w)
  PROVE  ItemsOf(given[w]) \cap People \subseteq answered
BY DEF Answering, Asked, OwesAnswer, Answered

LEMMA MentionAnsweredStep ==
  ASSUME IInv, WorkersReady, Answers, [Next]_vars, NEW c \in Cards, ~ pendingReply'[c]
  PROVE  Finished(c)' \cap People \subseteq answered'
<1>0. TypeOK /\ answered \subseteq answered'
  BY AnsweredGrows DEF IInv
<1>1. ASSUME NEW w \in Workers, Card(w) = c, SaveTurn(w)
      PROVE  Finished(c)' \cap People \subseteq answered'
  <2>1. At(w, "save") /\ ~ OwesAnswer(w)
    BY <1>0, <1>1 DEF SaveTurn, TypeOK
  <2>2. ~ pendingReply[c] /\ Answering(w)
    BY <1>1, <2>1 DEF WorkersReady, Ready, At, Answers, WorkersAnswer
  <2>3. Finished(c) \cap People \subseteq answered
    BY <2>2 DEF Answers, EveryMentionAnswered
  <2>4. Finished(c)' \subseteq Finished(c) \cup ItemsOf(given[w])
    <3>1. \A v \in Workers : Card(v) = c /\ SaveTurn(v) => v = w
      BY <1>1 DEF IInv, OneWorkerPerCard, SaveTurn, At
    <3> QED BY <3>1, FinishedChange
  <2> QED BY <1>0, <1>1, <2>1, <2>2, <2>3, <2>4, SaveAnswers
<1>2. ASSUME NEW w \in Workers, Card(w) = c, ClearReply(w)
      PROVE  Finished(c)' \cap People \subseteq answered'
  <2>1. Finished(c) \cap People \subseteq answered
    BY <1>2 DEF ClearReply, Answers, Posted
  <2>2. UNCHANGED <<queue, log>>
    BY <1>2 DEF ClearReply, arrival
  <2> QED BY <1>0, <2>1, <2>2 DEF Finished
<1>3. CASE ~ \E w \in Workers : Card(w) = c /\ (SaveTurn(w) \/ ClearReply(w))
  <2>1. pendingReply'[c] = pendingReply[c]
    BY <1>3, StoreChange
  <2>2. Finished(c) \cap People \subseteq answered
    BY <2>1 DEF Answers, EveryMentionAnswered
  <2>3. Finished(c)' \subseteq Finished(c)
    BY <1>3, FinishedChange
  <2> QED BY <1>0, <2>2, <2>3
<1> QED BY <1>1, <1>2, <1>3

\* Only the post of the answer brings a worker to the step that clears it.
LEMMA ComesToClear ==
  ASSUME TypeOK, [Next]_vars, NEW v \in Workers,
         worker'[v].pc \in {"clear", "clearEnd"}
  PROVE  \/ DeliverReply(v)
         \/ worker[v].pc \in {"clear", "clearEnd"} /\ worker'[v].card = Card(v)
<1>1. ASSUME NEW c \in Cards, KickCard(c)
      PROVE  worker[v].pc \in {"clear", "clearEnd"} /\ worker'[v].card = Card(v)
  BY <1>1, KickMoves DEF Others, Card
<1>2. ASSUME NEW w \in Workers, Work(w), v # w
      PROVE  worker[v].pc \in {"clear", "clearEnd"} /\ worker'[v].card = Card(v)
  BY <1>2, WorkMoves DEF Others, Card
<1>3. ASSUME Work(v) PROVE DeliverReply(v)
  <2>1. CASE FinishIfIdle(v)
    <3>1. worker'[v] = NoWorker \/ Goto(v, "slot")
      BY <2>1 DEF FinishIfIdle, TypeOK
    <3> QED BY <3>1, GotoMoves DEF NoWorker
  <2>2. CASE ReleaseSlot(v)
    BY <2>2 DEF ReleaseSlot, NoWorker, TypeOK
  <2>3. CASE StartTurn(v)
    BY <2>3 DEF StartTurn, FirstStep, TypeOK, WorkerRecord
  <2>4. CASE Renew(v)
    BY <2>4 DEF Renew, At, TypeOK, WorkerRecord
  <2>5. CASE \/ AcquireSlot(v) \/ StopWaiting(v) \/ DeliverFails(v) \/ ClearReply(v)
             \/ BeginTurn(v) \/ LoadFails(v) \/ ClaudeEnds(v) \/ ClaudeNotStarted(v)
    <3>1. \E pc \in {"start", "top", "fail", "load", "free", "claude", "save"} : Goto(v, pc)
      BY <2>5 DEF AcquireSlot, StopWaiting, DeliverFails, ClearReply, BeginTurn, LoadFails,
                  ClaudeEnds, ClaudeNotStarted, EndTurn
    <3> QED BY <3>1, GotoMoves
  <2>6. CASE SaveTurn(v)
    <3>1. \E pc \in {"deliverEnd", "free"} : Goto(v, pc)
      BY <2>6 DEF SaveTurn
    <3> QED BY <3>1, GotoMoves
  <2> QED BY <1>3, <2>1, <2>2, <2>3, <2>4, <2>5, <2>6 DEF Work
<1>4. ASSUME NEW i \in Items, Arrive(i)
      PROVE  worker[v].pc \in {"clear", "clearEnd"} /\ worker'[v].card = Card(v)
  BY <1>1, <1>4, ItemsAssumption
     DEF Arrive, QueueMention, QueueMessage, Enqueue, Kick, daemon, Card
<1>5. CASE Drain \/ Stop \/ Restart \/ UNCHANGED vars
  BY <1>5 DEF Drain, Stop, Restart, vars, daemon, Card
<1>6. CASE LoseMemory
  BY <1>6 DEF LoseMemory, NoWorker
<1>7. ASSUME NEW w \in Workers, Claude(w)
      PROVE  worker[v].pc \in {"clear", "clearEnd"} /\ worker'[v].card = Card(v)
  BY <1>7, ClaudeMoves DEF Card
<1> QED
  BY <1>1, <1>2, <1>3, <1>4, <1>5, <1>6, <1>7 DEF Next, ResumeQueue, Exit, Crash

LEMMA PostedStep ==
  ASSUME IInv, Answers, [Next]_vars, NEW v \in Workers
  PROVE  Posted(v)'
<1> SUFFICES ASSUME worker'[v].pc \in {"clear", "clearEnd"}
             PROVE  Finished(Card(v))' \cap People \subseteq answered'
  BY DEF Posted
<1>0. TypeOK /\ OneWorkerPerCard /\ Card(v) \in Cards /\ answered \subseteq answered'
  BY SeqTypes, AnsweredGrows DEF IInv
<1>1. CASE DeliverReply(v)
  <2>1. /\ answered' = answered \cup Finished(Card(v)) /\ UNCHANGED <<queue, log>>
        /\ Card(v)' = Card(v)
    BY <1>0, <1>1, GotoMoves DEF DeliverReply, store, arrival, Card
  <2> QED BY <2>1 DEF Finished
<1>2. CASE worker[v].pc \in {"clear", "clearEnd"} /\ worker'[v].card = Card(v)
  <2>1. Finished(Card(v)) \cap People \subseteq answered
    BY <1>2 DEF Answers, Posted
  <2>2. ASSUME NEW w \in Workers, SaveTurn(w) PROVE Card(w) # Card(v)
    BY <1>0, <1>2, <2>2 DEF SaveTurn, OneWorkerPerCard, At
  <2>3. Card(v)' = Card(v)
    BY <1>2 DEF Card
  <2>4. Finished(Card(v))' \subseteq Finished(Card(v))
    <3> DEFINE c == Card(v)
    <3>1. PICK d \in Cards : d = c
      BY <1>0
    <3>2. Finished(d)' \subseteq Finished(d)
      BY <2>2, <3>1, FinishedChange
    <3> QED BY <2>3, <3>1, <3>2 DEF Finished
  <2> QED BY <1>0, <2>1, <2>3, <2>4
<1> QED BY <1>0, <1>1, <1>2, ComesToClear

LEMMA AnswersStep ==
  ASSUME ~ ParallelTools, Filled, Answers, [Next]_vars
  PROVE  Answers'
<1>1. IInv /\ WorkersReady
  BY DEF Filled
<1>2. WorkersAnswer'
  BY <1>1, AnsweringStep DEF Answers
<1>3. \A v \in Workers : Posted(v)'
  BY <1>1, PostedStep
<1>4. EveryMentionAnswered'
  BY <1>1, MentionAnsweredStep DEF EveryMentionAnswered
<1> QED BY <1>2, <1>3, <1>4 DEF Answers

LEMMA AnswersInit == Init => Answers
<1> SUFFICES ASSUME Init PROVE Answers
  OBVIOUS
<1>1. EveryMentionAnswered
  BY ItemsOfEmpty DEF Init, EveryMentionAnswered, Finished
<1>2. WorkersAnswer
  BY ItemsOfEmpty DEF Init, WorkersAnswer, Answering, Asked, NoTurn
<1>3. \A w \in Workers : Posted(w)
  BY DEF Init, Posted, NoWorker
<1> QED BY <1>1, <1>2, <1>3 DEF Answers

\* Where Claude makes one tool call at a time, a mention leaves the queue only
\* with an answer: Claude commented after it got the mention, or the daemon
\* recorded or posted an answer of its own (turn.answered, the last Update of
\* runTurn, deliverPendingReply); for any crash, failed call and lost report.
THEOREM MentionsAnswered ==
  ASSUME ~ ParallelTools
  PROVE  Spec => []EveryMentionAnswered
<1>1. Filled /\ Answers /\ [Next]_vars => Answers'
  BY AnswersStep
<1>2. Answers => EveryMentionAnswered
  BY DEF Answers
<1> QED BY <1>1, <1>2, AnswersInit, FilledAlways, PTL DEF Spec
==============================================================================
