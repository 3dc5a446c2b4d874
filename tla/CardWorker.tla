----------------------------- MODULE CardWorker -----------------------------
(***************************************************************************)
(* The work of the cards: internal/daemon/worker.go with the turns of      *)
(* daemon.go and the check of check.go.                                    *)
(*                                                                         *)
(* An item (a mention, or a message of another agent) is appended to the   *)
(* durable queue of its card, and a kick then makes sure that one worker   *)
(* goroutine runs for the card.  The worker takes a slot, runs one Claude  *)
(* turn for all the queued items, and removes from the queue exactly the   *)
(* items that the turn got.  While the turn runs, Claude posts comments    *)
(* and messages, and the hook of each tool call gives it the items that    *)
(* arrived.  The daemon drains, stops, crashes and restarts.               *)
(*                                                                         *)
(* Left out here: how an item is found (the intake of the notifications),  *)
(* permission questions, the session id and its reset, logs and prompts.   *)
(***************************************************************************)
EXTENDS Naturals, Sequences, FiniteSets

CONSTANTS
  Cards,           \* cards with work
  Items,           \* units of work, each appended to a queue at most once
  CardOf,          \* CardOf[i]: the card whose queue gets item i
  People,          \* the items that are mentions by a person
  Workers,         \* a pool of names for goroutines that run `work'
  MaxConcurrent,   \* max_concurrent of the config
  MaxQueueLength,  \* maxQueueLength, 20 in the code
  MaxAgentHops,    \* maxAgentHops, 3 in the code
  ParallelTools,   \* TRUE when a tool call can run beside the hook of another
  MaxStops         \* bound of the model: drains and crashes

ASSUME CardsAssumption == Cards # {} /\ IsFiniteSet(Workers)
ASSUME ItemsAssumption == CardOf \in [Items -> Cards] /\ People \subseteq Items
ASSUME LimitsAssumption ==
  /\ MaxConcurrent \in Nat \ {0}
  /\ MaxQueueLength \in Nat
  /\ MaxAgentHops \in Nat
  /\ MaxStops \in Nat
  /\ ParallelTools \in BOOLEAN

VARIABLES
  \* The state file of each card
  queue,           \* CardState.Queue
  pendingReply,    \* CardState.PendingReply is not empty
  sessionStarted,  \* CardState.SessionStarted
  \* The daemon process
  mode,            \* "up", "drain" (first signal), "stop" (second), "down"
  resume,          \* cards that resumeQueues still has to kick
  running,         \* Daemon.running
  slots,           \* tokens in Daemon.slots
  worker,          \* the goroutines
  \* The turns and their Claude processes
  turn,            \* the turn struct of each worker
  posting,         \* a comment that the MCP server posted and did not report
  checking,        \* items that a running check found
  \* The way of the items
  stage,           \* where each item is before a worker owns it
  hops,            \* Item.Hops
  stops,           \* bounds the drains and crashes
  \* History, read by the properties only
  log,             \* log[c]: all items ever appended to the queue of c
  given,           \* given[w]: the items that Claude has in the turn of w
  depth,           \* depth[i]: agent messages in the chain that ends in i
  answered         \* items with a bot comment after Claude got them

store == <<queue, pendingReply, sessionStarted>>
daemon == <<mode, resume, running, slots, worker>>
process == <<turn, posting, checking, given>>
arrival == <<stage, hops, depth, log>>
vars == <<store, daemon, process, arrival, stops, answered>>

-----------------------------------------------------------------------------
(* Types and initial values *)

Pcs == {"gone", "top", "slot", "start", "deliver", "clear", "load", "claude",
        "save", "deliverEnd", "clearEnd", "free", "fail", "retry"}

WorkerRecord == [pc : Pcs, card : Cards, items : Seq(Items),
                 resumed : BOOLEAN, up : BOOLEAN]

TurnRecord == [live : BOOLEAN, expired : BOOLEAN, consumed : Nat, hops : Nat,
               humanRequest : BOOLEAN, replied : BOOLEAN, current : BOOLEAN]

NoWorker == [pc |-> "gone", card |-> CHOOSE c \in Cards : TRUE,
             items |-> <<>>, resumed |-> FALSE, up |-> FALSE]

NoTurn == [live |-> FALSE, expired |-> FALSE, consumed |-> 0, hops |-> 0,
           humanRequest |-> FALSE, replied |-> FALSE, current |-> FALSE]

\* The type invariant.
TypeOK ==
  /\ queue \in [Cards -> Seq(Items)]
  /\ pendingReply \in [Cards -> BOOLEAN]
  /\ sessionStarted \in [Cards -> BOOLEAN]
  /\ mode \in {"up", "drain", "stop", "down"}
  /\ resume \subseteq Cards
  /\ running \subseteq Cards
  /\ slots \in 0..MaxConcurrent
  /\ worker \in [Workers -> WorkerRecord]
  /\ turn \in [Workers -> TurnRecord]
  /\ posting \in [Workers -> {"none", "reply", "progress"}]
  /\ checking \in [Workers -> Seq(Items)]
  /\ stage \in [Items -> {"new", "checked", "kick", "done"}]
  /\ hops \in [Items -> Nat]
  /\ stops \in 0..MaxStops
  /\ log \in [Cards -> Seq(Items)]
  /\ given \in [Workers -> Seq(Items)]
  /\ depth \in [Items -> Nat]
  /\ answered \subseteq Items

Init ==
  /\ queue = [c \in Cards |-> <<>>]
  /\ pendingReply = [c \in Cards |-> FALSE]
  /\ sessionStarted \in [Cards -> BOOLEAN]   \* the state of an earlier life
  /\ mode = "up"
  /\ resume = {}
  /\ running = {}
  /\ slots = 0
  /\ worker = [w \in Workers |-> NoWorker]
  /\ turn = [w \in Workers |-> NoTurn]
  /\ posting = [w \in Workers |-> "none"]
  /\ checking = [w \in Workers |-> <<>>]
  /\ stage = [i \in Items |-> "new"]
  /\ hops = [i \in Items |-> 0]
  /\ stops = 0
  /\ log = [c \in Cards |-> <<>>]
  /\ given = [w \in Workers |-> <<>>]
  /\ depth = [i \in Items |-> 0]
  /\ answered = {}

-----------------------------------------------------------------------------
(* Helpers *)

ItemsOf(s) == {s[k] : k \in 1..Len(s)}
DropFirst(s, n) == SubSeq(s, n + 1, Len(s))
Card(w) == worker[w].card
At(w, pc) == worker[w].pc = pc
Goto(w, pc) == worker' = [worker EXCEPT ![w].pc = pc]

\* The least number of hops that no item of S exceeds: 0 for no items, the
\* largest value otherwise.
MaxOf(f, S) ==
  LET Bound(n) == \A i \in S : f[i] <= n
  IN  CHOOSE n \in 0..MaxAgentHops :
        Bound(n) /\ \A m \in 0..MaxAgentHops : Bound(m) => n <= m

\* hasHumanTrigger of prompt.go.
HasHumanTrigger(s) == ItemsOf(s) \cap People # {}

\* The requests of a turn are refused when its context ended: at endTurn, at
\* the deadline, or with the context of Run.
TurnAlive(w) == turn[w].live /\ ~ turn[w].expired /\ mode # "stop"

\* turn.answered of daemon.go: `current' is ~ lastCommentAt.Before(requestedAt).
\* A mutant: a reply answers also what arrives after it.
RepliedOnly(t) == t.replied
Answered(t) == t.replied /\ t.current

\* Items that card c accepted and no longer has in its queue.
Finished(c) == ItemsOf(log[c]) \ ItemsOf(queue[c])

-----------------------------------------------------------------------------
(* How an item reaches its queue *)

\* store.Update appends the item to the queue of its card; the kick follows.
Enqueue(i) ==
  /\ queue' = [queue EXCEPT ![CardOf[i]] = Append(@, i)]
  /\ log' = [log EXCEPT ![CardOf[i]] = Append(@, i)]
  /\ stage' = [stage EXCEPT ![i] = "kick"]
  /\ UNCHANGED <<pendingReply, sessionStarted, daemon, process, hops, depth,
                 stops, answered>>

\* checkCard: the fetch loop, which starts after resumeQueues, found the
\* mention of a trusted person.  A check that runs at a drain still ends.
QueueMention(i) ==
  /\ i \in People
  /\ stage[i] = "new"
  /\ mode # "down" /\ resume = {}
  /\ Enqueue(i)

\* deliverAgentMessage up to its store.Get: the sender is the turn of w.
SendAllowed(w, i) ==
  /\ CardOf[i] # Card(w)
  /\ TurnAlive(w)
  /\ turn[w].hops < MaxAgentHops
  /\ sessionStarted[CardOf[i]]
  /\ Len(queue[CardOf[i]]) < MaxQueueLength

SendMessage(w, i) ==
  /\ At(w, "claude") /\ worker[w].up
  /\ i \notin People
  /\ stage[i] = "new"
  /\ SendAllowed(w, i)
  /\ stage' = [stage EXCEPT ![i] = "checked"]
  /\ hops' = [hops EXCEPT ![i] = turn[w].hops + 1]
  /\ depth' = [depth EXCEPT ![i] = MaxOf(depth, ItemsOf(given[w])) + 1]
  /\ UNCHANGED <<store, daemon, process, log, stops, answered>>

\* The store.Update of deliverAgentMessage.
QueueMessage(i) ==
  /\ i \notin People
  /\ stage[i] = "checked"
  /\ Enqueue(i)

\* `go d.work': a new goroutine for card c.
Spawn(c) ==
  \E w \in Workers :
    /\ At(w, "gone")
    /\ worker' = [worker EXCEPT ![w] = [NoWorker EXCEPT !.pc = "top", !.card = c]]

\* kick.  A mutant: it does not look for a worker that runs.
KickAlways(c) == running' = running \cup {c} /\ Spawn(c)
KickCard(c) ==
  IF c \in running
  THEN UNCHANGED <<running, worker>>
  ELSE running' = running \cup {c} /\ Spawn(c)

Kick(i) ==
  /\ stage[i] = "kick"
  /\ stage' = [stage EXCEPT ![i] = "done"]
  /\ KickCard(CardOf[i])
  /\ UNCHANGED <<store, mode, resume, slots, process, hops, depth, log,
                 stops, answered>>

ResumeQueue(c) ==
  /\ c \in resume
  /\ resume' = resume \ {c}
  /\ KickCard(c)
  /\ UNCHANGED <<store, mode, slots, process, arrival, stops, answered>>

-----------------------------------------------------------------------------
(* The loop of `work' *)

\* finishIfIdle reads the state file and clears `running' under one lock.
\* Mutants: it ignores the answer to post; it ignores the signals.
IdleNoReply(c) == mode # "up" \/ queue[c] = <<>>
IdleQueueOnly(c) == queue[c] = <<>> /\ ~ pendingReply[c]
Idle(c) == mode # "up" \/ (queue[c] = <<>> /\ ~ pendingReply[c])

FinishIfIdle(w) ==
  /\ At(w, "top")
  /\ IF Idle(Card(w))
     THEN /\ running' = running \ {Card(w)}
          /\ worker' = [worker EXCEPT ![w] = NoWorker]
     ELSE Goto(w, "slot") /\ UNCHANGED running
  /\ UNCHANGED <<store, mode, resume, slots, process, arrival, stops, answered>>

\* d.slots <- struct{}{}.  A mutant: the channel has room for one more.
SlotFreeOffByOne == slots <= MaxConcurrent
SlotFree == slots < MaxConcurrent

AcquireSlot(w) ==
  /\ At(w, "slot")
  /\ SlotFree
  /\ slots' = slots + 1
  /\ Goto(w, "start")
  /\ UNCHANGED <<store, mode, resume, running, process, arrival, stops, answered>>

\* case <-ctx.Done(): continue
StopWaiting(w) ==
  /\ \/ At(w, "slot") /\ mode = "stop"
     \/ At(w, "retry")                  \* retryDelay passed, or ctx ended
  /\ Goto(w, "top")
  /\ UNCHANGED <<store, mode, resume, running, slots, process, arrival, stops,
                 answered>>

\* <-d.slots.  A mutant: a turn that failed keeps its slot.
SlotsAfterSuccess(w) == IF At(w, "fail") THEN slots ELSE slots - 1
SlotsAfter(w) == slots - 1

\* The slot is free, and after an error the worker waits.
ReleaseSlot(w) ==
  /\ worker[w].pc \in {"free", "fail"}
  /\ slots' = SlotsAfter(w)
  /\ LET next == IF At(w, "fail") /\ mode # "stop" THEN "retry" ELSE "top"
     IN  worker' = [worker EXCEPT ![w] = [NoWorker EXCEPT !.pc = next, !.card = Card(w)]]
  /\ UNCHANGED <<store, mode, resume, running, process, arrival, stops, answered>>

-----------------------------------------------------------------------------
(* runTurn: before Claude *)

\* An answer that is not posted goes first.  A mutant: it waits.
FirstStepLoad(c) == IF queue[c] = <<>> THEN "free" ELSE "load"
FirstStep(c) ==
  IF pendingReply[c] THEN "deliver" ELSE IF queue[c] = <<>> THEN "free" ELSE "load"

\* The first store.Update of runTurn reads the queue and the session.
StartTurn(w) ==
  LET c == Card(w)
  IN  /\ At(w, "start")
      /\ worker' = [worker EXCEPT ![w].pc = FirstStep(c), ![w].items = queue[c],
                                  ![w].resumed = sessionStarted[c]]
      /\ UNCHANGED <<store, mode, resume, running, slots, process, arrival,
                     stops, answered>>

\* CreateComment of deliverPendingReply.
DeliverReply(w) ==
  /\ worker[w].pc \in {"deliver", "deliverEnd"}
  /\ mode # "stop"
  /\ answered' = answered \cup Finished(Card(w))
  /\ Goto(w, IF At(w, "deliver") THEN "clear" ELSE "clearEnd")
  /\ UNCHANGED <<store, mode, resume, running, slots, process, arrival, stops>>

\* CreateComment returned an error.  The comment can be on the card even so,
\* when only the response was lost.
DeliverFails(w) ==
  /\ worker[w].pc \in {"deliver", "deliverEnd"}
  /\ answered' \in {answered, answered \cup Finished(Card(w))}
  /\ Goto(w, "fail")
  /\ UNCHANGED <<store, mode, resume, running, slots, process, arrival, stops>>

\* The store.Update of deliverPendingReply.
ClearReply(w) ==
  /\ worker[w].pc \in {"clear", "clearEnd"}
  /\ pendingReply' = [pendingReply EXCEPT ![Card(w)] = FALSE]
  /\ Goto(w, IF At(w, "clear") /\ worker[w].items # <<>> THEN "load" ELSE "free")
  /\ UNCHANGED <<queue, sessionStarted, mode, resume, running, slots, process,
                 arrival, stops, answered>>

\* The Claude process of w gets a prompt with the items.
Prompt(w, t) == 
  /\ turn' = [turn EXCEPT ![w] =
       [t EXCEPT !.consumed = Len(worker[w].items),
                 !.humanRequest = HasHumanTrigger(worker[w].items)]]
  /\ given' = [given EXCEPT ![w] = worker[w].items]

\* The card and its comments are read; beginTurn; runClaude up to the process.
BeginTurn(w) ==
  /\ At(w, "load")
  /\ mode # "stop"
  /\ Prompt(w, [NoTurn EXCEPT !.live = TRUE,
                              !.hops = MaxOf(hops, ItemsOf(worker[w].items))])
  /\ Goto(w, "claude")
  /\ UNCHANGED <<store, mode, resume, running, slots, posting, checking,
                 arrival, stops, answered>>

\* Card or Comments failed, or the token file was not written.
LoadFails(w) ==
  /\ At(w, "load")
  /\ Goto(w, "fail")
  /\ UNCHANGED <<store, mode, resume, running, slots, process, arrival, stops,
                 answered>>

-----------------------------------------------------------------------------
(* The Claude process of a turn and its tool calls *)

Running(w) == At(w, "claude") /\ worker[w].up

\* The init event of the stream: result.SessionStarted.
ClaudeStarts(w) ==
  /\ At(w, "claude") /\ ~ worker[w].up
  /\ worker' = [worker EXCEPT ![w].up = TRUE]
  /\ UNCHANGED <<store, mode, resume, running, slots, process, arrival, stops,
                 answered>>

\* The MCP server posts a comment of Claude: `reply' or `progress'.
PostComment(w, kind) ==
  /\ Running(w)
  /\ posting[w] = "none"
  /\ ParallelTools \/ checking[w] = <<>>
  /\ posting' = [posting EXCEPT ![w] = kind]
  /\ answered' = answered \cup ItemsOf(given[w])
  /\ UNCHANGED <<store, daemon, turn, checking, given, arrival, stops>>

\* noteComment, when the request of the MCP server arrives.
NoteComment(w) ==
  /\ Running(w)
  /\ posting[w] # "none"
  /\ posting' = [posting EXCEPT ![w] = "none"]
  /\ turn' = IF TurnAlive(w)
             THEN [turn EXCEPT ![w].replied = @ \/ posting[w] = "reply",
                               ![w].current = TRUE]
             ELSE turn
  /\ UNCHANGED <<store, daemon, checking, given, arrival, stops, answered>>

\* The request does not reach the daemon: the comment is not recorded.
LoseNote(w) ==
  /\ Running(w)
  /\ posting[w] # "none"
  /\ posting' = [posting EXCEPT ![w] = "none"]
  /\ UNCHANGED <<store, daemon, turn, checking, given, arrival, stops, answered>>

\* The items that the turn does not have.  A mutant: those after the prompt.
NewItemsSincePrompt(w) == DropFirst(queue[Card(w)], Len(worker[w].items))
NewItems(w) == DropFirst(queue[Card(w)], turn[w].consumed)

\* newActivity reads the queue; checkMu keeps other checks of the turn out.
CheckReads(w) ==
  /\ Running(w) /\ TurnAlive(w)
  /\ ParallelTools \/ posting[w] = "none"
  /\ checking[w] = <<>>
  /\ NewItems(w) # <<>>
  /\ checking' = [checking EXCEPT ![w] = NewItems(w)]
  /\ UNCHANGED <<store, daemon, turn, posting, given, arrival, stops, answered>>

\* The second half of newActivity: the turn owns the items from now on.
\* A mutant: the hops of the turn stay those of its prompt.
OwnWithoutHops(t, s) ==
  [t EXCEPT !.consumed = @ + Len(s),
            !.humanRequest = @ \/ HasHumanTrigger(s),
            !.current = @ /\ ~ HasHumanTrigger(s)]
Own(t, s) ==
  [t EXCEPT !.consumed = @ + Len(s),
            !.humanRequest = @ \/ HasHumanTrigger(s),
            !.current = @ /\ ~ HasHumanTrigger(s),
            !.hops = LET h == MaxOf(hops, ItemsOf(s)) IN IF h > @ THEN h ELSE @]

CheckGives(w) ==
  /\ checking[w] # <<>>
  /\ TurnAlive(w)
  /\ turn' = [turn EXCEPT ![w] = Own(@, checking[w])]
  /\ given' = [given EXCEPT ![w] = @ \o checking[w]]
  /\ checking' = [checking EXCEPT ![w] = <<>>]
  /\ UNCHANGED <<store, daemon, posting, arrival, stops, answered>>

\* The card was not read, the budget of the check passed, or the turn ended.
CheckFails(w) ==
  /\ checking[w] # <<>>
  /\ checking' = [checking EXCEPT ![w] = <<>>]
  /\ UNCHANGED <<store, daemon, turn, posting, given, arrival, stops, answered>>

\* The deadline of the turn.
Expire(w) ==
  /\ turn[w].live /\ ~ turn[w].expired
  /\ turn' = [turn EXCEPT ![w].expired = TRUE]
  /\ UNCHANGED <<store, daemon, posting, checking, given, arrival, stops, answered>>

-----------------------------------------------------------------------------
(* runTurn: after Claude *)

\* The session to resume does not exist: a new session gets the same items.
Renew(w) ==
  /\ At(w, "claude") /\ ~ worker[w].up /\ worker[w].resumed
  /\ mode # "stop" /\ ~ turn[w].expired
  /\ worker' = [worker EXCEPT ![w].resumed = FALSE]
  /\ Prompt(w, turn[w])
  /\ UNCHANGED <<store, mode, resume, running, slots, posting, checking,
                 arrival, stops, answered>>

\* endTurn: requests of the turn that still run change nothing any more.
EndTurn(w, next) ==
  /\ posting' = [posting EXCEPT ![w] = "none"]
  /\ checking' = [checking EXCEPT ![w] = <<>>]
  /\ Goto(w, next)
  /\ IF next = "save"
     THEN turn' = [turn EXCEPT ![w].live = FALSE] /\ UNCHANGED given
     ELSE /\ turn' = [turn EXCEPT ![w] = NoTurn]
          /\ given' = [given EXCEPT ![w] = <<>>]
  /\ UNCHANGED <<store, mode, resume, running, slots, arrival, stops, answered>>

\* Claude ended, by itself or stopped.  A process that has the context of Run
\* ended is not recorded as done.
ClaudeEnds(w) ==
  /\ At(w, "claude")
  /\ worker[w].up \/ ~ worker[w].resumed \/ ~ turn[w].expired
  /\ EndTurn(w, IF mode = "stop" THEN "fail" ELSE "save")

\* ErrNotStarted: no log file, or no process.  The second process of a renewed
\* session does not start when the deadline passed.
ClaudeNotStarted(w) ==
  /\ At(w, "claude") /\ ~ worker[w].up
  /\ EndTurn(w, "fail")

\* The last store.Update of runTurn.
OwesAnswer(w) == turn[w].humanRequest /\ ~ Answered(turn[w])

\* The items that leave the queue.  A mutant: only those of the prompt.
RemovedAtPrompt(w) == Len(worker[w].items)
Removed(w) == turn[w].consumed

SaveTurn(w) ==
  /\ At(w, "save")
  /\ queue' = [queue EXCEPT ![Card(w)] = DropFirst(@, Removed(w))]
  /\ pendingReply' = [pendingReply EXCEPT ![Card(w)] = OwesAnswer(w)]
  /\ sessionStarted' = [sessionStarted EXCEPT ![Card(w)] =
                          worker[w].resumed \/ worker[w].up]
  /\ turn' = [turn EXCEPT ![w] = NoTurn]
  /\ given' = [given EXCEPT ![w] = <<>>]
  /\ Goto(w, IF OwesAnswer(w) THEN "deliverEnd" ELSE "free")
  /\ UNCHANGED <<mode, resume, running, slots, posting, checking, arrival,
                 stops, answered>>

-----------------------------------------------------------------------------
(* Signals, crashes and restarts *)

\* The first signal: Drain.
Drain ==
  /\ mode = "up"
  /\ stops < MaxStops
  /\ stops' = stops + 1
  /\ mode' = "drain"
  /\ UNCHANGED <<store, resume, running, slots, worker, process, arrival, answered>>

\* The second signal ends the context of Run.
Stop ==
  /\ mode = "drain"
  /\ mode' = "stop"
  /\ UNCHANGED <<store, resume, running, slots, worker, process, arrival,
                 stops, answered>>

\* The process is gone, and what it had in memory with it.
LoseMemory ==
  /\ mode' = "down"
  /\ resume' = {}
  /\ running' = {}
  /\ slots' = 0
  /\ worker' = [w \in Workers |-> NoWorker]
  /\ turn' = [w \in Workers |-> NoTurn]
  /\ posting' = [w \in Workers |-> "none"]
  /\ checking' = [w \in Workers |-> <<>>]
  /\ given' = [w \in Workers |-> <<>>]
  /\ stage' = [i \in Items |-> CASE stage[i] = "checked" -> "new"
                                 [] stage[i] = "kick" -> "done"
                                 [] OTHER -> stage[i]]
  /\ UNCHANGED <<store, hops, depth, log, answered>>

\* Run returns when the fetch loop and all workers ended.
Exit ==
  /\ mode \in {"drain", "stop"}
  /\ resume = {}
  /\ \A w \in Workers : At(w, "gone")
  /\ \A i \in People : stage[i] # "kick"
  /\ LoseMemory
  /\ UNCHANGED stops

Crash ==
  /\ mode # "down"
  /\ stops < MaxStops
  /\ stops' = stops + 1
  /\ LoseMemory

\* resumeQueues finds the cards with work.  A mutant: it looks at the queues
\* only.
HasQueue(c) == queue[c] # <<>>
HasWork(c) == queue[c] # <<>> \/ pendingReply[c]

Restart ==
  /\ mode = "down"
  /\ mode' = "up"
  /\ resume' = {c \in Cards : HasWork(c)}
  /\ UNCHANGED <<store, running, slots, worker, process, arrival, stops, answered>>

-----------------------------------------------------------------------------

Work(w) ==
  \/ FinishIfIdle(w) \/ AcquireSlot(w) \/ StopWaiting(w) \/ ReleaseSlot(w)
  \/ StartTurn(w) \/ DeliverReply(w) \/ DeliverFails(w) \/ ClearReply(w)
  \/ BeginTurn(w) \/ LoadFails(w)
  \/ Renew(w) \/ ClaudeEnds(w) \/ ClaudeNotStarted(w) \/ SaveTurn(w)

Claude(w) ==
  \/ ClaudeStarts(w)
  \/ \E kind \in {"reply", "progress"} : PostComment(w, kind)
  \/ NoteComment(w) \/ LoseNote(w)
  \/ CheckReads(w) \/ CheckGives(w) \/ CheckFails(w)
  \/ Expire(w)
  \/ \E i \in Items : SendMessage(w, i)

Arrive(i) == QueueMention(i) \/ QueueMessage(i) \/ Kick(i)

Next ==
  \/ \E w \in Workers : Work(w) \/ Claude(w)
  \/ \E i \in Items : Arrive(i)
  \/ \E c \in Cards : ResumeQueue(c)
  \/ Drain \/ Stop \/ Exit \/ Crash \/ Restart

Spec == Init /\ [][Next]_vars

\* Go runs every goroutine that can run, and gives a slot to the goroutines in
\* the order in which they wait for it.  Fizzy accepts a call again and again,
\* though each call can fail; a Claude process ends (its turn has a deadline),
\* and not every one of them fails to start.  Nothing makes a person write or
\* a signal arrive, and nothing restarts the daemon.
Local(w) ==
  \/ FinishIfIdle(w) \/ StopWaiting(w) \/ ReleaseSlot(w) \/ StartTurn(w)
  \/ DeliverFails(w) \/ ClearReply(w) \/ LoadFails(w)
  \/ ClaudeNotStarted(w) \/ SaveTurn(w)

Fairness ==
  /\ \A w \in Workers :
       /\ WF_vars(Local(w)) /\ SF_vars(AcquireSlot(w))
       /\ SF_vars(DeliverReply(w)) /\ SF_vars(BeginTurn(w)) /\ SF_vars(ClaudeEnds(w))
  /\ WF_vars(\E i \in Items : Kick(i))
  /\ WF_vars(\E c \in Cards : ResumeQueue(c))
  /\ WF_vars(Exit)

FairSpec == Spec /\ Fairness

-----------------------------------------------------------------------------
(* Safety *)

\* One goroutine at a time works on a card, and `running' has exactly the
\* cards that have one: kick and finishIfIdle never disagree.
OneWorkerPerCard ==
  /\ \A v, w \in Workers :
       ~ At(v, "gone") /\ ~ At(w, "gone") /\ Card(v) = Card(w) => v = w
  /\ running = {Card(w) : w \in {v \in Workers : ~ At(v, "gone")}}

\* No wakeup is lost: while the daemon takes new turns, a card with queued
\* items or an answer to post has a worker, or a kick is on its way.
WorkHasWorker ==
  mode = "up" =>
    \A c \in Cards : queue[c] # <<>> \/ pendingReply[c] =>
      \/ c \in running \cup resume
      \/ \E i \in Items : CardOf[i] = c /\ stage[i] = "kick"

\* max_concurrent limits the Claude processes, also when turns fail, retry
\* and stop: each live turn holds one slot.
TurnsWithinLimit ==
  Cardinality({w \in Workers : turn[w].live}) <= MaxConcurrent

\* What a turn removes from the queue is what Claude got: the items that a
\* turn owns are the start of the queue of its card, in order.  In Go, a
\* larger `consumed' makes the slice expression of the last Update panic.
TurnOwnsFrontOfQueue ==
  \A w \in Workers : worker[w].pc \in {"claude", "save"} =>
    /\ turn[w].consumed <= Len(queue[Card(w)])
    /\ given[w] = SubSeq(queue[Card(w)], 1, turn[w].consumed)

\* A mention of a person leaves the queue only when Claude commented after it
\* got the mention, or when an answer of the daemon is recorded or posted.
EveryMentionAnswered ==
  \A c \in Cards : ~ pendingReply[c] => Finished(c) \cap People \subseteq answered

\* A chain of agent messages has at most MaxAgentHops messages, also when a
\* message reaches a turn through the check of a tool call.
ChainsBounded == \A i \in Items : depth[i] <= MaxAgentHops

\* The detailed model implements the abstract promise: in order, once, nothing
\* lost, and no work is finished while an earlier answer is not posted.
Promise == INSTANCE Inbox WITH
             accepted <- log,
             finished <- [c \in Cards |-> Len(log[c]) - Len(queue[c])],
             owed <- pendingReply

KeepsPromise == Promise!Spec

-----------------------------------------------------------------------------
(* Progress, under FairSpec *)

\* A queued mention leaves the queue while the daemon stays up, whatever calls
\* fail on the way and however the slots are shared.
MentionsServed ==
  \A i \in People :
    (i \in ItemsOf(queue[CardOf[i]]) /\ mode = "up")
      ~> (i \notin ItemsOf(queue[CardOf[i]]) \/ mode # "up")

\* An answer that the daemon made is posted in the end, also after a restart.
AnswersPosted ==
  \A c \in Cards : (pendingReply[c] /\ mode = "up")
                     ~> (~ pendingReply[c] \/ mode # "up")

\* After a signal the daemon ends: no turn, wait or retry keeps it up.
StopEnds == mode \in {"drain", "stop"} ~> mode = "down"

-----------------------------------------------------------------------------
(* What the documentation says and the code does not do *)

\* The README says that after the first signal the daemon "starts no more
\* turns".  A worker that passed finishIfIdle before the signal still takes a
\* slot after it, also when it waited for a turn of another card to end.
NoTurnStartsAfterDrain ==
  [][\A w \in Workers : At(w, "slot") /\ worker'[w].pc = "start"
                         => mode = "up"]_vars
==============================================================================
