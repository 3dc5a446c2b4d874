# A verification project for fizzy-connector

fizzy-connector is a Go daemon that lets people mention a bot on the cards of a
Fizzy board. Each mention becomes an item in the durable queue of its card; a
worker runs Claude Code once for all the items of a card, in a session of that
card; Claude answers through an MCP server that the daemon starts beside it.
This directory has TLA+ models of the daemon, TLC runs that check them on
small instances, and TLAPS proofs for every value of the constants.

`PROJECT.json` lists the components, the runs, the source lines of each
definition, the hazards of the code with the properties that watch them, the
disagreements found, and the theorems.

- `tlasany M.tla` parses a module,
- `tlc -workers 2 -config X.cfg M` checks a run (the table below has `M`),
- `tlapm M.tla` checks the proofs of `CardWorkerProofs`, `ApprovalsProofs`,
  `IntakeProofs`, `TurnProofs`, `FilesProofs`, `WakeProofs`, `SessionsProofs` or
  `PartsProofs`.

## Inventory of the system

| Part | Source | State | Operations |
|---|---|---|---|
| Fetch loop | `daemon.go` 210-396 | etag, `pendingScans`, backoff | fetch the notifications, handle each, rescan a card, resume after a restart |
| Scan of a card | `daemon.go` 401-468, `triggers.go` | `Handled` and `Queue` in the state file; the evidence of the notification | find mentions, queue those of trusted people, kick the worker |
| Card worker | `worker.go` | `running`, `slots`, the goroutines; `Queue`, `PendingReply`, session in the file | kick, work, finishIfIdle, runTurn, deliverPendingReply |
| Turn | `daemon.go` 67-110, 225-260 | the `turn` struct, its token and its context | beginTurn, endTurn, requests of the MCP server |
| Check | `check.go` | `consumed`, `requestedAt`, hops of the turn | newActivity, called by a hook after each tool call |
| Hook | `claude/hook.go`, `ipc.go` | the time it waited | ask the daemon for new activity, give it to Claude or go on without |
| Agent messages | `daemon.go` 523-571 | hops of items | deliverAgentMessage |
| Permission questions | `approvals.go` | pending counter, gate per card, grants in the state file | ask on the card, poll for the answer, grant |
| Card store | `store.go` | one JSON file for each card | Get, Update, ResetSession |
| Prompt | `prompt.go` | `PromptedUntil` | the comments that a turn presents |
| Claude process | `claude/*.go` | stream parser, cost, usage | run, stop at a limit, report |
| MCP server | `mcpserver/*.go` | token of its turn | reply, progress, message_card_agent, read tools, approve |
| Card tools | `mcpserver/actions.go` | none; what a call read of a card | assign, tag, close, reopen, move, comment, create |
| IPC | `ipc.go` | sockets | a request and an answer for each connection |
| Websocket | `cable.go`, `daemon.go` 286-310, 573-616 | connection, subscription, backoff, `fetchSignal` | wake the fetch loop |
| Logs | `logs.go` | log files, `logFiles` mutex | openLog, sweep |
| Data directory | `config.go` 167-345, `daemon.go` 140-208 | the directory, its identity file, the lock, the socket | prepare and migrate, take the lock, listen |
| Config and login | `config.go`, `setup.go`, `session.go` | the config file, the session cookie | init, login, load, validate |
| Command line | `main.go` | two signal counts | run, reset, doctor and listings |
| Fizzy client and text | `fizzy/*.go` | none | HTTP calls, conversions |

**How they interact.** The websocket and a timer wake the fetch loop. The loop
reads the notifications with an etag; for each card it scans, writes a durable
mark (`NeedsScan`), marks the notification as read, and scans again. A scan
appends items to the queue in the state file and *kicks* the card: a goroutine
for the card starts unless one runs. The goroutine waits for one of
`max_concurrent` slots, then runs turns while there is work. Claude's MCP server
(another process) calls the daemon over a socket while the turn runs: it reports
comments, asks for permissions, sends messages to other cards, and checks for
new activity. The state files are shared with the `reset` command, which is yet
another process.

**What is hard here.** Kicks race with workers that end. Items arrive, and are
given to Claude, while a turn runs, and the turn must remove exactly those it
has. A turn can fail before, during or after Claude; a comment can be posted
with its response lost; the report of a comment arrives later than the comment.
Fizzy keeps one notification for each card and replaces its source, so a
notification cannot be trusted to name what happened. The daemon has two stages
of shutdown, and can crash between any two writes. Each of these is in
`PROJECT.json` under `hazards` at its line.

**What makes each part correct.**

- Worker: one goroutine per card, no lost wakeup, at most `max_concurrent`
  turns, removal of exactly what Claude got, an answer to every mention, the end
  of every shutdown.
- Intake: a mention that Fizzy has recorded is queued in the end, once and in
  order, over failures, lost responses and crashes.
- Messages: chains of agents end.
- Permission questions: one answer grants one request, only while its turn
  lives, and no request waits for ever.
- Store and reset: a reset is not undone by a turn that ends, and no update is
  lost.
- Claude process: Run ends, leaves no process of its group, and reports what
  Claude wrote, also when it stopped it at the cost limit.
- Hook: an item that the daemon counts as given to the turn does get to Claude.
- Card tools: what a tool tells Claude about a card is so, although Fizzy has
  only toggles and a response can be lost.
- Descriptions: only proved words of trusted people are work, and a mention that
  cannot be proved is told so.
- Websocket: it never costs a notification, and costs no time while it works.
- Data directory: a crash between two renames is repaired by the next start, and
  one daemon has the socket.
- Config and login: a config that loads and a cookie that is used are of one bot.
- Logs: the sweep does not delete the log of a turn.

## Modules

| Module | What it is |
|---|---|
| `Inbox` | the abstract promise: work is finished in order, without gaps, and an owed answer goes first |
| `CardWorker` | the worker, the turns, the check, agent messages, signals, crash and restart |
| `MCCardWorker` | an instance for TLC of its progress and its disagreements |
| `MCWorkers` | the instance of it in which its safety is checked |
| `CardWorkerProofs` | proofs about `CardWorker` |
| `Intake` | the fetch loop, notifications, rescans and the scan of comments |
| `Mailbox` | the abstract promise of the intake: the comments of a card are taken in order, each once, up to some comment |
| `MCIntake` | its instances for TLC |
| `IntakeProofs` | proofs about `Intake` |
| `Sessions` | the session of a card: scan, turn, renewal, permission request and `reset` on one state file, with `store.Update` as it writes |
| `MCSessions` | its instance for TLC |
| `SessionsProofs` | proofs about `Sessions` |
| `Approvals` | permission questions: gate, question, poll, answer, deadline, beside the scan |
| `MCApprovals` | its instance for TLC |
| `ApprovalsProofs` | proofs about `Approvals` |
| `Hook` | the check after a tool call, in seconds |
| `ClaudeRun` | one run of Claude: its stream, its cost limit, its stop and its usage |
| `CardTools` | the tools that change cards |
| `Triggers` | mentions in descriptions and the evidence for their author |
| `Cable` | the websocket, the signal and the timer that wake the fetch loop |
| `Startup` | the data directory, its migration, the lock and the socket |
| `Setup` | `init` and `login`, the config file and the cookie |
| `Logs` | the log of a turn and the sweep of old logs |
| `Ordered` | a set of comments as a list, for `Intake` and `Sessions` |
| `Parts` | these eight, `Intake` and `Sessions` in one specification, with their constants as parameters |
| `FilesProofs` | proofs about `Logs`, `Startup` and `Setup` |
| `TurnProofs` | proofs about `Hook`, `CardTools` and `ClaudeRun` |
| `WakeProofs` | proofs about `Cable` and `Triggers` |
| `PartsProofs` | the types of all parts of `Parts` |
| `MCParts` | the instance of `Parts` for TLC |
| `MCLive` | the instance for TLC of the progress of `Intake`, `Cable` and `ClaudeRun` |
| `MCTriggers` | the instance of `Triggers` alone |

### CardWorker

Each goroutine of `work` is a member of `Workers` with a record `worker[w]`: the
step where it is (`pc`) and the locals of `runTurn`. The steps follow the code:

    top -> slot -> start -> [deliver -> clear] -> load -> claude -> save
        -> [deliverEnd -> clearEnd] -> free -> top

`fail` frees the slot after an error and goes to `retry`, or to `top` when the
context ended. A boundary between two steps is where other processes can come
in: a call of Fizzy, a write of a state file, a wait on a channel. What happens
under one lock, such as `finishIfIdle`, is one step.

The state file of a card is `queue`, `pendingReply`, `sessionStarted`: they
survive `Crash`, `Exit` and `Restart`. The rest is memory. `turn[w]` is the
`turn` struct: the number of items it owns (`consumed`), the hops it passes on,
whether a person asked, and for `answered` the two facts `replied` and
`current`. The code compares the times `lastCommentAt` and `requestedAt`; the
model keeps only the result of that comparison, `current`, which a comment sets
and a new request of a person clears.

A call of Fizzy can succeed, fail, or succeed without its response
(`DeliverFails` has both outcomes of the comment). A post of Claude and its
report to the daemon are two steps, `PostComment` and `NoteComment`, and the
report can be lost (`LoseNote`). `ParallelTools` says whether another tool call
can run between them: Claude Code runs the calls of subagents at the same time,
otherwise one after the other. A check reads the queue (`CheckReads`), reads
Fizzy, and gives the items to the turn (`CheckGives`), under a mutex of the turn
that other checks respect and the end of the turn does not. When the turn ends,
requests that still run change nothing any more, since each tests the context
of the turn: `EndTurn` clears them.

`log`, `given`, `depth` and `answered` are history for the properties. They are
in no guard of an action. `given[w]` is what Claude has got, while
`turn[w].consumed` is what the daemon believes it got.

Modes: `up`; `drain` after the first signal; `stop` after the second, which ends
the context of `Run`; `down` after `Exit` or `Crash`.

### Intake

Fizzy keeps for each card one notification (`unread`), which any event renews
and which names only its latest source. The list of the notifications has an
etag. `loop` is the step of the fetch loop: a pass first rescans the cards of
`pendingScans`, then fetches, then handles each card of the list. One card goes
`read -> record -> setScan -> mark -> read -> record -> clearScan`. The model does
not use the source of the notification at all, as the code scans the whole card.

Every step can fail (`StepFails`): the error ends the work on this card, the
loop goes on with the next, and at the end of the pass the etag is forgotten.
`MarkReadUnanswered` is the case where Fizzy did what it was asked and the
answer was lost. `Delete` takes a card away at any moment, and `Crash` loses
`pendingScans` and the etag and leaves the state files.

### Sessions

`Sessions` opens what `CardWorker` has as one step: `store.Update`. `update[p]`
is the call of writer `p`: `ReadFile` is the read and the change, `WriteTemp`
the write of `<file>.tmp`, `Renamed` the rename, and `RenameFails` the rename of
a temporary file that the other process renamed before. `MutexFree` is
`Store.mu`: it keeps the scan, the worker and the permission requests apart, and
says nothing of the `reset` command, which has its own. A read always gets a whole file, as the
rename replaces it; that two processes write parts of one temporary file is not
modelled.

`file` has the fields of `CardState` that a session depends on: the session id
and whether it was started, `PromptedUntil` (`until`), `Handled` and the queue.
`turn` is `runTurn` with what it read (`state`), and the fields of the `turn`
struct that a check changes. Comment `k` has time `k`, and all comments are by
trusted people: a prompt leaves the text of others out, and their mentions are
never queued. `Presented` is the choice of comments in `buildPrompt`, `UpTo` is
`presentedUpTo`. `known[s]` is what the transcript of a session has; Claude owns
it, so it survives the daemon.

`Renew` is the branch of `runTurn` for a session that Claude does not find. A
process that ends without an error is taken to have sent its init event.
`Panic` is the slice expression of the last Update when the queue has fewer
items than the turn owns: it ends the daemon.

`request` is the call of `requestApproval` that holds the gate. `Approvals` has
its gate, its codes and its parser; here it matters as a writer of `Handled` and
as what the scan asks before it takes a mention. An answer can mention the bot
(`@bot yes K7Q2M`): comments in `Answers` can be in `Mentions` too. `AnswerUpdates`
is the Update that makes such a comment handled without a queue, at a moment when
a check of the same turn can have moved `PromptedUntil` past it already. The
Claude that asked gets the result, so `answers[s]` is what session `s` knows from
its requests. The context of a turn can end before its Claude does, so an Update
may find it ended (`alive`). The Updates of `PendingReply`, `AllowedCommands` and
`NeedsScan` are left out, as they touch no field of this module.

### Approvals

Each member of `Requests` is one call of `requestApproval`; `request[r].at`
follows the function:

    new -> gate -> allowed -> ask -> wait <-> found -> leave -> last -> done

`gate` is the set of requests that hold the channel of the card (its capacity
is `GateFree`), and `Pending` is the counter of `approvalPending`, which counts
waiting requests too. `GiveUp` is the end of the turn's context or the deadline
that both waits share. Turns of the card follow each other, and a request of an
old turn can still be in the function when the next one starts. `Poll` reads the
comments and `Answer` or `KeepWaiting` is the Update after it: a turn can end
and a scan can take the comment between the two.

The scan of this module is the part of `checkCard` that competes for comments:
`ScanReads` reads the comments and the file in one step (what is handled between
the two reads fails the test of the Update), `ScanFinds` asks whether a question
is open, `ScanRecords` is the Update. People write and edit at any moment. A
remark is a record of what the code can tell apart: whether it mentions the bot,
whether its author is trusted, what `parseApprovalAnswer` makes of it, and its
code. The daemon keeps no memory of questions over a crash, so a crash is the
end of all requests and is not an action here.

### Hook

`CardWorker` has the check of new activity without time: there a check gives its
items to the turn and to Claude in one step. `Hook` is why this may be one step.
The hook is a process that waits at most `CheckWait` for its answer and then goes
on without; the daemon does not learn of it. So `check` stops three seconds
earlier (`CheckBudget`), and looks at its time again after it waited for
`checkMu`. A hook has three clocks: since it sent the request (`waited`), since
the daemon got it (`spent`) and since the last message was sent (`moving`).
`Tick` lets a second pass, but nothing that is due waits for it. That a message
takes at most `Transit` is an assumption on the machine, and so is that the
daemon does not stand still between two steps: with messages that take two
seconds each, three seconds are not enough.

### ClaudeRun

`Run` waits in `cmd.Wait` while a goroutine reads the stream (`Parse`), and while
the context of the turn, the cost guard and the timer of SIGKILL act. `stream`
is what Claude wrote and `parsed` how far the parser is, so Claude can be done
or over its limit before anybody knows. `cause` is the cause of the context of
the process; the first one stays. `child` is a command that Claude started, in
its process group or detached from it; one that is detached can keep the output
open, and `WaitDelay` ends the wait (`DelayOver`). `Return` is the end of `Run`
with the transcript that the hook found, which can be a part of the calls or
nothing. Tokens and models are one price for each call.

### CardTools

A tool reads what it needs (`Begin`) and then sends one request (`Sent`), in one
record `call[k]` for each tool call. `facts[c]` are the assigned users and tags
of card `c`, and `"closed"`; `spot[c]` its column or board. Fizzy toggles
assignments and tags, so a tool that repeats a call whose response was lost must
see that nothing is left to do. `disturbed` is history: somebody else changed the
same thing after the read. The code cannot help that, and no property speaks of
such a call. Listings and the read tools change nothing and are left out.

### Triggers

A description is two parts, its start (what fits in a notification) and the rest,
each with its words and who wrote it, and whether it mentions the bot. `look` is
the scan of `checkCard` with the evidence of its notification. The text, the
members of the board and the notification can change between any two reads, and
a person can leave the board at any moment, with a part of the text theirs.
`done` is `Handled`, with the ids of texts (`DescriptionId`) and of notices
(`NoticeId`). An id is of the words (`Said`) and not of their authors, as the code
hashes the plain text: two people can write the same words, and then the second
mention has the id of the first. `wrote`, `left` and `refused` are history.

### Cable

`conn` follows `Listen`, `wire` is what Fizzy sent and the client did not read,
`subscribed` is known to Fizzy only. `link` breaks without notice. `signal` is the
one place of `fetchSignal`, `fetching` is `fetchLoop` with the interval it chose.
A fetch of all notifications is one step here; `Intake` has what it does.

### Startup

`place[t]` says where the files of an earlier version are: `old` is the first
layout, `previous` the second. `Moved` is the order of the renames, and
`hasStaging` the temporary directory they go through. `mark` is the identity
file, which a crash can leave created and empty. A command can crash at each
step, start again, or be followed by the command of another account
(`OtherAccount`). `run` prepares the directory twice, in `main` and in
`daemon.New`. Then come the lock, the removal of an old socket, the bind, and at
the end the removal of the socket while the lock is still held. Commands that
prepare at the same time are left out.

### Setup

`init` goes from a connection (an invite link, a login or a token) to a bot, its
token, the trusted people, the config file and the cookie. A file is truncated
and then written; `configFile.written` counts the settings of `Config.Write` that
are in it, and `Accepted` is `validate` on that prefix. Every step can be the last
one. `login` reads the config at its start and saves a cookie later, when `init`
may have changed the config.

### Logs

`writer[c]` is a turn with its log: `openLog` (under the mutex `logFiles`: open,
then the new time), writes, and the second run of a turn whose session was not
found. `sweep` lists all logs and then takes the mutex for one after the other.
Time passes at any moment, and a turn ends at its deadline and the grace that
Claude has to stop.

### How they fit together

`Intake` ends at the append to the queue, `CardWorker!QueueMention` begins
there: the same `store.Update` (`daemon.go` 438). `CardWorker` lets a mention
arrive at any moment while the loop runs, which is more than `Intake` produces,
so its safety properties hold for the composition. The two meet at the queue that
`Mailbox` fills and `Inbox` empties.

The other modules meet at steps that one has in detail and the other as one
step with every outcome. `Cable` says when a pass of `Intake` begins, and
`Intake` lets it begin at any time. `Triggers` opens the scan of one card for
descriptions, which `Intake` does not have. `Hook` is the check of `CardWorker`
in time, `ClaudeRun` its step from `claude` to `save`: `ClaudeEnds` of
`CardWorker` allows each verdict at each moment. `Startup` is what comes before
`CardWorker!Restart`, and its lock is why there is one daemon in `CardWorker`.
`Setup` makes the config that all others take as given.

## Runs

| Run | Module | Instance | States | Shows |
|---|---|---|---|---|
| `worker_safety` | `MCWorkers` | 2 cards, 3 goroutines; 3 mentions, 1 slot, 1 stop, or 2 mentions, 2 messages, 2 slots, 1 hop | 859 000 | the safety of the worker, that chains end, also through the check, and that it implements `Inbox` |
| `worker_liveness` | `MCCardWorker` | 1 mention, 1 message, 2 cards, 1 slot, 1 stop | 21 000 | turns stay within the slots, mentions are served, answers posted, shutdown ends |
| `worker_drain` | `MCCardWorker` | as the mentions of `worker_safety` | violation | a turn starts after the first signal |
| `worker_parallel` | `MCCardWorker` | as the mentions of `worker_safety`, parallel tools, no stop | violation | a mention gets no answer |
| `parts` | `MCParts` | ten machines, below | 863 000 | the safety of the intake, the sessions and the eight modules from `Hook` to `Logs` |
| `liveness` | `MCLive` | intake: 1 mention, 2 cards, 1 event, 1 crash; websocket: 2 messages; Claude: 1 event | 3 200 | mentions get queued, nothing stays open, news is fetched, a run of Claude ends |
| `sessions_renewal` | `MCSessions` | as the sessions of `parts` | violation | a renewal overwrites the session of a reset |
| `sessions_update` | `MCSessions` | as the sessions of `parts` | violation | Updates of two processes lose a mention |
| `approvals` | `MCApprovals` | 2 requests for 1 command, 1 code, 3 comments, 2 turns | 395 000 | who can approve what, and that each request ends |
| `approvals_edit` | `MCApprovals` | as `approvals` | violation | an edited mention hides later answers |
| `triggers_window` | `MCTriggers` | a trusted person and another, 4 changes | violation | a mention in a description is hidden by another event |
| `triggers_removed` | `MCTriggers` | as `triggers_window` | violation | a part by a person who left the board becomes work |

**One run for several machines.** `Parts` and `MCLive` have the variables of
several modules and a variable `part` that names the one which moves. The others
stay in their initial state. The modules share no state, so nothing is lost by
this, and the states of the parts add up instead of multiplying. A property of a
part is checked in the behaviours of that part; in the others it holds because
it holds in its initial state.

**Bounds.** `Items`, `Mentions` and `Cards` are finite sets of model values.
`MaxStops` bounds signals and crashes, `MaxEvents` other events, `MaxCrashes`
crashes. Two cards are the fewest that compete for a slot or send messages to
each other. Two items on one card and one slot let an item come during a turn
of its card and a turn of the other card wait. Three goroutines are one more than
the cards, so a second worker for a card would have a name. One stop and its
restart reach each step of a turn.

`worker_safety` has a constraint, `OneOfBoth`, which keeps two stories apart that
together have too many states. In one of them three mentions come to two cards,
the slots in use stay at one, so that cards wait for each other, and a drain, a
stop or a crash may come (`Shared`). In the other one two slots are in use,
messages `m` and `j` go to the two cards and each card has a mention
(`Talking`): a turn can pass a message on from a prompt or from a check, and with
`MaxAgentHops` 1 a second message of a chain is one too many. A state in
which both stories began is checked, and TLC does not go on from it. At the start
only the first card has had a turn (`OneStarted`): a turn of the other card can
send a message to it at once, and it to the other card later. The limit on turns
is checked in `worker_liveness`, where `MaxConcurrent` is 1. Each story was also
checked by itself with every initial state, of 634 000 and 1 600 000 states.
`MaxQueueLength` 2 lets a message come while
another item is queued, so that a check can give it to a turn; with 1 this
never happens. Two crashes in the intake let the recovery itself crash.

In `Sessions`, the mentions are the comments 1 and 3: a turn gets the first, an
ordinary comment follows, and a second mention comes during the turn or is left
for the next. Comment 3 is an answer to a permission question, too, so that the
scan, the check and the request compete for it. One reset can lose against the
daemon or win; the instance with two, of 1 990 000 states, was checked by itself.
Three ids are that of the first turn and two of a reset and of renewals, in any
mix.
In `Approvals`, two requests are the fewest that meet at the gate, and two turns
let an old one meet a new one. Three comments are a question, an answer that
does not count, and one that does; or two questions and an answer. There is one
code and one command, the hardest case: a longer code can only tell more
answers apart. `MaxTurns` bounds the turns. Remarks of people who are not
trusted are in the module and not in this instance, where they would change
nothing but the number of states.

The parts of `parts`:

- sessions: 3 comments, 2 of them mentions, one of these an answer, 1 reset, 3
  ids, 1 crash;
- intake: 3 mentions on 2 cards, one by a person who is not trusted, 2 other
  events, 2 crashes;
- startup: two processes of one config, so that one can start while the other
  ends. Which of the three old things exist is free, and crashes have no bound;
- claude: a call of cost 1 and one of cost 2 with a limit of 1, so that one call
  is over it and one is not, and three events: a call, another one and a result
  in every order, and two results around a call;
- hook: two hooks, one item, 8 seconds of wait as in the code, of which the
  check has 5, and one second for a message. Two hooks are enough for a wait at
  the mutex that takes the time of another check;
- tools: two calls at a time and two cards. The address of one person is in the
  name of another, and a word is in the names of both, so that a name can stand
  for one, two or no users;
- triggers: a trusted person and one who is not, two words, and two mentions,
  edits and other events: a refused mention and the same words by another person,
  or a long mention and an edit by somebody who then leaves. Joining, leaving,
  failures and scans have no bound. The instance with three changes, of 2 368 000
  states, was checked by itself;
- cable: two messages on the wire, which a broadcast before the confirmation
  needs;
- setup: two people and two accounts. Claude is at home in one account and is
  invited to the other, so that it can be two users with one address;
- logs: two cards, a turn of two ticks and one of grace, and a retention of twice
  the turn, the least that `validate` takes.

In `liveness`, one call over the limit is the shortest stream that stops Claude,
and the sets are smaller than in `parts`, because liveness needs the whole graph
at once.

**Symmetry.** Only the safety runs use it: goroutines are interchangeable, and no
property names one.

**Deadlock.** The runs of the worker set `CHECK_DEADLOCK FALSE`, because a
daemon with no work left waits for ever when no signal remains in the bounds.
`Sessions`, `Approvals` and the descriptions of `Triggers` end when the bounds
are used up and no work is left, so the runs that have them set it too. The
parts of `liveness` never stop, and the run keeps the check.

**Fairness.** `CardWorker!Fairness`: the Go scheduler runs each goroutine that
can go on (`WF` of `Local`); a channel serves its waiters in order, so a worker
that waits for a slot again and again gets it (`SF` of `AcquireSlot`); Fizzy
accepts a call again and again though each call may fail (`SF` of `DeliverReply`
and `BeginTurn`); Claude ends because its turn has a deadline, and not every
process fails to start (`SF` of `ClaudeEnds`). There is no fairness on people,
signals, crashes, restarts or the tool calls of Claude. `Intake!Fairness`: the
loop always goes on, and for each card each call succeeds again and again.
`Approvals!Fairness`: the goroutine of each request goes on (`WF` of `Step`), and
its timer fires. A timer that has fired stays readable, so a request that comes
back to the wait after an answer that did not count still sees it (`SF` of
`GiveUp`). Nobody has to answer, no turn has to end, and the gate serves in any
order. `MCLive!LiveFairness` has the fairness of `Intake`, and adds: `fetchLoop`
and its timer go on, and a listing succeeds again and again (`Cable`); the parser,
`Run` and the goroutines of `os/exec` go on, and the timer of SIGKILL fires
(`ClaudeRun`). Nothing is assumed of the connection, of Claude, or of the commands
that Claude started. One condition there stands for a step of each part, as a
behaviour is of one part: a weak fairness of "`Step` of the intake or `Parse` of
Claude" is the fairness of `Step` in the behaviours of the intake.

### What the properties say

- `OneWorkerPerCard`: `running` has exactly the cards that have a goroutine, and
  none has two. `finishIfIdle` decides under the lock that `kick` takes.
- `WorkHasWorker`: while the daemon is up, a card with work has a worker, or a
  kick on its way, or is among those that `resumeQueues` will kick.
- `TurnsWithinLimit`: no path through failure or retry runs Claude without a
  slot.
- `TurnOwnsFrontOfQueue`: what a turn will remove is what Claude got, in order.
  If it failed, the `Update` of `worker.go` 142 would drop an item unseen, or
  panic.
- `EveryMentionAnswered`: a mention leaves the queue only with a comment after
  Claude got it, or with an answer of the daemon.
- `KeepsPromise`: `CardWorker` implements `Inbox`, under the mapping `accepted`
  is the history of the queue, `finished` the number of items that left it.
- `ChainsBounded`: the history of chains (`depth`) against the limit that the
  code enforces by counting hops.
- `MentionsServed`, `AnswersPosted`, `StopEnds`: progress while the daemon stays
  up, over restarts, and after a signal.
- `NoMentionLost`: something durable always leads to an unhandled mention.
- `QueuedOnceInOrder`: repeated scans queue each trusted mention once, in the
  order of the comments.
- `NotModifiedMissesNothing`: when the etag is current between passes, there is
  no unread notification.
- `MailKept`: the intake implements `Mailbox`, under the mapping `written` is
  the comments of the card, `taken` the places of the handled ones, and `queue`
  the queue of the card. It forbids what the invariants allow one by one: a step
  that takes back a comment, or that changes the queue of a card without taking
  comments.
- `MentionsGetQueued`, `NothingStaysOpen`: progress of the intake, also for
  deleted cards.
- `SessionKnowsItsCard`: a turn that resumes a session sends only comments newer
  than `PromptedUntil`. So the session that the file names as started knows each
  older comment, from a prompt, a check or as the answer to a request of that
  session, but for mentions that still wait. This relates a file, a time and a
  transcript that four writers change. For ordinary comments it holds even
  when Updates of two processes overwrite each other: a turn that does not name
  the session of the file writes its time and leaves the new session as not
  started, so that the next turn gives it the full card. A mention that such an
  overwrite lost is excused (see the proofs).
- `HandledIsTaken`: a comment marked as handled is in the queue, was given to a
  turn as a request, or was the answer to a permission request, as long as no
  Update of one process overwrote one of the other. An answer that no longer
  counts must stay for the scan.
- `ApprovedByPerson`: an approval leads back to the answer of a trusted person,
  written after the question, or to an `always` for the identical command.
- `OneUseOfAComment`: scan and poll race for a comment; it ends as the answer to
  one request or as work for a turn.
- `OneOpenQuestion`: the gate also holds between turns, so a short code has one
  question that it can mean.
- `RequestsEnd`: every request ends, behind others at the gate too.

- `RunsWithItsState`: a command that got through `PrepareDataDir` has the cards
  that an earlier version left, wherever earlier starts were stopped, and with
  the other account's commands in between.
- `SocketIsOwn`: the removal of a socket by a daemon that starts or ends does not
  hit one that serves, because the lock outlives the socket on both sides.
- `VerdictFollowsStream`: whether a turn counts as done, as stopped at its cost
  limit or neither follows from what Claude wrote, and not from how far the parser
  was when the process ended.
- `UsageKept`: each API call is counted once, with a transcript that is a part of
  the calls or is not there, and the cost is at least what Claude reported.
- `NothingLeftBehind`, `RunReturns`: `Run` ends on a stop and at the end of
  Claude, also when a detached command keeps the output open, and no process of
  the group is left.
- `TakenIsDelivered`: no answer with items comes to a hook that went on without.
  `CardWorker` relies on it when it gives items to a turn.
- `DoneAsSaid`: "assigned", "no change", "moved" is so on the card, also when
  Claude repeats a call whose response was lost, unless somebody changed the same
  thing after the read.
- `WorkIsProven`: what the checks of a description prove. A trusted person wrote the
  words of its start with a mention, and what is more than a notification is by a
  trusted person or by one who left the board, over edits, joins and removals
  between the reads of the scan. Of the second case, see disagreement 7.
- `MentionGetsWorkOrNotice`: a scan that ends well did something for a mention
  that it could prove: its words are work, or its author is told why not. The
  exception is a mention with the very same words by somebody who is not trusted,
  which was refused before: its id is handled, so the mention of the trusted person
  has no effect. `triggers.go` 45-46 says of the id "that a mention which is
  refused does not block a later one"; a later one with the same words it blocks.
  Without the exception the property is false, which TLC shows in `parts` with two
  mentions.
- `WakeupKept`: while the subscription works, a notification that is not listed
  has a broadcast or a signal on its way. `NewsIsFetched`: it is listed in the
  end without any connection too.
- `ConfigIsOfOneUser`: a config that loads has a token of its bot and trusted
  people of the bot's account, also when `init` was stopped while it wrote over
  another config.
- `CookieIsBots`: the cookie of a data directory is a login of its bot, also when
  `init` changes the config while `login` waits for the code.
- `OpenLogKept`: the sweep does not delete the log of a turn, whether it listed the
  log before the turn or comes while the turn writes nothing.
- `PartsTypeOK`: each part of `parts` keeps its types.

`taken`, `atomic`, `known`, `answers`, `answerOf`, `disturbed`, `wrote`, `left` and
`refused` are history like `log` and
`given`: no guard reads them.

### Disagreements found

1. `worker_drain`. The README says that after the first Ctrl-C the daemon
   "starts no more turns, and the turns that run finish first". A worker tests
   `drain` only in `finishIfIdle`. One that has passed this test and waits for a
   slot takes the slot when a turn ends, and runs its turn after the signal.
2. `worker_parallel`. `turn.answered` promises that Claude posted again after the
   last request. The MCP server posts a comment and then reports it, and
   `noteComment` takes the time of the report. When another tool call's check
   gives the turn a new mention in between, the comment counts as an answer to a
   mention that it came before, and the mention gets none. With tool calls one
   at a time, `worker_safety` shows that this cannot happen.
3. `sessions_renewal`. A comment of `runTurn` says "A reset during the turn keeps
   its new session". The condition below it lets a turn that renewed its session
   overwrite the one of the reset.
4. `sessions_update`. `Update` "changes the state of one card atomically", but its
   mutex is one of the process, and `reset` is another process. A reset that
   read the file before a scan wrote it takes items out of the queue; when a
   later item stands in their place, the end of the turn removes an item that
   the turn never got, and when none does, the slice expression panics.
5. `approvals_edit`. A comment "that was edited into an answer counts too". When
   the comment was a mention, it is work already, so the Update does not count
   it; the poll finds it first each time, and later answers are hidden until the
   deadline.
6. `triggers_window`. A comment of `handleNotification` says that each card is
   scanned because "a later event can hide a mention", and again because "a
   mention can also arrive between the scan and the acknowledgement". For a
   mention in a description neither helps: it counts only with the evidence of
   its own notification, and the second scan has none. When another event
   replaces the notification, or the mention comes between the scan and the mark,
   a mention by a trusted person never becomes work. (`README.md` of the program
   calls a comment the reliable way.)
7. `triggers_removed`. The README says of a long description on a board of trusted
   people: "then only trusted people can have edited it". The scan asks who has
   access to the board now. A person who is not trusted and wrote a part of the
   text before being removed from the board is not among the members, and the
   text becomes work with that part.

## Proofs

The theorems hold for all values of the constants that satisfy the named
assumptions: `CardsAssumption` (there is a card, and the pool of names for
goroutines is finite, which counting slots needs), `ItemsAssumption` and
`LimitsAssumption` of `CardWorker` (limits are naturals, and there is at least one
slot); `RequestsAssumption`, `RemarksAssumption`, `CodesAssumption` (there is a
code) and `BoundsAssumption` of `Approvals`; `BoundsAssumption`,
`MentionsAssumption` and `AnswersAssumption` of `Sessions` (the mentions and the
answers are comments).

The parts of `Parts` are parameters there too, so its theorems are about
`PartsSpec` for all values of its constants. Its assumptions are:
`HookAssumption` (the hook waits at least four seconds, and a message takes at
most one), `LogAssumption` (the grace is shorter than the timeout of a turn),
`ClaudeAssumption` (prices and reported costs are naturals), `CableAssumption`
(a wire has room for a message), `IntakeAssumption` (there is a card, and each
mention has one); `SetupAssumption`, `TriggersAssumption` and `ToolsAssumption`
say that the values that stand for nobody and nothing are no people, cards or
callers, that calls and columns are of their sets, and that a card has a place
on a board. The bounds of the model are naturals. TLC evaluates all of them in
`parts`. In each proof, the part that moves keeps its invariant, and the others
keep theirs because their variables do not change.

`SessionsProofs` states its theorems of `Sessions!Spec`; in `parts` these are
the behaviours of the part "sessions".

### CardWorkerProofs

One inductive invariant, `IInv`:

- `TypeOK` is not inductive alone: `slots - 1` could leave the naturals. It
  needs `SlotsHeld`: `slots` is the number of workers at a step that holds one.
- `OneWorkerPerCard` is inductive with types: each step of a worker leaves its
  card as it is, and only `Spawn`, under the test of `running`, adds one.
- `OnlyAtClaude`: a live turn, a check or given items exist only while their
  worker is at Claude. With `SlotsHeld` it gives the limit on turns.
- `WorkHasWorker` is inductive with the two above: the worker that removes
  items or clears an answer has its card in `running`.
- `WorkersFront` strengthens `TurnOwnsFrontOfQueue`: from `start` on, the items
  read by the worker are a prefix of the queue, what Claude got is the prefix of
  length `consumed`, and the items of a running check continue it. It holds
  because only the one worker of the card shortens its queue.
- `Chains` relates the history `depth` to the hops that the code counts: an
  item's depth is at most its hops, items that are in a queue were sent (so their
  hops no longer change), and the hops of a turn are at least those of everything
  it was given.

It implies the six properties of `TypeCorrect`, `OneWorker`, `NoWakeupLost`,
`LimitKept`, `OwnsFront` and `ChainsEnd`. Two more results rest on it:

- `ImplementsInbox`, the refinement. Each action maps to a step of `Inbox` or to
  a stutter. The invariant `Filled` adds what the mapping needs: a turn starts
  with items and with no answer to post (`WorkersReady`), so the end of a turn
  finishes something and an owed answer goes first; and a queue is no longer than
  its log (`QueueInLog`), so `finished` is a natural.
- `MentionsAnswered`, under `~ ParallelTools`. `EveryMentionAnswered` is about
  items that left the queue, so the invariant `Answers` says what is known of
  those that are still in a turn: a turn that counts as answered has an answer for
  each mention that Claude has, and while a comment is on its way to the daemon no
  check runs, so that what Claude has does not change (`Answering`). With parallel
  tools this is false, which is disagreement 2. `Posted` covers the answers of the
  daemon itself, between the post and the removal of `PendingReply`.

### IntakeProofs

The inductive invariant `IntakeInv` has all the types (`IntakeTyped`) and:

- `LoopKnows`, for `MentionsKept`: when the loop is about to mark a notification
  as read, the card has its durable mark or is gone; and when it is about to clear
  the mark, all comments that the card had when the notification was marked are
  handled, or the notification is unread again.
- `EtagKnows`, for `NothingBehindEtag`: as long as the etag is current and nothing
  failed in the pass, each unread card is one that the pass still has to handle
  (`StillToHandle`), which is none between passes. What makes a card unread makes
  the etag old; so does what the pass itself marks; and a card that it could not
  handle makes it forget the etag.
- `QueueKnows`, for `QueueIsOfTheCard`: the handled comments are the first n of
  the card, and the queue has the trusted ones of these. So what a scan appends,
  the unhandled ones of what it read, comes after all that it appended before. The
  lemmas before it are about `InOrder`: a set can be listed in order in one way
  (`OneOrder`), and the list of two sets, one before the other, is the first list
  and then the second (`OrderOfBoth`, `ItemsAtBoth`). `Intake` and `Sessions` have
  `InOrder` from `Ordered`, by a `CHOOSE` of the increasing list and not by
  `SelectSeq` or a sort, because nothing can be proved of these.

`ImplementsMailbox` is the refinement. Under the mapping, the step that records a
scan (`Record`) takes the comments up to the last one that the scan has read, an
arrival of a mention writes a comment, and each other step is a stutter: no mark,
failure, deletion or crash changes the comments, what is handled, or a queue. It
rests on `QueueKnows`: the handled comments are the first ones, so a scan that read
no more than these records nothing, which is a stutter.

### SessionsProofs

`Types` is inductive alone. The two properties need an invariant about every
version of the file at once: the file, the temporary file and what each Update is
about to write.

- `Files`: each version is `Good`: if it names a session as started, this session
  knows all comments up to its `PromptedUntil` but mentions (`Knows`: from its
  documents, or as the answer to a request of its own). This holds even when
  one process overwrites another, because a version is replaced as a whole.
- `FileExact`: as long as no process overwrote another (`atomic`), a mention that
  the session does not know is not handled or is in the queue, and a handled
  comment is in the queue or was put to use (`Used`), as a request of a turn or as
  an answer.
- `Writes`: what each writer writes is its change of what it read, the three
  writers of the daemon are never at it together, and a temporary file that the
  worker finds written is its own, or one of the reset.
- `OneSession`: while a turn runs, only the session that it started from can be
  named as started. A reset makes the name one that is not started.
- `TurnOk` and `TurnFile`: what the turn will write when it ends fits the file: its
  session has, or will get at the start of Claude, each comment up to the time that
  it writes (`Sent`), the items that it removes are the front of the queue, and
  the items of a running check come next.
- `Requests`: a request whose answer can still count is of the session of the turn
  that runs, and its question is after the time that every version of the file has
  (`Before`): the turn moved its own time only, which the file gets when it ends.
  So a reset or a scan beside it takes nothing from the answer, and the mention
  that a check left out and an answer used up is one that this session knows.

`NextTurnMissesNothing` and `NoMentionForgotten` follow from `Files` and
`FileExact`. The proof corrected the property: `SessionKnowsItsCard` first
promised the knowledge of lost mentions as well, and that is false. A reset whose
Update overwrites that of a scan brings back a file without a mention that a turn
presents in no prompt. TLC finds this only with three mentions and four comments,
beyond the instance of the run. It is one more face of disagreement 4,
so the property now excuses mentions after an overwrite, as `HandledIsTaken` does.

`OnlyOverlapLoses` says what disagreement 4 comes from, and that it comes from
nothing else. Its hypothesis `Apart` is what a lock of the file would give: no
Update of `reset` is under way beside one of the scan, the worker or a permission
request. Resets still come at any other moment, between two steps of a turn, a
scan or a request, and so do crashes. Then
each Update replaces what it read (`Undisturbed`), so `atomic` holds for ever: no
mention is dropped (`NoMentionDropped`), and the last Update of a turn finds the
items of the turn in the queue, so that its slice expression does not panic.

### ApprovalsProofs

`TypeOK`, `ApprovedByPerson`, `OneUseOfAComment` and `OneOpenQuestion`, for any
number of requests, commands, codes and remarks, of trusted people and others. The
invariant `IInv` has these parts:

- `GateHeld`: the requests between the gate and their deferred functions have the
  gate, one request has it, and no other request does. `OneOpenQuestion` follows,
  and `GateIsFreed`: a gate that is taken has an owner that will free it, whatever
  failed, timed out or ended. Without this, `RequestsEnd` would fail for all later
  questions of the card.
- `Asked`: the question that a request waits for is on the card with its code. No
  edit changes a question.
- `Recorded`: what the poll found is an answer to that question, and still is one
  when the Update comes, because an answer is not edited again. A recorded
  answer is handled, and its request does not go back to the wait.
- `Approved` and `Grants`: an approval has its own answer or a command that is
  allowed, and an allowed command has the `always` of some request.
- `Uses`: `OneUseOfAComment` is not inductive alone; it needs that what is queued
  and what is an answer is handled, so that each Update takes only new comments.

`OnlyEditsHideAnswers` says what disagreement 5 comes from. Without edits, no
answer to an open question is handled (`InForce`): a scan that looks while a
request is pending takes no answer, what a scan took before is older than the
question, and another request records an answer only while it has the gate. So
what a poll finds always counts while its turn is alive.

### TurnProofs

`AllTakenDelivered` (`Hook`): `InTime` bounds the clock of the hook by the clock of
the daemon: the hook waited no longer than the daemon spent plus the request on
its way, and an answer with items was given inside the budget, so it arrives
within the budget and two messages, which is less than the wait. An answer after
the budget has no items, because the daemon tests its time before it takes them.

`ToolsTellTruth` (`CardTools`): `CallKept` says of a toggle that nobody disturbed
since the read that the card is not yet as Claude wants it, so that the toggle
makes it so and never undoes it; and of a call that was sent, or that needed no
change, that the card is as it should be. Every other call that changes the same
thing marks it as disturbed.

`ClaudeRun`: `ClaudeInv` says that what the parser found is a function of the
events it read (`Follows`): which calls, the largest cost, whether the events
are over the limit, what the last result is and whether it came after the limit.
`CauseIs` says what stopped the process first. At the end all events are parsed,
so the verdict and the usage are those of the whole stream (`VerdictOfStream`,
`AllUsageKept`). The second needs that a set of calls with as many members as
the stream has is the same set. `GroupGone`, after Claude ended no process of
its group is left, gives `GroupIsGone`.

### WakeProofs

`NewsWakes` (`Cable`): `IsSubscribed` says that a confirmation on the wire, and a
connection that got one, are of a subscription; then each notification after it
has its broadcast.

`OnlyProvedWork` and `WorkOrNotice` (`Triggers`): `EvidenceIsTrue` says that a
notification has what its person wrote, and `AuthorsAreKnown` that who wrote a
part of the text, or of the text that the scan read, is on the board or left it.
Then a list of members that is asked for after the text proves it, but for those
who left (`BoardProves`). `DoneIsWork` says that the words of a text that is handled
are work or were refused to somebody, and `LongIsProved` that the scan comes to its
Update with a long text only when the board proves it or after the notice.

`OnlyRemovalHidesAuthor` says what disagreement 7 comes from: while only trusted
people leave the board, the promise of the README holds, whoever edits and joins.

`OnlyOverlapHidesMention` says what disagreement 6 comes from. Its hypothesis
`OneByOne`: a new text has its notification, and neither comes while another
notification is unread or is scanned. Then the evidence and the text of a scan are
those that are there (`StillProved`), and every short mention of a trusted person
becomes work, unless its words were refused to somebody before, also when scans fail and start again, and while people join and
leave. The two ways to break the hypothesis, an event that replaces a notification
and one that comes before the mark, are the two ways in which TLC finds mentions
lost; a silent edit is the third.

### FilesProofs

`NoOpenLogSwept` (`Logs`): `Mutex` says who has the lock of the logs; `Young` says
that the file of a turn that writes is no older than the turn, so a turn, which
ends before two timeouts, has no file that the sweep finds old; `RemovesUnused`
carries what the sweep found to the step where it removes the file.

`OneSocket` and `StateArrives` (`Startup`): `Locked` says that only a process with
the lock is past it; `Layouts` and `Arrived` say where the files of the earlier
layouts can be (the previous directory moves in one rename, the oldest one through
the staging directory, and the rename of that is the last step, after which no
file is elsewhere); `Prepared` says what a process did before its step;
`OnePrepares` is the model's own limit, that two first starts do not run at the
same time.

`ConfigOfOneUser` and `CookieOfBot` (`Setup`): `InitKnows` says whose session
`init` has at each step; `FileKnows` says that a file that is not empty holds the
beginning of a config that `init` finished (`Good`): it is enough, because the
fields come in the order of `Write` and `Load` needs the last one; `LoginKnows`
says that `login` verified the session for the bot it read, whatever `init` did
to the config since.

### PartsProofs

`PartsTyped`: each part keeps its types, so that `PartsTypeOK` holds for all values
of the constants. It puts together the invariants of the other proofs, which have
the types that are not inductive alone: the queues of the intake (`IntakeTyped`),
the files of the sessions (`Types`), the wire of the websocket and the evidence of
descriptions. New are the types of `ClaudeRun`, of the hook, the tools, the start,
the logs and `Setup`.

The cost of a run is a sum of prices over a set of calls, a fold of the
community modules, of which no theorem is at hand: it is a `CHOOSE` of a
function on the subsets of the calls. `SumsExist` makes this function for sets
of at most n calls, for each n, and `PriceIsNumber` shows in the same way that
its values are naturals. Both use `AllNumbers`, induction as a statement about a
set of numbers, which has no operator as a parameter and is proved from a
minimal counterexample. In the same way, `SessionsProofs` and `IntakeProofs`
prove that comments can be listed in order.

### Only model-checked

Every safety property that a passing run checks is a theorem, and so are the two
refinements. The progress properties (`MentionsServed`, `AnswersPosted`, `StopEnds`,
`RequestsEnd`, `MentionsGetQueued`, `NothingStaysOpen`, `NewsIsFetched`,
`RunReturns`) need fairness and `ENABLED`, which are out of the prover's reach. The
seven disagreements are counterexamples that TLC finds. For five of them a theorem
says under which condition the promise holds: `MentionsAnswered` (tool calls one
at a time), `OnlyOverlapLoses`, `OnlyEditsHideAnswers`, `OnlyOverlapHidesMention`
and `OnlyRemovalHidesAuthor`. The other two follow from one condition of the code: a
worker tests `drain` only in `finishIfIdle`, and a turn that renewed its session
writes it without a test.

## Not modelled, and the plan

What is left is a composition of `Intake` and `CardWorker` over one queue: a
mention in Fizzy is answered or the card is gone. Both refine an abstract
specification already, `Mailbox` and `Inbox`; the queue that `Mailbox` delivers to
is the one from which `Inbox` finishes.

Hazards that no property covers, with the reason:

- a read error of the state file inside `finishIfIdle` ends the worker without a
  log line, and its queue waits for the next kick (`worker.go` 65): the models
  have no errors of the store there;
- a first signal before `Run` made its drain context is lost (`main.go` 165): the
  models start after it;
- a killed daemon leaves its Claude process (`claude.go` 215): whether it goes on
  is up to Claude and the operating system;
- an identity file that a crash left empty makes every later start refuse the
  directory (`config.go` 243): `Startup` has that state and no document promises
  that it ends.

Not planned: the conversions between HTML, Markdown and text (no state, and no
property of the system is about wording), the HTTP client beyond its outcomes
(each call is a step that succeeds, fails, or succeeds without its response), the
framing of IPC, `doctor`, `attach` and the listings (they only read), the defaults
of the config, and the prices and tokens of models.

What the new modules leave out, and what that means: `Startup` has no two
commands that prepare the directory at the same time, so nothing is said of two
first starts at once. In `Setup`, a config that was cut after `repo` loads with
defaults for the settings after it; no property is about these. In
`Sessions`, a permission request that waits behind another one at the gate begins
when the gate is free, and `Intake` has no permission requests: what a scan leaves
to an open question is in `Sessions` and `Approvals`. In
`ClaudeRun`, the reader is never more than `WaitDelay` behind.

Left out of `CardWorker`, and what that means: errors of the store inside
`finishIfIdle` (the worker would end without a log line and its queue wait for
the next kick), the time of retries (a retry may come at once), and the
contents of prompts. A message whose sender's turn ends between the test of the
queue's length and the append is still queued, as in the code, and two senders
can pass the limit together.
