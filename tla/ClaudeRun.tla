------------------------------ MODULE ClaudeRun ------------------------------
(***************************************************************************)
(* One run of the claude process of a turn: internal/claude/claude.go,     *)
(* Run, parseStream and sumUsage, and the transcript that transcript.go    *)
(* reads afterwards.                                                       *)
(*                                                                         *)
(* Four things run at the same time: Claude with the commands it started,  *)
(* the parser of its output, the context of the turn (its deadline, or a   *)
(* stop of the daemon), and Run, which waits.  Events are in the pipe for  *)
(* some time, so Claude can be done, or over its cost limit, before the    *)
(* parser knows it.                                                        *)
(*                                                                         *)
(* Left out: lines that are no events, tokens and prices other than one    *)
(* cost per call, and a reader that is behind by more than WaitDelay.      *)
(***************************************************************************)
EXTENDS Naturals, Sequences, FiniteSetsExt

CONSTANTS
  Calls,       \* ids of API calls
  Price,       \* Price[c]: the estimated cost of the call c
  Reported,    \* costs that a result event can report
  CostLimit,   \* Turn.MaxCostUSD; 0 turns it off
  MaxStream    \* bound of the model: the length of the stream

VARIABLES
  claude,      \* the process: "runs", "ended" or "failed" (its exit status)
  child,       \* a command it started: in its group, or "detached"
  stream,      \* the events that it wrote
  parsed,      \* how many of them parseStream read
  found,       \* what parseStream knows
  ctxEnded,    \* the context of the turn
  cause,       \* context.Cause(runCtx)
  killTimer,   \* the SIGKILL that Cancel starts
  run,         \* where Run is
  outcome      \* what it returned

claudeVars ==
  <<claude, child, stream, parsed, found, ctxEnded, cause, killTimer, run, outcome>>
process == <<claude, child, stream>>

\* An answer is a text that is no error.
Texts == {"answer", "error", "empty"}
Event ==
  [type : {"assistant"}, id : Calls] \cup [type : {"result"}, text : Texts, cost : Reported]

FoundRecord ==
  [calls : SUBSET Calls, text : Texts, resultCost : Reported \cup {0},
   limitReached : BOOLEAN, answeredAfterStop : BOOLEAN]
NothingFound ==
  [calls |-> {}, text |-> "empty", resultCost |-> 0,
   limitReached |-> FALSE, answeredAfterStop |-> FALSE]

PriceOf(calls) == MapThenSumSet(LAMBDA c : Price[c], calls)
Larger(x, y) == IF x > y THEN x ELSE y

Outcome(verdict, calls, cost) == [verdict |-> verdict, calls |-> calls, cost |-> cost]
NoOutcome == Outcome("none", {}, 0)

TypeOK ==
  /\ claude \in {"runs", "ended", "failed"}
  /\ child \in {"none", "group", "detached"}
  /\ stream \in Seq(Event) /\ Len(stream) <= MaxStream
  /\ parsed \in 0..Len(stream)
  /\ found \in FoundRecord
  /\ ctxEnded \in BOOLEAN
  /\ cause \in {"none", "cost", "ctx"}
  /\ killTimer \in {"off", "set", "fired"}
  /\ run \in {"waits", "drains", "cut", "done"}
  /\ outcome.verdict \in {"none", "ok", "cost", "stopped", "failed"}
  /\ outcome.calls \subseteq Calls /\ outcome.cost \in Nat

Init ==
  /\ claude = "runs" /\ child = "none" /\ stream = <<>>
  /\ parsed = 0 /\ found = NothingFound
  /\ ctxEnded = FALSE /\ cause = "none" /\ killTimer = "off"
  /\ run = "waits" /\ outcome = NoOutcome

-----------------------------------------------------------------------------
(* Claude and what it starts.  SIGTERM ends it, or it does not. *)

Write(e) ==
  /\ claude = "runs"
  /\ Len(stream) < MaxStream
  /\ stream' = Append(stream, e)
  /\ UNCHANGED <<claude, child, parsed, found, ctxEnded, cause, killTimer, run, outcome>>

StartChild(kind) ==
  /\ claude = "runs" /\ child = "none"
  /\ child' = kind
  /\ UNCHANGED <<claude, stream, parsed, found, ctxEnded, cause, killTimer, run, outcome>>

ChildEnds ==
  /\ child # "none"
  /\ child' = "none"
  /\ UNCHANGED <<claude, stream, parsed, found, ctxEnded, cause, killTimer, run, outcome>>

ClaudeEnds(status) ==
  /\ claude = "runs"
  /\ claude' = status
  /\ UNCHANGED <<child, stream, parsed, found, ctxEnded, cause, killTimer, run, outcome>>

-----------------------------------------------------------------------------
(* parseStream *)

\* guardEstimate.
Estimate(f) == Larger(PriceOf(f.calls), f.resultCost)

\* An API call arrives as several events with one id, and counts once.
WithCall(f, id) ==
  LET g == [f EXCEPT !.calls = @ \cup {id}]
  IN  [g EXCEPT !.limitReached = @ \/ (CostLimit > 0 /\ Estimate(g) > CostLimit)]

\* A result before the limit is not the answer of the stopped turn, and an
\* error after it replaces an answer.
AnswerEver(f, e) == f.answeredAfterStop \/ e.text = "answer"
AnswerAfterStop(f, e) ==
  IF f.limitReached THEN e.text = "answer" ELSE f.answeredAfterStop

WithResult(f, e) ==
  [f EXCEPT !.text = e.text,
            !.resultCost = Larger(@, e.cost),
            !.answeredAfterStop = AnswerAfterStop(f, e)]

\* overLimit cancels the context of the process with ErrCostLimit as its
\* cause, unless it has one.
Parse ==
  /\ parsed < Len(stream)
  /\ LET e == stream[parsed + 1]
     IN  found' = IF e.type = "assistant" THEN WithCall(found, e.id)
                                          ELSE WithResult(found, e)
  /\ parsed' = parsed + 1
  /\ cause' = IF found'.limitReached /\ cause = "none" THEN "cost" ELSE cause
  /\ UNCHANGED <<process, ctxEnded, killTimer, run, outcome>>

-----------------------------------------------------------------------------
(* The stop *)

\* The deadline of the turn, or the second signal.
ContextEnds ==
  /\ ~ctxEnded /\ run # "done"
  /\ ctxEnded' = TRUE
  /\ cause' = IF cause = "none" THEN "ctx" ELSE cause
  /\ UNCHANGED <<process, parsed, found, killTimer, run, outcome>>

\* cmd.Cancel: SIGTERM to the group now, SIGKILL after stopGrace.
Cancel ==
  /\ cause # "none" /\ killTimer = "off" /\ claude = "runs"
  /\ killTimer' = "set"
  /\ UNCHANGED <<process, parsed, found, ctxEnded, cause, run, outcome>>

GroupKilled ==
  /\ claude' = IF claude = "runs" THEN "failed" ELSE claude
  /\ child' = IF child = "group" THEN "none" ELSE child

KillTimer ==
  /\ killTimer = "set"
  /\ killTimer' = "fired"
  /\ GroupKilled
  /\ UNCHANGED <<stream, parsed, found, ctxEnded, cause, run, outcome>>

-----------------------------------------------------------------------------
(* Run *)

\* cmd.Wait returns when nobody has the output open any more, or WaitDelay
\* after the process ended or was told to.  The delay is longer than
\* stopGrace.
PipeClosed == child = "none"
DelayFromStop == killTimer = "fired"
DelayOver == killTimer # "set"

Reap == claude # "runs" /\ (PipeClosed \/ DelayOver)

\* A command that Claude left in the background ends with the turn.
NothingKilled == UNCHANGED <<claude, child>>
AfterWait == GroupKilled

WaitReturns ==
  /\ run = "waits"
  /\ Reap
  /\ AfterWait
  /\ run' = IF PipeClosed THEN "drains" ELSE "cut"
  /\ UNCHANGED <<stream, parsed, found, ctxEnded, cause, killTimer, outcome>>

\* An output that was cut off is an error of Wait too.  The error says nothing
\* about the turn when the limit stopped it.
WaitFailed == claude = "failed" \/ run = "cut"

Verdict ==
  CASE cause = "cost" /\ ~found.answeredAfterStop -> "cost"
    [] ctxEnded -> "stopped"
    [] WaitFailed /\ found.text = "empty" /\ cause # "cost" -> "failed"
    [] OTHER -> "ok"

\* transcriptCalls: the hook may have recorded no transcript, and Claude may
\* have written a part of it.  The stream counts when it has more calls.
AnyTranscript(transcript) == transcript
CallsOfTurn(transcript) ==
  IF Cardinality(transcript) < Cardinality(found.calls) THEN found.calls ELSE transcript

\* sumUsage.
CostOf(calls) == Larger(PriceOf(calls), found.resultCost)

Return(transcript) ==
  /\ run \in {"drains", "cut"}
  /\ parsed = Len(stream)
  /\ LET calls == CallsOfTurn(transcript)
     IN  outcome' = Outcome(Verdict, calls, CostOf(calls))
  /\ run' = "done"
  /\ UNCHANGED <<process, parsed, found, ctxEnded, cause, killTimer>>

\* The next turn of the card.
NextRun ==
  /\ run = "done"
  /\ claude' = "runs" /\ child' = "none" /\ stream' = <<>>
  /\ parsed' = 0 /\ found' = NothingFound
  /\ ctxEnded' = FALSE /\ cause' = "none" /\ killTimer' = "off"
  /\ run' = "waits" /\ outcome' = NoOutcome

-----------------------------------------------------------------------------

CallsIn(s) == {e.id : e \in {s[k] : k \in {j \in DOMAIN s : s[j].type = "assistant"}}}

Returns == \E transcript \in SUBSET CallsIn(stream) : Return(transcript)

Next ==
  \/ \E e \in Event : Write(e)
  \/ \E kind \in {"group", "detached"} : StartChild(kind)
  \/ ChildEnds
  \/ \E status \in {"ended", "failed"} : ClaudeEnds(status)
  \/ Parse \/ ContextEnds \/ Cancel \/ KillTimer \/ WaitReturns \/ Returns
  \/ NextRun

-----------------------------------------------------------------------------
(* Properties *)

Results(s) == {k \in DOMAIN s : s[k].type = "result"}
CostUpTo(s, n) ==
  Larger(PriceOf(CallsIn(SubSeq(s, 1, n))),
         Max({s[k].cost : k \in {j \in Results(s) : j <= n}} \cup {0}))

\* The API calls that leave the turn over its limit.
OverLimit(s) ==
  {k \in DOMAIN s : CostLimit > 0 /\ s[k].type = "assistant" /\ CostUpTo(s, k) > CostLimit}

\* The last thing that Claude reported is an answer, and it is later than
\* the call that took the turn over its limit.
Complete(s) ==
  \E k \in Results(s) :
    /\ s[k].text = "answer"
    /\ \A j \in Results(s) : j <= k
    /\ OverLimit(s) # {} => Min(OverLimit(s)) < k

\* Unless the turn itself was stopped, the result says what Claude wrote and
\* does not depend on how far the parser was when the process ended: a turn
\* that completed is a success also when the cost limit stopped it (claude.go,
\* "an answer that arrived with the stop is an answer"), and one that went
\* over its limit without an answer is reported as such.
VerdictFollowsStream ==
  run = "done" /\ ~ctxEnded =>
    /\ Complete(stream) => outcome.verdict = "ok"
    /\ OverLimit(stream) # {} /\ ~Complete(stream) => outcome.verdict = "cost"

\* The usage of a turn has every call of the stream once, also when the turn
\* was stopped while Claude wrote its transcript, and the cost is at least
\* what Claude reported.
UsageKept ==
  run = "done" =>
    /\ outcome.calls = CallsIn(stream)
    /\ outcome.cost = CostUpTo(stream, Len(stream))

\* No process of the group of Claude lives longer than its turn.
NothingLeftBehind ==
  run = "done" => claude # "runs" /\ child # "group"

\* A stop of the turn ends Run, and so does the end of Claude, whatever the
\* commands that it left behind do with its output.
RunReturns == (ctxEnded \/ claude # "runs") ~> run = "done"
=============================================================================
