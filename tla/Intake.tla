------------------------------- MODULE Intake -------------------------------
(***************************************************************************)
(* How mentions get from Fizzy to the queues of the cards: the fetch loop  *)
(* of internal/daemon/daemon.go (fetch, handleNotification, rescan,        *)
(* checkCard).                                                             *)
(*                                                                         *)
(* Fizzy keeps one notification for each card.  A mention, and any other   *)
(* event on the card, makes it unread again and replaces its source, so    *)
(* the notification does not say which mentions are new: the loop scans    *)
(* the card, marks the notification as read, and scans again, because a    *)
(* mention can arrive between the scan and the mark.  The second scan must *)
(* not be lost, so the card has a durable mark (NeedsScan) until a scan    *)
(* after the mark is successful.                                           *)
(*                                                                         *)
(* Left out here: mentions in descriptions and what proves them, mentions  *)
(* that answer a permission question, reactions and the kick.              *)
(***************************************************************************)
EXTENDS Naturals, Sequences, FiniteSets, Ordered

CONSTANTS
  Cards,
  Mentions,     \* comments that mention the bot
  CardOf,       \* the card of each mention
  Trusted,      \* the mentions by people that the config trusts
  MaxEvents,    \* bound of the model: other events that make a notification
  MaxCrashes    \* bound of the model

ASSUME CardsAssumption == Cards # {}
ASSUME MentionsAssumption ==
  CardOf \in [Mentions -> Cards] /\ Trusted \subseteq Mentions
ASSUME BoundsAssumption == MaxEvents \in Nat /\ MaxCrashes \in Nat

VARIABLES
  \* Fizzy
  comments,      \* comments[c]: the mentions on card c, in order
  gone,          \* cards that are deleted or not accessible
  unread,        \* cards with an unread notification
  events,        \* bounds the other events
  \* The state file of each card
  handled,       \* CardState.Handled
  queued,        \* every item that was appended to CardState.Queue
  needsScan,     \* cards with CardState.NeedsScan
  \* The daemon
  pendingScans,  \* Daemon.pendingScans
  etag,          \* Daemon.etag: "none", "current" or "old" for Fizzy
  todo,          \* cards that this pass of rescanPending or fetch still has
  loop,          \* where the fetch loop is
  crashes        \* bounds the crashes

fizzy == <<comments, gone, unread, events>>
store == <<handled, queued, needsScan>>
memory == <<pendingScans, etag, todo, loop>>
vars == <<fizzy, store, memory, crashes>>

ItemsOf(s) == {s[k] : k \in 1..Len(s)}

\* The places of K whose comments are by trusted people.
TrustedAt(c, K) == {k \in K : comments[c][k] \in Trusted}

-----------------------------------------------------------------------------

\* at: the step of the loop.  "rescans" and "notices" choose the next card;
\* a scan reads the card ("read") and records what it found ("record").
\* scan: why the card is scanned.  "pending": rescanPending; "notice": the
\* first scan of handleNotification; "again": its rescan.
\* seen: how many comments the scan read.  failed: an error of this pass.
NoCard == CHOOSE c \in Cards : TRUE

Loop(at, scan, card, seen, failed) ==
  [at |-> at, scan |-> scan, card |-> card, seen |-> seen, failed |-> failed]

LoopRecord ==
  [at : {"down", "wait", "rescans", "fetch", "notices", "read", "record",
         "drop", "mark", "setScan", "clearScan"},
   scan : {"none", "pending", "notice", "again"},
   card : Cards, seen : Nat, failed : BOOLEAN]

Pass(at, failed) == Loop(at, "none", NoCard, 0, failed)

\* The type invariant.
TypeOK ==
  /\ comments \in [Cards -> Seq(Mentions)]
  /\ gone \subseteq Cards
  /\ unread \subseteq Cards
  /\ events \in 0..MaxEvents
  /\ handled \in [Cards -> SUBSET Mentions]
  /\ queued \in [Cards -> Seq(Mentions)]
  /\ needsScan \subseteq Cards
  /\ pendingScans \subseteq Cards
  /\ etag \in {"none", "current", "old"}
  /\ todo \subseteq Cards
  /\ loop \in LoopRecord
  /\ crashes \in 0..MaxCrashes

Init ==
  /\ comments = [c \in Cards |-> <<>>]
  /\ gone = {}
  /\ unread = {}
  /\ events = 0
  /\ handled = [c \in Cards |-> {}]
  /\ queued = [c \in Cards |-> <<>>]
  /\ needsScan = {}
  /\ pendingScans = {}
  /\ etag = "none"
  /\ todo = {}
  /\ loop = Pass("wait", FALSE)
  /\ crashes = 0

-----------------------------------------------------------------------------
(* Fizzy *)

\* The list of the notifications changes, and with it its etag.
Changed == IF etag = "current" THEN "old" ELSE etag

Mention(m) ==
  LET c == CardOf[m]
  IN  /\ m \notin ItemsOf(comments[c])
      /\ c \notin gone
      /\ comments' = [comments EXCEPT ![c] = Append(@, m)]
      /\ unread' = unread \cup {c}
      /\ etag' = Changed
      /\ UNCHANGED <<gone, events, store, pendingScans, todo, loop, crashes>>

Event(c) ==
  /\ events < MaxEvents
  /\ events' = events + 1
  /\ unread' = unread \cup {c}
  /\ etag' = Changed
  /\ UNCHANGED <<comments, gone, store, pendingScans, todo, loop, crashes>>

Delete(c) ==
  /\ events < MaxEvents
  /\ events' = events + 1
  /\ gone' = gone \cup {c}
  /\ UNCHANGED <<comments, unread, store, memory, crashes>>

-----------------------------------------------------------------------------
(* The passes of fetchLoop *)

\* The timer or the signal of the websocket.
Wake ==
  /\ loop.at = "wait"
  /\ loop' = Pass("rescans", FALSE)
  /\ todo' = pendingScans
  /\ UNCHANGED <<fizzy, store, pendingScans, etag, crashes>>

\* The loops of rescanPending and fetch over the cards.
NextCard(c) ==
  /\ loop.at \in {"rescans", "notices"}
  /\ c \in todo
  /\ todo' = todo \ {c}
  /\ loop' = Loop("read", IF loop.at = "rescans" THEN "pending" ELSE "notice",
                  c, 0, loop.failed)
  /\ UNCHANGED <<fizzy, store, pendingScans, etag, crashes>>

\* errors.Join evaluates both: the fetch follows also when a rescan failed.
RescansDone ==
  /\ loop.at = "rescans" /\ todo = {}
  /\ loop' = [loop EXCEPT !.at = "fetch"]
  /\ UNCHANGED <<fizzy, store, pendingScans, etag, todo, crashes>>

Fetch ==
  /\ loop.at = "fetch"
  /\ etag # "current"
  /\ etag' = "current"
  /\ todo' = unread
  /\ loop' = [loop EXCEPT !.at = "notices"]
  /\ UNCHANGED <<fizzy, store, pendingScans, crashes>>

\* ErrNotModified: the loop has nothing to do.
FetchNotModified ==
  /\ loop.at = "fetch"
  /\ etag = "current"
  /\ loop' = [loop EXCEPT !.at = "notices"]
  /\ UNCHANGED <<fizzy, store, pendingScans, etag, todo, crashes>>

FetchFails ==
  /\ loop.at = "fetch"
  /\ loop' = [loop EXCEPT !.at = "notices", !.failed = TRUE]
  /\ UNCHANGED <<fizzy, store, pendingScans, etag, todo, crashes>>

\* After an error the next fetch gets the list again.  A mutant: it does not.
EtagKept == etag
EtagAfter == IF loop.failed THEN "none" ELSE etag

PassDone ==
  /\ loop.at = "notices" /\ todo = {}
  /\ etag' = EtagAfter
  /\ loop' = Pass("wait", FALSE)
  /\ UNCHANGED <<fizzy, store, pendingScans, todo, crashes>>

-----------------------------------------------------------------------------
(* checkCard *)

\* The list of cards that the scan belongs to.
Back(failed) ==
  Pass(IF loop.scan = "pending" THEN "rescans" ELSE "notices", failed)

\* After the first scan of a notification the card gets its mark; a scan after
\* the mark clears it.  A mutant: the loop goes on at a step that is not one.
AfterScanSwapped == [loop EXCEPT !.at = loop.scan]
AfterScan == [loop EXCEPT !.at = IF loop.scan = "notice" THEN "setScan" ELSE "clearScan"]

\* Card and Comments.
Read ==
  /\ loop.at = "read"
  /\ loop.card \notin gone
  /\ loop' = [loop EXCEPT !.at = "record", !.seen = Len(comments[loop.card])]
  /\ UNCHANGED <<fizzy, store, pendingScans, etag, todo, crashes>>

\* errCardGone: the notification is dropped; a rescan has nothing to find.
ReadGone ==
  /\ loop.at = "read"
  /\ loop.card \in gone
  /\ loop' = IF loop.scan = "notice" THEN [loop EXCEPT !.at = "drop"] ELSE AfterScan
  /\ UNCHANGED <<fizzy, store, pendingScans, etag, todo, crashes>>

\* findTriggers: the places of the comments that the scan read and that are not
\* handled.  A mutant: of all comments that it read.
AllRead(c) == 1..loop.seen
Triggers(c) == {k \in 1..loop.seen : comments[c][k] \notin handled[c]}

\* What the scan read of the card.  A mutant: what the card has by now.
OnCardNow(c) == ItemsOf(comments[c])
Scanned(c) == ItemsOf(SubSeq(comments[c], 1, loop.seen))

\* The store.Update of checkCard.  All that the scan read is handled then.
Record ==
  LET c == loop.card
  IN  /\ loop.at = "record"
      /\ handled' = [handled EXCEPT ![c] = @ \cup Scanned(c)]
      /\ queued' = [queued EXCEPT ![c] = @ \o ItemsAt(comments[c], TrustedAt(c, Triggers(c)))]
      /\ loop' = AfterScan
      /\ UNCHANGED <<fizzy, needsScan, pendingScans, etag, todo, crashes>>

-----------------------------------------------------------------------------
(* handleNotification and rescan, after a scan *)

\* setNeedsScan(true), before the notification is marked as read.  A mutant:
\* the card has its mark only in memory.
MarkInMemory ==
  /\ pendingScans' = pendingScans \cup {loop.card}
  /\ UNCHANGED needsScan
MarkCard ==
  /\ pendingScans' = pendingScans \cup {loop.card}
  /\ needsScan' = needsScan \cup {loop.card}

SetNeedsScan ==
  /\ loop.at = "setScan"
  /\ MarkCard
  /\ loop' = [loop EXCEPT !.at = "mark"]
  /\ UNCHANGED <<fizzy, handled, queued, etag, todo, crashes>>

\* MarkNotificationRead, also for a card that is gone.  It marks the
\* notification of the card whatever its source is by now.
MarkedRead ==
  /\ loop.at \in {"mark", "drop"}
  /\ unread' = unread \ {loop.card}
  /\ etag' = Changed
  /\ UNCHANGED <<comments, gone, events, store, pendingScans, todo, crashes>>

MarkRead ==
  /\ MarkedRead
  /\ loop' = IF loop.at = "drop" THEN Back(loop.failed)
             ELSE [loop EXCEPT !.at = "read", !.scan = "again"]

\* Only the response was lost.
MarkReadUnanswered == MarkedRead /\ loop' = Back(TRUE)

\* setNeedsScan(false) after a successful scan.
ClearNeedsScan ==
  /\ loop.at = "clearScan"
  /\ needsScan' = needsScan \ {loop.card}
  /\ pendingScans' = pendingScans \ {loop.card}
  /\ loop' = Back(loop.failed)
  /\ UNCHANGED <<fizzy, handled, queued, etag, todo, crashes>>

\* A call of Fizzy or a write of the state file failed: the error goes up to
\* the loop over the cards, which goes on with the next card.
StepFails ==
  /\ loop.at \in {"read", "record", "setScan", "mark", "drop", "clearScan"}
  /\ loop' = Back(TRUE)
  /\ UNCHANGED <<fizzy, store, pendingScans, etag, todo, crashes>>

-----------------------------------------------------------------------------
(* Crashes, and the end of the loop after a signal *)

Crash ==
  /\ loop.at # "down"
  /\ crashes < MaxCrashes
  /\ crashes' = crashes + 1
  /\ pendingScans' = {}
  /\ etag' = "none"
  /\ todo' = {}
  /\ loop' = Pass("down", FALSE)
  /\ UNCHANGED <<fizzy, store>>

\* resumeQueues takes the marks from the state files.  A mutant: it does not.
ForgetMarks == {}
ResumeMarks == needsScan

Restart ==
  /\ loop.at = "down"
  /\ loop' = Pass("wait", FALSE)
  /\ pendingScans' = ResumeMarks
  /\ UNCHANGED <<fizzy, store, etag, todo, crashes>>

-----------------------------------------------------------------------------

Step ==
  \/ Wake \/ RescansDone \/ (\E c \in Cards : NextCard(c))
  \/ Fetch \/ FetchNotModified \/ FetchFails \/ PassDone
  \/ Read \/ ReadGone \/ Record \/ SetNeedsScan \/ MarkRead
  \/ MarkReadUnanswered \/ ClearNeedsScan \/ StepFails

Next ==
  \/ Step
  \/ \E m \in Mentions : Mention(m)
  \/ \E c \in Cards : Event(c) \/ Delete(c)
  \/ Crash \/ Restart

Spec == Init /\ [][Next]_vars

\* The loop always goes on; each call can fail, but succeeds again and again.
\* For a card c, "the call" is the step with c in it.
ForCard(c, A) == loop.card = c /\ A

Fairness ==
  /\ WF_vars(Step)
  /\ SF_vars(Fetch)
  /\ \A c \in Cards :
       /\ SF_vars(ForCard(c, Read \/ ReadGone)) /\ SF_vars(ForCard(c, Record))
       /\ SF_vars(ForCard(c, SetNeedsScan)) /\ SF_vars(ForCard(c, ClearNeedsScan))
       /\ SF_vars(ForCard(c, MarkRead))

FairSpec == Spec /\ Fairness

-----------------------------------------------------------------------------
(* Safety *)

\* At every moment, and so after every crash, something that survives leads to
\* a mention that is not handled: an unread notification of its card, or the
\* durable mark that asks for a scan.
NoMentionLost ==
  \A c \in Cards \ gone :
    ItemsOf(comments[c]) \subseteq handled[c] \/ c \in unread \/ c \in needsScan

\* The mentions of trusted people go to the queue once, and in the order in
\* which they were written, whatever scans overlap, fail or repeat.
QueuedOnceInOrder ==
  \A c \in Cards : \E n \in 0..Len(comments[c]) :
    queued[c] = ItemsAt(comments[c], TrustedAt(c, 1..n))

\* A fetch that Fizzy answers with "not modified" misses nothing.
NotModifiedMissesNothing ==
  loop.at = "wait" /\ etag = "current" => unread = {}

\* The loop implements the abstract mailbox: the places that are handled are
\* what a card took.
Promise == INSTANCE Mailbox WITH
             written <- comments,
             taken <- [c \in Cards |-> {k \in DOMAIN comments[c] :
                                           comments[c][k] \in handled[c]}],
             queue <- queued

KeepsPromise == Promise!Spec

-----------------------------------------------------------------------------
(* Progress, under FairSpec *)

\* A mention of a trusted person on a card that stays gets to the queue.
MentionsGetQueued ==
  \A m \in Trusted :
    LET c == CardOf[m]
    IN  (m \in ItemsOf(comments[c]) /\ loop.at # "down")
          ~> (m \in ItemsOf(queued[c]) \/ c \in gone \/ loop.at = "down")

\* No mark and no notification stays for ever, also for a card that is gone.
NothingStaysOpen ==
  \A c \in Cards :
    (c \in unread \cup needsScan /\ loop.at # "down")
      ~> (c \notin unread \cup needsScan \/ loop.at = "down")
==============================================================================
