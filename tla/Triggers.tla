------------------------------ MODULE Triggers ------------------------------
(***************************************************************************)
(* Mentions in the description of a card, and what proves them:            *)
(* internal/daemon/triggers.go with the part of checkCard and              *)
(* handleNotification (internal/daemon/daemon.go) that is about them.      *)
(* Intake has the mentions in comments.                                    *)
(*                                                                         *)
(* All people with access to the board can edit a description, and Fizzy   *)
(* does not say who did.  The notification of a mention has the person who *)
(* wrote it and the start of the text at that time, and is replaced by the *)
(* next event on the card.  The text and the board can change at any       *)
(* moment of a scan, and two people can write the same words.              *)
(***************************************************************************)
EXTENDS Naturals

CONSTANTS
  People,        \* without the bot
  TrustedUsers,  \* config.TrustedUserIDs
  Words,         \* what a person can write in a part of a description
  MaxChanges     \* bound of the model: mentions, edits and other events

VARIABLES
  text,      \* the description: the words of each part, and who wrote them
  members,   \* the people with access to the board
  notified,  \* the notification of the card: unread, and its evidence
  done,      \* CardState.Handled: the texts, and the notices
  work,      \* the texts that were queued
  look,      \* the scan of the card
  wrote,     \* history: who wrote which start of a description with a mention
  left,      \* history: the people who left the board
  refused,   \* history: the texts that were done and not queued, and for whom
  changes    \* bounds the mentions, the edits and the other events

past == <<wrote, left, refused>>
triggerVars == <<text, members, notified, done, work, look, past, changes>>

Nobody == "nobody"
NoWords == "no words"

Part(p, words) == [by |-> p, words |-> words]
NoPart == Part(Nobody, NoWords)
AllParts == [by : People, words : Words] \cup {NoPart}

\* start: the part that fits in a notification.  rest: the part after it.
Text(start, rest, mention) == [start |-> start, rest |-> rest, mention |-> mention]
NoText == Text(NoPart, NoPart, FALSE)
AllTexts == [start : AllParts, rest : AllParts, mention : BOOLEAN]

\* The plain text, which shows neither who wrote it nor a mention.
Said(t) == <<t.start.words, t.rest.words>>

\* mentionEvidence; long: the body was cut.
Evidence(mentioner, body, long) == [mentioner |-> mentioner, body |-> body, long |-> long]
NoEvidence == Evidence(Nobody, NoWords, FALSE)

NoLook ==
  [at |-> "idle", evidence |-> NoEvidence, text |-> NoText, trustedBoard |-> FALSE]

TypeOK ==
  /\ text \in AllTexts
  /\ members \subseteq People
  /\ notified.unread \in BOOLEAN
  /\ notified.evidence.mentioner \in People \cup {Nobody}
  /\ work \subseteq AllTexts
  /\ look.at \in {"idle", "card", "members", "notice", "saveNotice", "record", "mark"}
  /\ look.text \in AllTexts
  /\ wrote \subseteq People \X Words
  /\ left \subseteq People
  /\ changes \in 0..MaxChanges

Init ==
  /\ text = NoText
  /\ members = {}
  /\ notified = [unread |-> FALSE, evidence |-> NoEvidence]
  /\ done = {} /\ work = {}
  /\ look = NoLook
  /\ wrote = {} /\ left = {} /\ refused = {}
  /\ changes = 0

-----------------------------------------------------------------------------
(* Fizzy *)

Join(p) ==
  /\ p \notin members
  /\ members' = members \cup {p}
  /\ UNCHANGED <<text, notified, done, work, look, past, changes>>

Leave(p) ==
  /\ p \in members
  /\ members' = members \ {p}
  /\ left' = left \cup {p}
  /\ UNCHANGED <<text, notified, done, work, look, wrote, refused, changes>>

Changed == changes < MaxChanges /\ changes' = changes + 1

\* A person writes a description that mentions the bot, or puts such a start
\* before the rest that is there.
Mention(p, words, rest) ==
  LET new == Text(Part(p, words), rest, TRUE)
  IN  /\ p \in members /\ text # new
      /\ text' = new
      /\ notified' = [unread |-> TRUE, evidence |-> Evidence(p, words, rest # NoPart)]
      /\ wrote' = wrote \cup {<<p, words>>}
      /\ Changed
      /\ UNCHANGED <<members, done, work, look, left, refused>>

\* Somebody edits a part of it.  No event tells.
Edit(p, new) ==
  /\ p \in members /\ text # NoText
  /\ text' = new
  /\ Changed
  /\ UNCHANGED <<members, notified, done, work, look, past>>

OtherEvent ==
  /\ Changed
  /\ notified' = [unread |-> TRUE, evidence |-> NoEvidence]
  /\ UNCHANGED <<text, members, done, work, look, past>>

-----------------------------------------------------------------------------
(* triggers.go *)

IsTrusted(p) == p \in TrustedUsers
Long(t) == t.rest # NoPart
HasText(evidence, t) == evidence.mentioner # Nobody /\ evidence.body = t.start.words

\* The start of the description is what the mentioner wrote, and there is no
\* more, or there is.
ProvesAll(evidence, t) == HasText(evidence, t) /\ ~evidence.long /\ ~Long(t)
ProvesStartOf(evidence, t) == HasText(evidence, t) /\ evidence.long

\* descriptionID hashes the plain text.  A mutant: one id for all texts.
OneId(t) == <<"description", Said(NoText)>>
DescriptionId(t) == <<"description", Said(t)>>
NoticeId(t) == <<"long-description", Said(t)>>

LongDescriptionMention(evidence, t) ==
  IsTrusted(evidence.mentioner) /\ ProvesStartOf(evidence, t) /\ t.mention

\* A board with nobody else proves nothing.  A mutant: one trusted person is
\* enough.
SomeTrustedMember(ms) == ms \cap TrustedUsers # {}
OnlyTrustedMembers(ms) == ms # {} /\ ms \subseteq TrustedUsers

\* findTriggers, for the description.
IsTrigger(l) ==
  /\ ProvesAll(l.evidence, l.text) \/ (l.trustedBoard /\ ProvesStartOf(l.evidence, l.text))
  /\ l.text.mention
  /\ DescriptionId(l.text) \notin done

-----------------------------------------------------------------------------
(* handleNotification and checkCard *)

Goto(at) == look' = [look EXCEPT !.at = at]

\* The scan takes the evidence from the notification that fetch listed.
BeginScan ==
  /\ look.at = "idle" /\ notified.unread
  /\ look' = [NoLook EXCEPT !.at = "card", !.evidence = notified.evidence]
  /\ UNCHANGED <<text, members, notified, done, work, past, changes>>

ReadCard ==
  /\ look.at = "card"
  /\ look' = [look EXCEPT !.text = text,
                          !.at = IF LongDescriptionMention(look.evidence, text)
                                 THEN "members" ELSE "record"]
  /\ UNCHANGED <<text, members, notified, done, work, past, changes>>

\* The members are asked for after the card is read: who joins later wrote
\* nothing of it.  Who left before is not among them.
ReadMembers ==
  /\ look.at = "members"
  /\ LET trusted == OnlyTrustedMembers(members)
     IN  look' = [look EXCEPT
           !.trustedBoard = trusted,
           !.at = IF trusted \/ NoticeId(look.text) \in done THEN "record" ELSE "notice"]
  /\ UNCHANGED <<text, members, notified, done, work, past, changes>>

\* explainLongDescription: a comment, and then its record.
PostNotice ==
  /\ look.at = "notice"
  /\ Goto("saveNotice")
  /\ UNCHANGED <<text, members, notified, done, work, past, changes>>

SaveNotice ==
  /\ look.at = "saveNotice"
  /\ done' = done \cup {NoticeId(look.text)}
  /\ Goto("record")
  /\ UNCHANGED <<text, members, notified, work, past, changes>>

\* The queue gets the text that was proved, from a trusted person.
Record ==
  LET t == look.text
      mentioner == look.evidence.mentioner
  IN  /\ look.at = "record"
      /\ IF IsTrigger(look)
         THEN /\ done' = done \cup {DescriptionId(t)}
              /\ IF IsTrusted(mentioner)
                 THEN work' = work \cup {t} /\ UNCHANGED refused
                 ELSE refused' = refused \cup {<<mentioner, Said(t)>>} /\ UNCHANGED work
         ELSE UNCHANGED <<done, work, refused>>
      /\ Goto("mark")
      /\ UNCHANGED <<text, members, notified, wrote, left, changes>>

\* The notification is read, whatever its evidence is by now.  The second
\* scan has no evidence and finds no description.
Mark ==
  /\ look.at = "mark"
  /\ notified' = [notified EXCEPT !.unread = FALSE]
  /\ look' = NoLook
  /\ UNCHANGED <<text, members, done, work, past, changes>>

\* Fizzy or the disk fails, a response is lost, or the daemon ends: the
\* notification is still unread.
ScanFails ==
  /\ look.at # "idle"
  /\ look' = NoLook
  /\ UNCHANGED <<text, members, notified, done, work, past, changes>>

-----------------------------------------------------------------------------

Rests(p) == {NoPart} \cup {Part(p, words) : words \in Words}

\* Other words in one of the parts, with the mention or without it, or the text
\* without its mention.
Edits(p) ==
  \/ \E kept \in BOOLEAN :
       \/ \E words \in Words \ {text.start.words} :
            Edit(p, [text EXCEPT !.start = Part(p, words), !.mention = @ /\ kept])
       \/ \E rest \in Rests(p) :
            /\ rest.words # text.rest.words
            /\ Edit(p, [text EXCEPT !.rest = rest, !.mention = @ /\ kept])
  \/ text.mention /\ Edit(p, [text EXCEPT !.mention = FALSE])

MentionsBot(p) ==
  \E words \in Words, rest \in Rests(p) \cup {text.rest} : Mention(p, words, rest)

Next ==
  \/ \E p \in People : Join(p) \/ Leave(p) \/ Edits(p) \/ MentionsBot(p)
  \/ OtherEvent
  \/ BeginScan \/ ReadCard \/ ReadMembers \/ PostNotice \/ SaveNotice
  \/ Record \/ Mark \/ ScanFails

-----------------------------------------------------------------------------
(* Properties *)

\* What proves the texts that were queued: a trusted person wrote the words of
\* the start with a mention, and when there is more, the rest is by a trusted
\* person, or by one who left the board and was not seen by the check of the
\* members; whoever edits and joins between the mention, the read of the card
\* and the read of the members (triggers.go, findTriggers).
WorkIsProven ==
  \A t \in work :
    /\ \E p \in TrustedUsers : <<p, t.start.words>> \in wrote
    /\ Long(t) => t.rest.by \in TrustedUsers \cup left

\* A scan that ends well leaves no mention of a trusted person without an
\* effect, whatever failed before: when the card still has the words of the
\* evidence, they are work or have their notice.  They have neither when the
\* mention of somebody else with the very same words was refused before: the
\* id is of the words and not of the mention, so that it blocks the later one
\* in spite of what triggers.go says of descriptionID.
RefusedBefore(t) == \E p \in People \ TrustedUsers : <<p, Said(t)>> \in refused

MentionGetsWorkOrNotice ==
  LET t == look.text
  IN  /\ look.at = "mark" /\ IsTrusted(look.evidence.mentioner)
      /\ HasText(look.evidence, t) /\ t.mention /\ Long(t) = look.evidence.long
      => \/ \E w \in work : Said(w) = Said(t)
         \/ NoticeId(t) \in done
         \/ RefusedBefore(t)

-----------------------------------------------------------------------------
(* What the documentation says and the code does not do *)

\* The README says of a description that is longer than a notification: when
\* every person with access to the board is trusted, "then only trusted people
\* can have edited it".  The board tells who has access now: the part of a
\* person who was removed before the scan becomes work.
OnlyTrustedEdited == \A t \in work : Long(t) => t.rest.by \in TrustedUsers

\* What daemon.go says of handleNotification: a later event cannot hide a
\* mention, and one that arrives between the scan and the mark is found.  When
\* the notification is read and nothing runs, a short description that a
\* trusted person wrote with a mention is work.
DescriptionMentionKept ==
  look.at = "idle" /\ ~notified.unread /\ text.mention /\ ~Long(text)
    /\ IsTrusted(text.start.by)
  => \E w \in work : Said(w) = Said(text)
=============================================================================
