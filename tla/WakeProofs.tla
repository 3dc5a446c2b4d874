------------------------------ MODULE WakeProofs ------------------------------
(***************************************************************************)
(* Proofs about what wakes the daemon and gives it work: the websocket     *)
(* (Cable) and the mentions in descriptions (Triggers), for any length of  *)
(* the wire and any people.                                                *)
(***************************************************************************)
EXTENDS Parts, SequenceTheorems, TLAPS

-----------------------------------------------------------------------------
(* Cable: a working subscription wakes the loop *)

\* A confirmation on the wire, and a connection that got one, are of a
\* subscription: only the end of the connection ends it, and it clears the wire.
IsSubscribed ==
  Ca!Has("confirm") \/ (conn = "ready" /\ link) => subscribed

CableInv == wire \in Seq(Ca!Messages) /\ IsSubscribed /\ Ca!WakeupKept

\* What the wire has after a message came to it.
LEMMA HasAppended ==
  ASSUME wire \in Seq(Ca!Messages), NEW message \in Ca!Messages, Ca!Transmit(message)
  PROVE  /\ wire' \in Seq(Ca!Messages)
         /\ \A m : Ca!Has(m)' <=> Ca!Has(m) \/ m = message
<1>1. wire' = Append(wire, message) /\ wire' \in Seq(Ca!Messages)
  BY AppendProperties DEF Ca!Transmit
<1>2. /\ DOMAIN wire = 1..Len(wire) /\ DOMAIN wire' = 1..(Len(wire) + 1)
      /\ Len(wire) \in Nat /\ wire'[Len(wire) + 1] = message
      /\ \A k \in DOMAIN wire : wire'[k] = wire[k]
  BY <1>1, AppendProperties, LenProperties
<1> QED BY <1>1, <1>2 DEF Ca!Has

\* What the wire has after its first message was read.
LEMMA HasTail ==
  ASSUME wire \in Seq(Ca!Messages), wire # <<>>, wire' = Tail(wire)
  PROVE  /\ wire' \in Seq(Ca!Messages)
         /\ Ca!Has(Head(wire))
         /\ \A m : Ca!Has(m)' => Ca!Has(m)
         /\ \A m : Ca!Has(m) => Ca!Has(m)' \/ m = Head(wire)
<1>1. /\ wire' \in Seq(Ca!Messages) /\ Len(wire) \in Nat \ {0}
      /\ DOMAIN wire = 1..Len(wire) /\ DOMAIN wire' = 1..(Len(wire) - 1)
      /\ \A k \in DOMAIN wire' : wire'[k] = wire[k + 1]
      /\ Head(wire) = wire[1]
  BY HeadTailProperties, LenProperties, EmptySeq
<1>2. \A k \in DOMAIN wire : k = 1 \/ (k - 1 \in DOMAIN wire' /\ wire'[k - 1] = wire[k])
  BY <1>1
<1>3. \A k \in DOMAIN wire' : k + 1 \in DOMAIN wire
  BY <1>1
<1>4. Ca!Has(Head(wire))
  BY <1>1 DEF Ca!Has
<1>5. ASSUME NEW m, Ca!Has(m)' PROVE Ca!Has(m)
  <2>1. PICK k \in DOMAIN wire' : wire'[k] = m
    BY <1>5 DEF Ca!Has
  <2> QED BY <1>1, <1>3, <2>1 DEF Ca!Has
<1>6. ASSUME NEW m, Ca!Has(m) PROVE Ca!Has(m)' \/ m = Head(wire)
  <2>1. PICK k \in DOMAIN wire : wire[k] = m
    BY <1>6 DEF Ca!Has
  <2> QED BY <1>1, <1>2, <2>1 DEF Ca!Has
<1> QED BY <1>1, <1>4, <1>5, <1>6

LEMMA HasNothing ==
  ASSUME wire' = <<>>
  PROVE  wire' \in Seq(Ca!Messages) /\ \A m : ~Ca!Has(m)'
BY EmptySeq DEF Ca!Has

LEMMA CableNext ==
  ASSUME CableInv, [Ca!Next]_cableVars
  PROVE  CableInv'
<1> USE DEF CableInv, IsSubscribed, Ca!WakeupKept
<1>0. {"welcome", "confirm", "broadcast"} \subseteq Ca!Messages
  BY DEF Ca!Messages
<1>1. CASE UNCHANGED cableVars
  BY <1>1 DEF cableVars, Ca!Has
<1>2. CASE Ca!Notify
  <2>1. CASE link /\ subscribed
    <3>1. Ca!Transmit("broadcast") /\ UNCHANGED <<conn, link, subscribed>>
      BY <1>2, <2>1 DEF Ca!Notify
    <3> QED BY <1>0, <3>1, <2>1, HasAppended
  <2>2. CASE ~(link /\ subscribed)
    BY <1>2, <2>2 DEF Ca!Notify, Ca!Has
  <2> QED BY <2>1, <2>2
<1>3. CASE Ca!Welcome
  BY <1>0, <1>3, HasAppended DEF Ca!Welcome, Ca!server
<1>4. CASE Ca!Subscribe
  BY <1>4 DEF Ca!Subscribe, Ca!server, Ca!Has
<1>5. CASE Ca!Confirm
  BY <1>0, <1>5, HasAppended DEF Ca!Confirm, Ca!server
<1>6. CASE Ca!LogIn \/ Ca!AskStream \/ Ca!Dial \/ Ca!Disconnected
  BY <1>6 DEF Ca!LogIn, Ca!AskStream, Ca!Dial, Ca!Disconnected, Ca!server,
              Ca!socketVars, Ca!Has
<1>7. ASSUME NEW cookie, Ca!Break(cookie) PROVE CableInv'
  BY <1>7, HasNothing DEF Ca!Break
<1>8. CASE Ca!ReadWelcome
  BY <1>8, HasTail DEF Ca!ReadWelcome
<1>9. CASE Ca!ReadConfirm
  BY <1>9, HasTail DEF Ca!ReadConfirm, Ca!OnReadySignals, Ca!SignalFetch
<1>10. CASE Ca!ReadBroadcast
  BY <1>10, HasTail DEF Ca!ReadBroadcast, Ca!SignalFetch
<1>11. CASE Ca!ListenEnds
  BY <1>11, HasNothing DEF Ca!ListenEnds
<1>12. CASE Ca!List \/ Ca!ListFails \/ Ca!BeginWait \/ Ca!TakeSignal \/ Ca!Timer
  BY <1>12 DEF Ca!List, Ca!ListFails, Ca!BeginWait, Ca!TakeSignal, Ca!Timer,
               Ca!TimerRuns, Ca!LoopAt, Ca!server, Ca!socketVars, Ca!Has
<1> QED BY <1>1, <1>2, <1>3, <1>4, <1>5, <1>6, <1>7, <1>8, <1>9, <1>10, <1>11, <1>12
        DEF Ca!Next

LEMMA CableAlways == PartsSpec => []CableInv
<1>1. PartsInit => CableInv
  BY EmptySeq DEF PartsInit, Ca!Init, CableInv, IsSubscribed, Ca!WakeupKept, Ca!Has
<1>2. CableInv /\ [PartsNext]_partsVars => CableInv'
  BY CableNext DEF PartsNext, partsVars
<1> QED BY <1>1, <1>2, PTL DEF PartsSpec

\* While the subscription works, a notification that is not listed has a
\* broadcast or a signal on its way, for any number of messages on the wire and
\* wherever the connection breaks: Fizzy subscribes before it confirms, and the
\* confirmation itself signals (Listen of cable.go, listenCable of daemon.go).
THEOREM NewsWakes == PartsSpec => []WakeupKept
<1>1. CableInv => WakeupKept
  BY DEF CableInv, WakeupKept
<1> QED BY <1>1, CableAlways, PTL

-----------------------------------------------------------------------------
(* Triggers: descriptions give work, and what proves it *)

Evidences ==
  [mentioner : Users \cup {Tr!Nobody}, body : Words \cup {Tr!NoWords}, long : BOOLEAN]
Looks ==
  [at : {"idle", "card", "members", "notice", "saveNotice", "record", "mark"},
   evidence : Evidences, text : Tr!AllTexts, trustedBoard : BOOLEAN]

TriggerTypes ==
  /\ text \in Tr!AllTexts /\ look \in Looks
  /\ notified \in [unread : BOOLEAN, evidence : Evidences]

Authors(t) == {t.start.by, t.rest.by} \ {Tr!Nobody}

\* Who wrote a part of the text, or of the text that the scan read, is on the
\* board, or was.
AuthorsAreKnown == Authors(text) \cup Authors(look.text) \subseteq members \cup left

\* A notification has what its person wrote.
Written(evidence) ==
  evidence.mentioner # Tr!Nobody => <<evidence.mentioner, evidence.body>> \in wrote

EvidenceIsTrue == Written(notified.evidence) /\ Written(look.evidence)

\* A board of trusted people proves the text that was read before its members,
\* but for who left.
BoardProves ==
  /\ look.trustedBoard => Authors(look.text) \subseteq TrustedUsers \cup left
  /\ look.at \in {"card", "members"} => ~look.trustedBoard

\* The words of the text are work.
IsWork(t) == \E w \in work : Tr!Said(w) = Tr!Said(t)

\* A text that is done is work, or somebody else was refused with its words.
DoneIsWork ==
  \A t \in Tr!AllTexts :
    Tr!DescriptionId(t) \in done => IsWork(t) \/ Tr!RefusedBefore(t)

\* A long description that the scan is to record is proved by the board or has
\* its notice.
LongIsProved ==
  look.at = "record" /\ Tr!LongDescriptionMention(look.evidence, look.text) =>
    look.trustedBoard \/ Tr!NoticeId(look.text) \in done

TriggerInv ==
  /\ TriggerTypes /\ AuthorsAreKnown /\ EvidenceIsTrue /\ BoardProves /\ DoneIsWork
  /\ LongIsProved /\ Tr!WorkIsProven /\ Tr!MentionGetsWorkOrNotice

LEMMA NothingIsText ==
  /\ Tr!NoText \in Tr!AllTexts /\ Authors(Tr!NoText) = {}
  /\ Tr!NoEvidence \in Evidences /\ Tr!NoEvidence.mentioner = Tr!Nobody
BY DEF Tr!NoText, Tr!Text, Tr!AllTexts, Tr!AllParts, Tr!NoPart, Tr!Part, Authors,
       Tr!NoEvidence, Tr!Evidence, Evidences

LEMMA NothingLooked ==
  /\ Tr!NoLook \in Looks /\ Authors(Tr!NoLook.text) = {} /\ Tr!NoLook.at = "idle"
  /\ ~Tr!NoLook.trustedBoard /\ Tr!NoLook.evidence.mentioner = Tr!Nobody
BY NothingIsText DEF Looks, Tr!NoLook

LEMMA TriggerInit ==
  ASSUME Tr!Init
  PROVE  TriggerInv
<1>1. /\ text = Tr!NoText /\ look = Tr!NoLook /\ work = {} /\ done = {}
      /\ notified = [unread |-> FALSE, evidence |-> Tr!NoEvidence]
  BY DEF Tr!Init
<1>2. TriggerTypes /\ AuthorsAreKnown /\ EvidenceIsTrue /\ BoardProves
  BY <1>1, NothingIsText, NothingLooked
     DEF TriggerTypes, AuthorsAreKnown, EvidenceIsTrue, Written, BoardProves
<1>3. DoneIsWork /\ LongIsProved /\ Tr!WorkIsProven /\ Tr!MentionGetsWorkOrNotice
  BY <1>1, NothingLooked
     DEF DoneIsWork, LongIsProved, Tr!WorkIsProven, Tr!MentionGetsWorkOrNotice
<1> QED BY <1>2, <1>3 DEF TriggerInv

\* A change of the text or of the board, between the steps of a scan: each part
\* of the text is by a person who was a member, as are those of the text that
\* the scan read.
LEMMA TextChanged ==
  ASSUME TriggerInv, UNCHANGED <<done, work, look, refused>>,
         text' \in Tr!AllTexts, notified' \in [unread : BOOLEAN, evidence : Evidences],
         wrote \subseteq wrote', left \subseteq left', Written(notified.evidence)',
         Authors(text') \cup Authors(look.text) \subseteq members' \cup left'
  PROVE  TriggerInv'
<1>1. /\ TriggerTypes' /\ AuthorsAreKnown' /\ EvidenceIsTrue' /\ BoardProves'
      /\ LongIsProved'
  BY DEF TriggerInv, TriggerTypes, AuthorsAreKnown, EvidenceIsTrue, Written, BoardProves,
         LongIsProved, Authors
<1>2. DoneIsWork'
  BY DEF TriggerInv, DoneIsWork, IsWork, Tr!RefusedBefore
<1>3. Tr!WorkIsProven'
  BY DEF TriggerInv, Tr!WorkIsProven
<1>4. Tr!MentionGetsWorkOrNotice'
  BY DEF TriggerInv, Tr!MentionGetsWorkOrNotice, Tr!RefusedBefore
<1> QED BY <1>1, <1>2, <1>3, <1>4 DEF TriggerInv

\* A step of the scan that queues nothing.
LEMMA Looked ==
  ASSUME TriggerInv, UNCHANGED <<text, members, work, wrote, left, refused>>,
         notified' \in [unread : BOOLEAN, evidence : Evidences], look' \in Looks,
         Written(notified'.evidence), Written(look'.evidence),
         done \subseteq done',
         \A t \in Tr!AllTexts : Tr!DescriptionId(t) \in done' => Tr!DescriptionId(t) \in done,
         Authors(look'.text) \subseteq members \cup left,
         BoardProves', LongIsProved', look'.at # "mark"
  PROVE  TriggerInv'
<1>1. TriggerTypes' /\ AuthorsAreKnown' /\ EvidenceIsTrue'
  BY DEF TriggerInv, TriggerTypes, AuthorsAreKnown, EvidenceIsTrue, Written
<1>2. DoneIsWork'
  BY DEF TriggerInv, DoneIsWork, IsWork, Tr!RefusedBefore, Tr!DescriptionId
<1>3. Tr!WorkIsProven' /\ Tr!MentionGetsWorkOrNotice'
  BY DEF TriggerInv, Tr!WorkIsProven, Tr!MentionGetsWorkOrNotice
<1> QED BY <1>1, <1>2, <1>3 DEF TriggerInv

\* What an edit makes: a text with a part by the person who edits.
LEMMA EditIs ==
  ASSUME text \in Tr!AllTexts, NEW p \in Users, Tr!Edits(p)
  PROVE  \E new \in Tr!AllTexts :
           Tr!Edit(p, new) /\ Authors(new) \subseteq Authors(text) \cup {p}
<1>1. ASSUME NEW piece \in Tr!Rests(p), NEW kept \in BOOLEAN
      PROVE  /\ [text EXCEPT !.start = piece, !.mention = @ /\ kept] \in Tr!AllTexts
             /\ Authors([text EXCEPT !.start = piece, !.mention = @ /\ kept])
                  \subseteq Authors(text) \cup {p}
             /\ [text EXCEPT !.rest = piece, !.mention = @ /\ kept] \in Tr!AllTexts
             /\ Authors([text EXCEPT !.rest = piece, !.mention = @ /\ kept])
                  \subseteq Authors(text) \cup {p}
  <2>1. piece \in Tr!AllParts /\ piece.by \in {p, Tr!Nobody}
    BY DEF Tr!Rests, Tr!AllParts, Tr!NoPart, Tr!Part
  <2>2. (text.mention /\ kept) \in BOOLEAN
    OBVIOUS
  <2> QED BY <2>1, <2>2 DEF Tr!AllTexts, Authors
<1>2. /\ [text EXCEPT !.mention = FALSE] \in Tr!AllTexts
      /\ Authors([text EXCEPT !.mention = FALSE]) \subseteq Authors(text) \cup {p}
  BY DEF Tr!AllTexts, Authors
<1>3. \A words \in Words : Tr!Part(p, words) \in Tr!Rests(p)
  BY DEF Tr!Rests
<1> QED BY <1>1, <1>2, <1>3 DEF Tr!Edits

\* What a mention makes: a start by its person, and a rest that is new or stays.
LEMMA MentionIs ==
  ASSUME text \in Tr!AllTexts, NEW p \in Users, Tr!MentionsBot(p)
  PROVE  \E words \in Words, rest \in Tr!AllParts :
           /\ Tr!Mention(p, words, rest)
           /\ Tr!Text(Tr!Part(p, words), rest, TRUE) \in Tr!AllTexts
           /\ Authors(Tr!Text(Tr!Part(p, words), rest, TRUE)) \subseteq Authors(text) \cup {p}
<1>1. PICK words \in Words, rest \in Tr!Rests(p) \cup {text.rest} : Tr!Mention(p, words, rest)
  BY DEF Tr!MentionsBot
<1>2. rest \in Tr!AllParts /\ rest.by \in {p, Tr!Nobody, text.rest.by}
  BY DEF Tr!Rests, Tr!AllParts, Tr!NoPart, Tr!Part, Tr!AllTexts
<1>3. Tr!Part(p, words) \in Tr!AllParts /\ Tr!Part(p, words).by = p
  BY DEF Tr!AllParts, Tr!Part
<1>4. /\ Tr!Text(Tr!Part(p, words), rest, TRUE) \in Tr!AllTexts
      /\ Authors(Tr!Text(Tr!Part(p, words), rest, TRUE)) \subseteq Authors(text) \cup {p}
  BY <1>2, <1>3 DEF Tr!AllTexts, Tr!Text, Authors
<1> QED BY <1>1, <1>2, <1>4

LEMMA TriggerNext ==
  ASSUME TriggerInv, [Tr!Next]_triggerVars
  PROVE  TriggerInv'
<1> USE DEF TriggerTypes
<1>t. /\ TriggerTypes /\ AuthorsAreKnown /\ EvidenceIsTrue /\ BoardProves /\ DoneIsWork
      /\ LongIsProved
  BY DEF TriggerInv
<1>1. CASE UNCHANGED triggerVars
  BY <1>1, <1>t, TextChanged DEF triggerVars, AuthorsAreKnown, EvidenceIsTrue, Written
<1>2. ASSUME NEW p \in Users, Tr!Join(p) \/ Tr!Leave(p) PROVE TriggerInv'
  <2>1. /\ UNCHANGED <<text, notified, done, work, look, wrote, refused>>
        /\ left \subseteq left' /\ members \cup left \subseteq members' \cup left'
    BY <1>2 DEF Tr!Join, Tr!Leave, Tr!past
  <2>2. Authors(text') \cup Authors(look.text) \subseteq members' \cup left'
    BY <1>t, <2>1 DEF AuthorsAreKnown
  <2>3. Written(notified.evidence)'
    BY <1>t, <2>1 DEF EvidenceIsTrue, Written
  <2> QED BY <1>t, <2>1, <2>2, <2>3, TextChanged
<1>4. ASSUME NEW p \in Users, Tr!Edits(p) PROVE TriggerInv'
  <2>1. PICK new \in Tr!AllTexts :
          Tr!Edit(p, new) /\ Authors(new) \subseteq Authors(text) \cup {p}
    BY <1>4, <1>t, EditIs
  <2>2. /\ text' = new /\ p \in members
        /\ UNCHANGED <<members, notified, done, work, look, wrote, left, refused>>
    BY <2>1 DEF Tr!Edit, Tr!past
  <2>3. Written(notified.evidence)'
    BY <1>t, <2>2 DEF EvidenceIsTrue, Written
  <2> QED BY <2>1, <2>2, <2>3, <1>t, TextChanged DEF AuthorsAreKnown
<1>5. ASSUME NEW p \in Users, Tr!MentionsBot(p) PROVE TriggerInv'
  <2>1. PICK words \in Words, rest \in Tr!AllParts :
           /\ Tr!Mention(p, words, rest)
           /\ Tr!Text(Tr!Part(p, words), rest, TRUE) \in Tr!AllTexts
           /\ Authors(Tr!Text(Tr!Part(p, words), rest, TRUE)) \subseteq Authors(text) \cup {p}
    BY <1>5, <1>t, MentionIs
  <2> DEFINE new == Tr!Text(Tr!Part(p, words), rest, TRUE)
  <2>2. /\ text' = new /\ p \in members
        /\ UNCHANGED <<members, done, work, look, left, refused>>
        /\ wrote' = wrote \cup {<<p, words>>}
        /\ notified' = [unread |-> TRUE,
                        evidence |-> Tr!Evidence(p, words, rest # Tr!NoPart)]
    BY <2>1 DEF Tr!Mention
  <2>3. /\ notified' \in [unread : BOOLEAN, evidence : Evidences]
        /\ Written(notified.evidence)'
    BY <2>2 DEF Evidences, Tr!Evidence, Written
  <2>4. Authors(text') \cup Authors(look.text) \subseteq members' \cup left'
    BY <1>t, <2>1, <2>2 DEF AuthorsAreKnown
  <2> QED BY <2>1, <2>2, <2>3, <2>4, <1>t, TextChanged
<1>6. CASE Tr!OtherEvent
  <2>1. /\ notified' \in [unread : BOOLEAN, evidence : Evidences]
        /\ Written(notified.evidence)'
        /\ UNCHANGED <<text, members, done, work, look, wrote, left, refused>>
    BY <1>6, NothingIsText DEF Tr!OtherEvent, Written, Tr!past
  <2> QED BY <2>1, <1>t, TextChanged DEF AuthorsAreKnown
<1>7. CASE Tr!BeginScan
  <2>1. /\ look' = [Tr!NoLook EXCEPT !.at = "card", !.evidence = notified.evidence]
        /\ UNCHANGED <<text, members, notified, done, work, wrote, left, refused>>
    BY <1>7 DEF Tr!BeginScan, Tr!past
  <2>2. /\ look' \in Looks /\ Authors(look'.text) = {} /\ ~look'.trustedBoard
        /\ look'.at = "card" /\ look'.evidence = notified.evidence
    BY <2>1, <1>t, NothingLooked DEF Looks
  <2>3. BoardProves' /\ LongIsProved' /\ Written(notified'.evidence) /\ Written(look'.evidence)
    BY <1>t, <2>1, <2>2 DEF BoardProves, LongIsProved, EvidenceIsTrue
  <2> QED BY <1>t, <2>1, <2>2, <2>3, Looked
<1>8. CASE Tr!ReadCard
  <2>1. /\ look' \in Looks /\ look'.text = text /\ ~look'.trustedBoard
        /\ look'.evidence = look.evidence
        /\ look'.at = IF Tr!LongDescriptionMention(look.evidence, text)
                      THEN "members" ELSE "record"
        /\ UNCHANGED <<text, members, notified, done, work, wrote, left, refused>>
    BY <1>8, <1>t DEF Tr!ReadCard, Looks, BoardProves, Tr!past
  <2>2. BoardProves' /\ LongIsProved' /\ Written(notified'.evidence) /\ Written(look'.evidence)
    BY <1>t, <2>1 DEF BoardProves, LongIsProved, EvidenceIsTrue
  <2> QED BY <1>t, <2>1, <2>2, Looked DEF AuthorsAreKnown
<1>9. CASE Tr!ReadMembers
  <2> DEFINE trusted == Tr!OnlyTrustedMembers(members)
  <2>1. /\ look' \in Looks /\ look'.text = look.text /\ look'.trustedBoard = trusted
        /\ look'.at = IF trusted \/ Tr!NoticeId(look.text) \in done
                      THEN "record" ELSE "notice"
        /\ look'.evidence = look.evidence
        /\ UNCHANGED <<text, members, notified, done, work, wrote, left, refused>>
    BY <1>9, <1>t DEF Tr!ReadMembers, Looks, Tr!OnlyTrustedMembers, Tr!past
  <2>2. trusted => Authors(look.text) \subseteq TrustedUsers \cup left
    BY <1>t DEF AuthorsAreKnown, Tr!OnlyTrustedMembers
  <2>3. BoardProves' /\ LongIsProved'
    BY <2>1, <2>2 DEF BoardProves, LongIsProved, Authors, Tr!NoticeId, Tr!Said
  <2>4. Written(notified'.evidence) /\ Written(look'.evidence)
    BY <1>t, <2>1 DEF EvidenceIsTrue
  <2> QED BY <1>t, <2>1, <2>3, <2>4, Looked DEF AuthorsAreKnown
<1>10. CASE Tr!PostNotice
  <2>1. /\ look' \in Looks /\ look'.text = look.text /\ look'.at = "saveNotice"
        /\ look'.trustedBoard = look.trustedBoard /\ look'.evidence = look.evidence
        /\ UNCHANGED <<text, members, notified, done, work, wrote, left, refused>>
    BY <1>10, <1>t DEF Tr!PostNotice, Tr!Goto, Looks, Tr!past
  <2>2. BoardProves' /\ LongIsProved' /\ Written(notified'.evidence) /\ Written(look'.evidence)
    BY <1>t, <2>1 DEF BoardProves, LongIsProved, EvidenceIsTrue, Authors
  <2> QED BY <1>t, <2>1, <2>2, Looked DEF AuthorsAreKnown, Authors
<1>11. CASE Tr!SaveNotice
  <2>1. /\ look' \in Looks /\ look'.text = look.text /\ look'.at = "record"
        /\ look'.trustedBoard = look.trustedBoard /\ look'.evidence = look.evidence
        /\ done' = done \cup {Tr!NoticeId(look.text)}
        /\ UNCHANGED <<text, members, notified, work, wrote, left, refused>>
    BY <1>11, <1>t DEF Tr!SaveNotice, Tr!Goto, Looks, Tr!past
  <2>2. \A t : Tr!DescriptionId(t) # Tr!NoticeId(look.text)
    BY DEF Tr!DescriptionId, Tr!NoticeId
  <2>3. Tr!NoticeId(look'.text) \in done'
    BY <2>1 DEF Tr!NoticeId, Tr!Said
  <2>4. BoardProves' /\ LongIsProved' /\ Written(notified'.evidence) /\ Written(look'.evidence)
    BY <1>t, <2>1, <2>3 DEF BoardProves, LongIsProved, EvidenceIsTrue, Authors
  <2> QED BY <1>t, <2>1, <2>2, <2>4, Looked DEF AuthorsAreKnown, Authors
<1>12. CASE Tr!Record
  <2>1. PICK t, person : t = look.text /\ person = look.evidence.mentioner
    OBVIOUS
  <2>2. /\ look' \in Looks /\ look'.text = t /\ look'.at = "mark"
        /\ look'.evidence = look.evidence /\ look'.trustedBoard = look.trustedBoard
        /\ t \in Tr!AllTexts /\ person \in Users \cup {Tr!Nobody}
    BY <1>12, <1>t, <2>1 DEF Tr!Record, Tr!Goto, Looks, Evidences
  <2>3. /\ UNCHANGED <<text, members, notified, wrote, left>>
        /\ \/ /\ Tr!IsTrigger(look) /\ done' = done \cup {Tr!DescriptionId(t)}
              /\ person \in TrustedUsers /\ work' = work \cup {t} /\ refused' = refused
           \/ /\ Tr!IsTrigger(look) /\ done' = done \cup {Tr!DescriptionId(t)}
              /\ person \notin TrustedUsers /\ work' = work
              /\ refused' = refused \cup {<<person, Tr!Said(t)>>}
           \/ /\ ~ Tr!IsTrigger(look)
              /\ UNCHANGED <<done, work, refused>>
    BY <1>12, <2>1 DEF Tr!Record, Tr!IsTrusted
  <2>4. ASSUME Tr!IsTrigger(look)
        PROVE  /\ person \in Users /\ <<person, t.start.words>> \in wrote
               /\ Tr!Long(t) => t.rest.by \in TrustedUsers \cup left
    <3>1. Tr!HasText(look.evidence, t) /\ (Tr!Long(t) => look.trustedBoard)
      BY <2>1, <2>4 DEF Tr!IsTrigger, Tr!ProvesAll, Tr!ProvesStartOf
    <3>2. person \in Users /\ <<person, t.start.words>> \in wrote
      BY <1>t, <2>1, <2>2, <3>1 DEF Tr!HasText, EvidenceIsTrue, Written
    <3>3. Tr!Long(t) => t.rest.by # Tr!Nobody
      BY <2>2, TriggersAssumption DEF Tr!Long, Tr!AllTexts, Tr!AllParts
    <3> QED BY <1>t, <2>1, <3>1, <3>2, <3>3 DEF BoardProves, Authors
  <2>5. Tr!WorkIsProven'
    BY <2>3, <2>4 DEF TriggerInv, Tr!WorkIsProven
  <2>6. ASSUME NEW u \in Tr!AllTexts, Tr!DescriptionId(u) \in done'
        PROVE  IsWork(u)' \/ Tr!RefusedBefore(u)'
    <3>1. work \subseteq work' /\ refused \subseteq refused'
      BY <2>3
    <3>2. CASE Tr!DescriptionId(u) \in done
      BY <1>t, <3>1, <3>2 DEF DoneIsWork, IsWork, Tr!RefusedBefore
    <3>3. CASE Tr!IsTrigger(look) /\ Tr!DescriptionId(u) = Tr!DescriptionId(t)
      <4>1. Tr!Said(u) = Tr!Said(t) /\ person \in Users
        BY <2>4, <3>3 DEF Tr!DescriptionId
      <4> QED BY <2>3, <3>3, <4>1 DEF IsWork, Tr!RefusedBefore
    <3> QED BY <2>3, <2>6, <3>2, <3>3
  <2>7. DoneIsWork'
    BY <2>6 DEF DoneIsWork, Tr!DescriptionId, Tr!Said
  <2>8. ASSUME person \in TrustedUsers, Tr!HasText(look.evidence, t), t.mention,
               Tr!Long(t) = look.evidence.long
        PROVE  IsWork(t)' \/ Tr!RefusedBefore(t)' \/ Tr!NoticeId(t) \in done'
    <3>1. Tr!IsTrigger(look) \/ Tr!DescriptionId(t) \in done \/ Tr!NoticeId(t) \in done
      BY <1>12, <1>t, <2>1, <2>8
         DEF Tr!Record, LongIsProved, Tr!LongDescriptionMention, Tr!IsTrusted,
             Tr!ProvesStartOf, Tr!ProvesAll, Tr!IsTrigger
    <3>2. Tr!DescriptionId(t) \in done' \/ Tr!NoticeId(t) \in done'
      BY <2>3, <3>1
    <3> QED BY <2>2, <2>6, <3>2
  <2>9. Tr!MentionGetsWorkOrNotice'
    BY <2>1, <2>2, <2>8
       DEF Tr!MentionGetsWorkOrNotice, Tr!IsTrusted, Tr!HasText, Tr!Long, IsWork,
           Tr!NoticeId, Tr!Said, Tr!RefusedBefore
  <2>10. (TriggerTypes /\ AuthorsAreKnown /\ EvidenceIsTrue /\ BoardProves /\ LongIsProved)'
    BY <1>t, <2>1, <2>2, <2>3
       DEF AuthorsAreKnown, EvidenceIsTrue, Written, BoardProves, LongIsProved, Authors
  <2> QED BY <2>5, <2>7, <2>9, <2>10 DEF TriggerInv
<1>13. CASE Tr!Mark
  <2>1. /\ notified' \in [unread : BOOLEAN, evidence : Evidences]
        /\ notified'.evidence = notified.evidence /\ look' = Tr!NoLook
        /\ UNCHANGED <<text, members, done, work, wrote, left, refused>>
    BY <1>13, <1>t DEF Tr!Mark, Tr!past
  <2>2. Written(notified'.evidence) /\ Written(look'.evidence)
    BY <1>t, <2>1, NothingLooked DEF EvidenceIsTrue, Written
  <2> QED BY <2>1, <2>2, <1>t, NothingLooked, Looked DEF BoardProves, LongIsProved
<1>14. CASE Tr!ScanFails
  <2>1. /\ look' = Tr!NoLook
        /\ UNCHANGED <<text, members, notified, done, work, wrote, left, refused>>
    BY <1>14 DEF Tr!ScanFails, Tr!past
  <2>2. Written(notified'.evidence) /\ Written(look'.evidence)
    BY <1>t, <2>1, NothingLooked DEF EvidenceIsTrue, Written
  <2> QED BY <2>1, <2>2, <1>t, NothingLooked, Looked DEF BoardProves, LongIsProved
<1> QED BY <1>1, <1>2, <1>4, <1>5, <1>6, <1>7, <1>8, <1>9, <1>10, <1>11, <1>12,
           <1>13, <1>14 DEF Tr!Next

LEMMA TriggerAlways == PartsSpec => []TriggerInv
<1>1. PartsInit => TriggerInv
  BY TriggerInit DEF PartsInit
<1>2. TriggerInv /\ [PartsNext]_partsVars => TriggerInv'
  BY TriggerNext DEF PartsNext, partsVars
<1> QED BY <1>1, <1>2, PTL DEF PartsSpec

\* Whoever edits the description, joins the board or leaves it while a scan runs,
\* a text that was queued has the words that a trusted person wrote with a mention,
\* and what is more than a notification shows is by a trusted person or by one who
\* left the board: the members are asked for after the text was read (checkCard of
\* daemon.go, triggers.go).
THEOREM OnlyProvedWork == PartsSpec => []WorkIsProven
<1>1. TriggerInv => WorkIsProven
  BY DEF TriggerInv, WorkIsProven
<1> QED BY <1>1, TriggerAlways, PTL

\* The README says that a board of trusted people shows that only trusted people
\* can have edited a long description, which the run triggers_removed refutes.  As
\* long as nobody who is not trusted leaves the board, it is true: each rest of a
\* text that was queued is by a trusted person.
THEOREM OnlyRemovalHidesAuthor ==
  PartsSpec /\ [](left \subseteq TrustedUsers) => []Tr!OnlyTrustedEdited
<1>1. TriggerInv /\ left \subseteq TrustedUsers => Tr!OnlyTrustedEdited
  BY DEF TriggerInv, Tr!WorkIsProven, Tr!OnlyTrustedEdited
<1> QED BY <1>1, TriggerAlways, PTL

\* When a scan ends well, the mention of a trusted person that is still there is
\* work or has its notice, whatever failed before, or somebody who is not trusted
\* was refused with the very same words: a text that is done is one or the other,
\* and a long one is proved by the board or has its notice (checkCard,
\* descriptionID and explainLongDescription of triggers.go).
THEOREM WorkOrNotice == PartsSpec => []MentionGetsWorkOrNotice
<1>1. TriggerInv => MentionGetsWorkOrNotice
  BY DEF TriggerInv, MentionGetsWorkOrNotice
<1> QED BY <1>1, TriggerAlways, PTL
-----------------------------------------------------------------------------
(* Why a mention in a description can be lost: its notification is replaced, *)
(* or read too early                                                         *)

\* The notification that a description with a mention gets.
OwnEvidence(t) == Tr!Evidence(t.start.by, t.start.words, Tr!Long(t))

\* Events come one by one: a new text has its notification, and there is none
\* while another one is unread or is scanned.
OneByOne ==
  /\ text' # text =>
       notified' = [unread |-> TRUE, evidence |-> OwnEvidence(text')]
  /\ text' # text \/ (notified' # notified /\ notified'.unread) =>
       look.at = "idle" /\ ~notified.unread

ShortMention(t) == t.mention /\ ~Tr!Long(t) /\ Tr!IsTrusted(t.start.by)

\* The words are work, or were refused.
IsOver(t) == IsWork(t) \/ Tr!RefusedBefore(t)

\* The scan has the evidence and the text that are there, and a mention that is
\* not over has a notification that proves it, up to the mark of the scan.
StillProved ==
  /\ look.at # "idle" => notified.unread /\ look.evidence = notified.evidence
  /\ look.at \notin {"idle", "card"} => look.text = text
  /\ ShortMention(text) =>
       \/ IsOver(text)
       \/ /\ notified.unread /\ look.at # "mark"
          /\ notified.evidence = OwnEvidence(text)

\* Fizzy, between two scans or beside one that it leaves alone.
LEMMA EventKeepsProof ==
  ASSUME TriggerInv, StillProved, OneByOne, UNCHANGED <<look, work, refused>>,
         notified'.unread \/ notified' = notified
  PROVE  StillProved'
<1>1. CASE text' # text
  <2>1. /\ look.at = "idle"
        /\ notified' = [unread |-> TRUE, evidence |-> OwnEvidence(text')]
    BY <1>1 DEF OneByOne
  <2> QED BY <2>1 DEF StillProved, OwnEvidence, Tr!Long
<1>2. CASE text' = text /\ notified' # notified
  <2>1. look.at = "idle" /\ ~notified.unread
    BY <1>2 DEF OneByOne
  <2>2. ShortMention(text)' => IsOver(text)'
    BY <1>2, <2>1 DEF StillProved, ShortMention, IsOver, IsWork, Tr!RefusedBefore
  <2> QED BY <2>1, <2>2 DEF StillProved
<1>3. CASE text' = text /\ notified' = notified
  BY <1>3 DEF StillProved, ShortMention, IsOver, IsWork, Tr!RefusedBefore, OwnEvidence
<1> QED BY <1>1, <1>2, <1>3

\* A step that leaves the text, its notification and what is over.
LEMMA SameProof ==
  ASSUME StillProved, UNCHANGED <<text, notified>>, work \subseteq work',
         refused \subseteq refused',
         look'.at # "idle" => notified.unread /\ look'.evidence = notified.evidence,
         look'.at \notin {"idle", "card"} => look'.text = text,
         look'.at = "mark" => look.at = "mark"
  PROVE  StillProved'
<1>1. IsOver(text) => IsOver(text)'
  BY DEF IsOver, IsWork, Tr!RefusedBefore
<1> QED BY <1>1 DEF StillProved, ShortMention, OwnEvidence

LEMMA StillProvedNext ==
  ASSUME TriggerInv, StillProved, OneByOne, [Tr!Next]_triggerVars
  PROVE  StillProved'
<1>t. TriggerTypes /\ DoneIsWork
  BY DEF TriggerInv
<1>1. CASE UNCHANGED triggerVars
  BY <1>1, SameProof DEF triggerVars, StillProved
<1>2. ASSUME \/ \E p \in Users : \/ Tr!Join(p) \/ Tr!Leave(p)
                                 \/ Tr!Edits(p) \/ Tr!MentionsBot(p)
             \/ Tr!OtherEvent
      PROVE  StillProved'
  <2>1. ASSUME NEW p \in Users, NEW new, Tr!Edit(p, new) PROVE StillProved'
    BY <2>1, EventKeepsProof DEF Tr!Edit, Tr!past
  <2>2. ASSUME NEW p \in Users, Tr!MentionsBot(p) PROVE StillProved'
    <3>1. PICK words \in Words, rest \in Tr!AllParts : Tr!Mention(p, words, rest)
      BY <1>t, <2>2, MentionIs DEF TriggerTypes
    <3>2. UNCHANGED <<look, work, refused>> /\ notified'.unread
      BY <3>1 DEF Tr!Mention
    <3> QED BY <3>2, EventKeepsProof
  <2>3. CASE Tr!OtherEvent
    BY <2>3, EventKeepsProof DEF Tr!OtherEvent, Tr!past
  <2>4. ASSUME NEW p \in Users, Tr!Join(p) \/ Tr!Leave(p) PROVE StillProved'
    BY <2>4, EventKeepsProof DEF Tr!Join, Tr!Leave, Tr!past
  <2>5. ASSUME NEW p \in Users, Tr!Edits(p) PROVE StillProved'
    BY <1>t, <2>1, <2>5, EditIs DEF TriggerTypes
  <2> QED BY <1>2, <2>2, <2>3, <2>4, <2>5
<1>3. CASE Tr!BeginScan
  <2>1. /\ look.at = "idle" /\ notified.unread /\ UNCHANGED <<text, notified, work, refused>>
        /\ look'.at = "card" /\ look'.evidence = notified.evidence
    BY <1>3, NothingLooked DEF Tr!BeginScan, Tr!NoLook, Tr!past
  <2> QED BY <2>1, SameProof
<1>4. ASSUME Tr!ReadCard \/ Tr!ReadMembers \/ Tr!PostNotice \/ Tr!SaveNotice
      PROVE  StillProved'
  <2>0. look \in Looks
    BY <1>t DEF TriggerTypes
  <2>1. /\ look.at # "idle" /\ UNCHANGED <<text, notified, work, refused>>
        /\ look'.evidence = look.evidence
        /\ look'.text = text
        /\ look'.at \in {"members", "notice", "saveNotice", "record"}
    <3>1. CASE Tr!ReadCard
      BY <2>0, <3>1 DEF Tr!ReadCard, Looks, Tr!past
    <3>2. CASE Tr!ReadMembers
      BY <2>0, <3>2 DEF Tr!ReadMembers, Looks, StillProved, Tr!past
    <3>3. CASE Tr!PostNotice \/ Tr!SaveNotice
      BY <2>0, <3>3 DEF Tr!PostNotice, Tr!SaveNotice, Tr!Goto, Looks, StillProved, Tr!past
    <3> QED BY <1>4, <3>1, <3>2, <3>3
  <2>2. notified.unread /\ look.evidence = notified.evidence
    BY <2>1 DEF StillProved
  <2> QED BY <2>1, <2>2, SameProof
<1>5. CASE Tr!Record
  <2>1. /\ look.at = "record" /\ UNCHANGED <<text, notified>>
        /\ look'.evidence = look.evidence /\ look'.text = look.text /\ look'.at = "mark"
        /\ look.text = text /\ notified.unread /\ look.evidence = notified.evidence
        /\ work \subseteq work' /\ refused \subseteq refused'
        /\ Tr!IsTrigger(look) /\ Tr!IsTrusted(look.evidence.mentioner)
             => look.text \in work'
    BY <1>5, <1>t DEF Tr!Record, Tr!Goto, TriggerTypes, Looks, StillProved
  <2>2. IsOver(text) => IsOver(text)'
    BY <2>1 DEF IsOver, IsWork, Tr!RefusedBefore
  <2>3. ASSUME ShortMention(text), ~ IsOver(text) PROVE IsOver(text)'
    <3>1. /\ look.evidence.mentioner = text.start.by /\ ~look.evidence.long
          /\ look.evidence.body = text.start.words
          /\ text.start.by \in TrustedUsers /\ text.start.by # Tr!Nobody
      BY <2>1, <2>3, TriggersAssumption
         DEF StillProved, ShortMention, Tr!Evidence, Tr!IsTrusted, OwnEvidence
    <3>2. Tr!ProvesAll(look.evidence, look.text) /\ look.text.mention
      BY <2>1, <2>3, <3>1 DEF Tr!ProvesAll, Tr!HasText, ShortMention
    <3>3. Tr!DescriptionId(look.text) \notin done
      BY <1>t, <2>1, <2>3 DEF DoneIsWork, TriggerTypes, IsOver
    <3>4. text \in work'
      BY <2>1, <3>1, <3>2, <3>3 DEF Tr!IsTrigger, Tr!IsTrusted
    <3> QED BY <2>1, <3>4 DEF IsOver, IsWork, Tr!Said
  <2> QED BY <2>1, <2>2, <2>3 DEF StillProved, ShortMention
<1>6. CASE Tr!Mark
  <2>1. look.at = "mark" /\ UNCHANGED <<text, work, refused>> /\ look'.at = "idle"
    BY <1>6, NothingLooked DEF Tr!Mark, Tr!past
  <2>2. ShortMention(text)' => IsOver(text)'
    BY <2>1 DEF StillProved, ShortMention, IsOver, IsWork, Tr!RefusedBefore
  <2> QED BY <2>1, <2>2 DEF StillProved
<1>7. CASE Tr!ScanFails
  <2>1. UNCHANGED <<text, notified, work, refused>> /\ look'.at = "idle"
    BY <1>7, NothingLooked DEF Tr!ScanFails, Tr!past
  <2> QED BY <2>1, SameProof
<1> QED BY <1>1, <1>2, <1>3, <1>4, <1>5, <1>6, <1>7 DEF Tr!Next

\* daemon.go says of handleNotification that a later event cannot hide a mention,
\* which the run triggers_window refutes for descriptions.  When events come one
\* by one and no edit goes without one, it is true: whatever fails, joins or
\* leaves meanwhile, a short mention of a trusted person is work when the
\* notification is read and no scan runs, but for words that were refused before.
THEOREM OnlyOverlapHidesMention ==
  PartsSpec /\ [][OneByOne]_partsVars
    => [](Tr!DescriptionMentionKept \/ Tr!RefusedBefore(text))
<1>1. PartsInit => StillProved
  BY NothingLooked
     DEF PartsInit, Tr!Init, StillProved, ShortMention, Tr!NoText, Tr!Text
<1>2. TriggerInv /\ StillProved /\ [PartsNext]_partsVars /\ [OneByOne]_partsVars
        => StillProved'
  <2> SUFFICES ASSUME TriggerInv, StillProved, [PartsNext]_partsVars, [OneByOne]_partsVars
               PROVE  StillProved'
    OBVIOUS
  <2>1. [Tr!Next]_triggerVars
    BY DEF PartsNext, partsVars
  <2>2. CASE OneByOne
    BY <2>1, <2>2, StillProvedNext
  <2>3. CASE UNCHANGED partsVars
    BY <2>3, SameProof DEF partsVars, triggerVars, StillProved
  <2> QED BY <2>2, <2>3
<1>3. StillProved => Tr!DescriptionMentionKept \/ Tr!RefusedBefore(text)
  BY DEF StillProved, ShortMention, Tr!DescriptionMentionKept, IsOver, IsWork
<1> QED BY <1>1, <1>2, <1>3, TriggerAlways, PTL DEF PartsSpec
==============================================================================
