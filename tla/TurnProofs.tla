------------------------------ MODULE TurnProofs ------------------------------
(***************************************************************************)
(* Proofs about a turn: the hook and its check (Hook), the tools that      *)
(* change cards (CardTools), and the run of Claude (ClaudeRun): what the   *)
(* parser knows is always a function of the events that it read, so that   *)
(* the outcome of the turn is one of the stream.                           *)
(***************************************************************************)
EXTENDS Parts, FiniteSetTheorems, SequenceTheorems, WellFoundedInduction, TLAPS

-----------------------------------------------------------------------------
(* Hook: what the turn takes gets to Claude *)

\* The part of TypeOK that the proof needs.
HookTypes ==
  /\ hook \in [Hooks -> Ho!HookRecord]
  /\ toGive \subseteq Items
  /\ batch \in [Hooks -> SUBSET Items]

\* How long a hook with the record r and the items b waited at most, at each
\* step of its check.
InTime(r, b) ==
  /\ r.at \in {"idle", "sent"} => r.spent = 0
  /\ r.at = "idle" => r.waited = 0
  /\ r.at = "sent" => r.waited <= Transit
  /\ r.at \in {"waits", "reads"} /\ r.spent < Ho!CheckBudget =>
       r.waited <= r.spent + Transit
  /\ r.at = "answered" =>
       r.moving <= Transit /\ (b # {} => r.waited < Ho!CheckBudget + Transit + r.moving)
  /\ r.gone => r.waited = CheckWait

AllInTime == \A h \in Hooks : InTime(hook[h], batch[h])

HookInv == HookTypes /\ AllInTime

LEMMA BudgetIs ==
         /\ Ho!CheckBudget \in Nat /\ Ho!CheckBudget > 0 /\ Ho!CheckBudget + 3 = CheckWait
         /\ Transit \in Nat /\ Transit <= 1
BY HookAssumption DEF Ho!CheckBudget

LEMMA IdleHook ==
         Ho!Idle \in Ho!HookRecord /\ \A b : InTime(Ho!Idle, b)
<1>1. 0 \in Ho!Clock
  BY HookAssumption DEF Ho!Clock
<1> QED BY <1>1, BudgetIs DEF Ho!Idle, Ho!HookRecord, InTime

\* The invariant gives the property: an answer that has items comes in less than
\* the budget and the way of two messages.
LEMMA HookInvImplies ==
  ASSUME HookInv
  PROVE  Ho!TakenIsDelivered
<1> SUFFICES ASSUME NEW h \in Hooks, Ho!At(h, "answered"), hook[h].gone, batch[h] # {}
             PROVE  FALSE
  BY DEF Ho!TakenIsDelivered
<1>1. hook[h] \in Ho!HookRecord /\ InTime(hook[h], batch[h])
  BY DEF HookInv, HookTypes, AllInTime
<1>2. hook[h].moving \in Nat /\ hook[h].moving <= Transit
      /\ CheckWait < Ho!CheckBudget + Transit + hook[h].moving
  BY <1>1 DEF Ho!At, InTime, Ho!HookRecord, Ho!Clock
<1> QED BY <1>2, BudgetIs

-----------------------------------------------------------------------------
(* The steps *)

\* The step changes the record and the items of hook h only.
LEMMA OneHook ==
  ASSUME HookInv, NEW h \in Hooks, NEW r \in Ho!HookRecord, NEW b \in SUBSET Items,
         toGive' \subseteq Items,
         hook' = [hook EXCEPT ![h] = r], batch' = [batch EXCEPT ![h] = b], InTime(r, b)
  PROVE  HookInv'
<1>1. HookTypes'
  BY DEF HookInv, HookTypes
<1>2. ASSUME NEW g \in Hooks PROVE InTime(hook'[g], batch'[g])
  BY DEF HookInv, HookTypes, AllInTime
<1>3. AllInTime'
  BY <1>2 DEF AllInTime, InTime
<1> QED BY <1>1, <1>3 DEF HookInv

LEMMA CheckInv ==
  ASSUME HookInv, NEW h \in Hooks, Ho!Check(h)
  PROVE  HookInv'
<1> DEFINE r == hook[h]
<1>0. /\ r \in Ho!HookRecord /\ InTime(r, batch[h]) /\ batch[h] \in SUBSET Items
      /\ toGive \in SUBSET Items
      /\ hook \in [Hooks -> Ho!HookRecord] /\ batch \in [Hooks -> SUBSET Items]
      /\ r.waited \in Nat /\ r.spent \in Nat /\ r.moving \in Nat /\ 0 \in Ho!Clock
  BY HookAssumption DEF HookInv, HookTypes, AllInTime, Ho!HookRecord, Ho!Clock
<1>00. batch = [batch EXCEPT ![h] = batch[h]]
  BY <1>0
<1>1. CASE Ho!Send(h)
  <2>1. [r EXCEPT !.at = "sent"] \in Ho!HookRecord
        /\ InTime([r EXCEPT !.at = "sent"], batch[h])
    BY <1>0, <1>1, BudgetIs DEF Ho!Send, Ho!At, Ho!HookRecord, InTime
  <2> QED BY <1>0, <1>00, <1>1, <2>1, OneHook DEF Ho!Send, Ho!Goto
<1>2. CASE Ho!Receive(h)
  <2>1. [r EXCEPT !.at = "waits"] \in Ho!HookRecord
        /\ InTime([r EXCEPT !.at = "waits"], batch[h])
    BY <1>0, <1>2, BudgetIs DEF Ho!Receive, Ho!At, Ho!HookRecord, InTime
  <2> QED BY <1>0, <1>00, <1>2, <2>1, OneHook DEF Ho!Receive, Ho!Goto
<1>3. ASSUME NEW b \in SUBSET Items, r.at \in {"waits", "reads"},
             b = {} \/ r.spent < Ho!CheckBudget
      PROVE  /\ [r EXCEPT !.at = "answered", !.moving = 0] \in Ho!HookRecord
             /\ InTime([r EXCEPT !.at = "answered", !.moving = 0], b)
  <2> DEFINE a == [r EXCEPT !.at = "answered", !.moving = 0]
  <2>1. /\ a \in Ho!HookRecord /\ a.at = "answered" /\ a.moving = 0
        /\ a.gone = r.gone /\ a.waited = r.waited
    BY <1>0 DEF Ho!HookRecord
  <2>2. b # {} => r.waited <= r.spent + Transit /\ r.spent < Ho!CheckBudget
    BY <1>0, <1>3 DEF InTime
  <2>3. r.gone => r.waited = CheckWait
    BY <1>0 DEF InTime
  <2> HIDE DEF a
  <2>4. InTime(a, b)
    BY <1>0, <2>1, <2>2, <2>3, BudgetIs DEF InTime
  <2> QED BY <2>1, <2>4 DEF a
<1>4. ASSUME NEW b \in SUBSET Items, r.at \in {"waits", "reads"},
             b = {} \/ r.spent < Ho!CheckBudget, Ho!Answer(h, b), toGive' \subseteq Items
      PROVE  HookInv'
  <2>1. hook' = [hook EXCEPT ![h] = [r EXCEPT !.at = "answered", !.moving = 0]]
    BY <1>0, <1>4 DEF Ho!Answer
  <2> QED BY <1>3, <1>4, <2>1, OneHook DEF Ho!Answer
<1>5. CASE Ho!Lock(h)
  <2>1. CASE Ho!Expired(h) \/ toGive = {}
    BY <1>0, <1>4, <1>5, <2>1 DEF Ho!Lock, Ho!At
  <2>2. CASE ~(Ho!Expired(h) \/ toGive = {})
    <3>1. [r EXCEPT !.at = "reads"] \in Ho!HookRecord
          /\ InTime([r EXCEPT !.at = "reads"], toGive)
      BY <1>0, <1>5 DEF Ho!Lock, Ho!At, Ho!HookRecord, InTime
    <3> QED BY <1>0, <1>5, <2>2, <3>1, OneHook DEF Ho!Lock, Ho!Goto
  <2> QED BY <2>1, <2>2
<1>6. CASE Ho!Give(h)
  <2>1. r.at = "reads" /\ r.spent < Ho!CheckBudget /\ Ho!Answer(h, batch[h])
    BY <1>0, <1>6, BudgetIs DEF Ho!Give, Ho!At, Ho!Expired
  <2> QED BY <1>0, <1>4, <1>6, <2>1 DEF Ho!Give
<1>7. CASE Ho!ReadFails(h)
  BY <1>0, <1>4, <1>7 DEF Ho!ReadFails, Ho!At
<1>8. CASE Ho!Deliver(h)
  <2>1. Ho!Idle \in Ho!HookRecord /\ InTime(Ho!Idle, {})
    BY IdleHook
  <2>2. {} \in SUBSET Items
    OBVIOUS
  <2>3. /\ hook' = [hook EXCEPT ![h] = Ho!Idle] /\ batch' = [batch EXCEPT ![h] = {}]
        /\ toGive' \subseteq Items
    BY <1>0, <1>8 DEF Ho!Deliver
  <2> QED BY <2>1, <2>2, <2>3, OneHook
<1>9. CASE Ho!GiveUp(h)
  <2>1. [r EXCEPT !.gone = TRUE] \in Ho!HookRecord
    BY <1>0 DEF Ho!HookRecord
  <2>2. InTime([r EXCEPT !.gone = TRUE], batch[h])
    BY <1>0, <1>9 DEF Ho!GiveUp, Ho!HookRecord, InTime
  <2> QED BY <1>0, <1>00, <1>9, <2>1, <2>2, OneHook DEF Ho!GiveUp
<1> QED BY <1>1, <1>2, <1>5, <1>6, <1>7, <1>8, <1>9 DEF Ho!Check

LEMMA HookTick ==
  ASSUME HookInv, Ho!Tick
  PROVE  HookInv'
<1>1. ASSUME NEW h \in Hooks
      PROVE  Ho!Later(h) \in Ho!HookRecord /\ InTime(Ho!Later(h), batch[h])
  <2> DEFINE r == hook[h]
             w == Ho!Passed(~Ho!At(h, "idle"), r.waited, CheckWait)
             s == Ho!Passed(Ho!At(h, "waits") \/ Ho!At(h, "reads"), r.spent, Ho!CheckBudget)
             m == Ho!Passed(Ho!At(h, "answered"), r.moving, Transit)
  <2>1. r \in Ho!HookRecord /\ InTime(r, batch[h]) /\ ~Ho!Due(h)
    BY DEF HookInv, HookTypes, AllInTime, Ho!Tick
  <2>2. /\ r.waited \in 0..CheckWait /\ r.spent \in 0..CheckWait
        /\ r.moving \in 0..CheckWait
        /\ CheckWait \in Nat /\ Ho!CheckBudget \in Nat /\ Ho!CheckBudget < CheckWait
        /\ Transit \in Nat /\ Transit < CheckWait
    BY <2>1, BudgetIs DEF Ho!HookRecord, Ho!Clock, HookAssumption
  <2>3. /\ w \in 0..CheckWait /\ w <= r.waited + 1
        /\ r.at = "idle" => w = r.waited
        /\ r.waited = CheckWait => w = r.waited
    BY <2>2 DEF Ho!Passed, Ho!At
  <2>4. /\ s \in 0..CheckWait
        /\ r.at \in {"idle", "sent"} => s = r.spent
        /\ r.at \in {"waits", "reads"} /\ s < Ho!CheckBudget =>
             s = r.spent + 1 /\ r.spent < Ho!CheckBudget
    BY <2>2 DEF Ho!Passed, Ho!At
  <2>5. /\ m \in 0..CheckWait
        /\ r.at = "answered" => r.moving < Transit /\ m = r.moving + 1
    BY <2>1, <2>2 DEF Ho!Passed, Ho!At, Ho!Due
  <2>6. r.at = "sent" => r.waited < Transit
    BY <2>1, <2>2 DEF Ho!Due, Ho!At
  <2>7. Ho!Later(h) = [r EXCEPT !.waited = w, !.spent = s, !.moving = m]
    BY DEF Ho!Later
  <2> HIDE DEF w, s, m
  <2>8. /\ Ho!Later(h) \in Ho!HookRecord
        /\ Ho!Later(h).at = r.at /\ Ho!Later(h).gone = r.gone
        /\ Ho!Later(h).waited = w /\ Ho!Later(h).spent = s /\ Ho!Later(h).moving = m
    BY <2>1, <2>3, <2>4, <2>5, <2>7 DEF Ho!HookRecord, Ho!Clock
  <2>9. InTime(Ho!Later(h), batch[h])
    BY <2>1, <2>2, <2>3, <2>4, <2>5, <2>6, <2>8, BudgetIs DEF InTime
  <2> QED BY <2>8, <2>9
<1>2. hook' = [h \in Hooks |-> Ho!Later(h)] /\ UNCHANGED <<toGive, batch>>
  BY DEF Ho!Tick
<1>3. HookTypes'
  BY <1>1, <1>2 DEF HookInv, HookTypes
<1>4. \A h \in Hooks : InTime(hook'[h], batch'[h])
  BY <1>1, <1>2
<1>5. AllInTime'
  BY <1>4 DEF AllInTime, InTime
<1> QED BY <1>3, <1>5 DEF HookInv

LEMMA HookNext ==
  ASSUME HookInv, [Ho!Next]_hookVars
  PROVE  HookInv'
<1>1. CASE UNCHANGED <<hook, batch>> /\ toGive' \subseteq Items
  BY <1>1 DEF HookInv, HookTypes, AllInTime, InTime
<1>2. CASE UNCHANGED hookVars
  BY <1>1, <1>2 DEF hookVars, HookInv, HookTypes
<1>3. ASSUME NEW i \in Items, Ho!Arrive(i) PROVE HookInv'
  BY <1>1, <1>3 DEF Ho!Arrive, HookInv, HookTypes
<1>4. ASSUME NEW h \in Hooks, Ho!Check(h) PROVE HookInv'
  BY <1>4, CheckInv
<1>5. CASE Ho!EndTurn \/ Ho!NextTurn
  BY <1>1, <1>5 DEF Ho!EndTurn, Ho!NextTurn, HookInv, HookTypes
<1>6. CASE Ho!Tick
  BY <1>6, HookTick
<1> QED BY <1>2, <1>3, <1>4, <1>5, <1>6 DEF Ho!Next

LEMMA HookAlways == PartsSpec => []HookInv
<1>1. PartsInit => HookInv
  BY IdleHook DEF PartsInit, Ho!Init, HookInv, HookTypes, AllInTime
<1>2. HookInv /\ [PartsNext]_partsVars => HookInv'
  BY HookNext DEF PartsNext, partsVars
<1> QED BY <1>1, <1>2, PTL DEF PartsSpec

\* No answer with items comes to a hook that stopped its wait, for any number of
\* hooks that wait for each other at checkMu and any wait from four seconds on,
\* when a message takes one second at most (check of check.go, SendAndWait of
\* ipc.go).
THEOREM AllTakenDelivered == PartsSpec => []TakenIsDelivered
<1>1. HookInv => TakenIsDelivered
  BY HookInvImplies DEF TakenIsDelivered
<1> QED BY <1>1, HookAlways, PTL

-----------------------------------------------------------------------------
(* CardTools: what a tool says of a card is so *)

\* A call that is no NoCall has these fields.
CallRecord(r) ==
  /\ r = [at |-> r.at, tool |-> r.tool, target |-> r.target, disturbed |-> r.disturbed]
  /\ r.at \in {"sends", "done", "noChange"}
  /\ r.tool \in ToolCalls /\ r.disturbed \in BOOLEAN

\* What a tool can change at all.
Aims(r) ==
  /\ Ct!Moves(r.tool) => r.target \in Spots
  /\ r.tool.kind \in {"close", "reopen"} => r.target = "closed"

\* The card is as Claude wants it.
AsWanted(r) ==
  /\ Ct!Moves(r.tool) => spot[r.tool.card] = r.target
  /\ Ct!Posts(r.tool) => posts > 0
  /\ ~Ct!Moves(r.tool) /\ ~Ct!Posts(r.tool) =>
       (r.target \in facts[r.tool.card] <=> Ct!Wants(r.tool))

\* A toggle that nobody disturbed will make the card so, and one that was sent,
\* or that needed no change, did.
CallKept(r) ==
  ~r.disturbed =>
    /\ r.at = "sends" /\ Ct!Toggles(r.tool) => ~AsWanted(r)
    /\ r.at # "sends" => AsWanted(r)

CallOk(r) == r = Ct!NoCall \/ (CallRecord(r) /\ Aims(r) /\ CallKept(r))

ToolTypes ==
  /\ facts = [c \in Targets |-> facts[c]] /\ spot = [c \in Targets |-> spot[c]]
  /\ posts \in Nat
  /\ call = [k \in Callers |-> call[k]]

ToolInv == ToolTypes /\ \A k \in Callers : CallOk(call[k])

LEMMA ToolKinds ==
  ASSUME NEW tool \in ToolCalls
  PROVE  /\ tool.card \in Targets /\ tool.kind \in Ct!Kinds
         /\ Ct!Toggles(tool) => ~Ct!Moves(tool) /\ ~Ct!Posts(tool)
         /\ Ct!Moves(tool) => ~Ct!Posts(tool)
BY ToolsAssumption DEF Ct!ToolCall, Ct!Kinds, Ct!Toggles, Ct!Moves, Ct!Posts

LEMMA ToolBegin ==
  ASSUME ToolInv, NEW k \in Callers, NEW tool \in ToolCalls, Ct!Begin(k, tool)
  PROVE  ToolInv'
<1>1. PICK target \in Ct!TargetsOf(tool) :
        call' = [call EXCEPT ![k] =
          [at |-> IF Ct!AlreadyThere(tool, target) THEN "noChange" ELSE "sends",
           tool |-> tool, target |-> target, disturbed |-> FALSE]]
  BY DEF Ct!Begin
<1> DEFINE r == [at |-> IF Ct!AlreadyThere(tool, target) THEN "noChange" ELSE "sends",
                 tool |-> tool, target |-> target, disturbed |-> FALSE]
<1>2. /\ CallRecord(r) /\ r.tool = tool /\ r.target = target
      /\ r.at = IF Ct!AlreadyThere(tool, target) THEN "noChange" ELSE "sends"
  BY DEF CallRecord
<1> HIDE DEF r
<1>3. Aims(r)
  BY <1>1, <1>2, ToolKinds, ToolsAssumption
     DEF Aims, Ct!TargetsOf, Ct!Moves, Ct!ColumnsFor, Ct!BoardsFor
<1>4. CallKept(r)
  <2>1. Ct!AlreadyThere(tool, target) =>
          Ct!Toggles(tool) /\ (target \in facts[tool.card] <=> Ct!Wants(tool))
    BY DEF Ct!AlreadyThere, Ct!Wants
  <2>2. ~Ct!AlreadyThere(tool, target) /\ Ct!Toggles(tool) =>
          ~(target \in facts[tool.card] <=> Ct!Wants(tool))
    BY DEF Ct!AlreadyThere, Ct!Wants
  <2> QED BY <1>2, <2>1, <2>2, ToolKinds DEF CallKept, AsWanted
<1>5. call' = [call EXCEPT ![k] = r] /\ UNCHANGED <<facts, spot, posts>>
  BY <1>1 DEF Ct!Begin, r
<1>6. ToolTypes'
  BY <1>5 DEF ToolInv, ToolTypes
<1>7. ASSUME NEW j \in Callers PROVE CallOk(call[j])'
  BY <1>2, <1>3, <1>4, <1>5
     DEF ToolInv, ToolTypes, CallOk, CallKept, AsWanted, Ct!NoCall, CallRecord, Aims
<1> QED BY <1>6, <1>7 DEF ToolInv

\* The change of x at a card, or a move to the spot x, leaves the calls that it
\* does not disturb as they are.
LEMMA ToolOthers ==
  ASSUME ToolInv, NEW k, NEW card \in Targets, NEW x, NEW j \in Callers, j # k,
         \A c \in Targets : \A y : c # card \/ y # x => (y \in facts'[c] <=> y \in facts[c]),
         \A c \in Targets : c # card \/ x \notin Spots => spot'[c] = spot[c],
         posts' \in Nat, posts' >= posts,
         call'[j] = Ct!Disturb(k, card, x)[j]
  PROVE  CallOk(call[j])'
<1> DEFINE r == call[j]
<1>0. CallOk(r) /\ posts \in Nat
  BY DEF ToolInv, ToolTypes
<1>1. CASE r # Ct!NoCall /\ Ct!Same(r, card, x)
  <2>1. call'[j] = [r EXCEPT !.disturbed = TRUE]
    BY <1>1 DEF Ct!Disturb
  <2>2. /\ CallRecord(call'[j]) /\ Aims(call'[j]) /\ call'[j].disturbed
    BY <1>0, <1>1, <2>1 DEF CallOk, CallRecord, Aims
  <2> QED BY <2>2 DEF CallOk, CallKept, CallRecord, Aims
<1>2. CASE r = Ct!NoCall
  BY <1>2 DEF Ct!Disturb, CallOk
<1>3. CASE r # Ct!NoCall /\ ~Ct!Same(r, card, x)
  <2>1. call'[j] = r
    BY <1>3 DEF Ct!Disturb
  <2>2. /\ CallRecord(r) /\ Aims(r) /\ CallKept(r) /\ r.tool.card \in Targets
        /\ r.tool.card # card \/ (r.target # x /\ ~(Ct!Moves(r.tool) /\ x \in Spots))
    BY <1>0, <1>3, ToolKinds DEF CallOk, CallRecord, Ct!Same
  <2>3. /\ Ct!Moves(r.tool) => spot'[r.tool.card] = spot[r.tool.card]
        /\ r.target \in facts'[r.tool.card] <=> r.target \in facts[r.tool.card]
        /\ posts > 0 => posts' > 0
    BY <1>0, <2>2
  <2>4. ASSUME r.at = "sends", Ct!Toggles(r.tool), ~r.disturbed
        PROVE  ~(r.target \in facts'[r.tool.card] <=> Ct!Wants(r.tool))
    BY <2>2, <2>3, <2>4, ToolKinds DEF CallKept, AsWanted, CallRecord
  <2>5. CallKept(call[j])'
    <3>1. ~r.disturbed /\ r.at # "sends" =>
            /\ Ct!Moves(r.tool) => spot'[r.tool.card] = r.target
            /\ Ct!Posts(r.tool) => posts' > 0
            /\ ~Ct!Moves(r.tool) /\ ~Ct!Posts(r.tool) =>
                 (r.target \in facts'[r.tool.card] <=> Ct!Wants(r.tool))
      BY <2>2, <2>3 DEF CallKept, AsWanted
    <3>2. Ct!Toggles(r.tool) => ~Ct!Moves(r.tool) /\ ~Ct!Posts(r.tool)
      BY <2>2, ToolKinds DEF CallRecord
    <3> QED BY <2>1, <2>4, <3>1, <3>2
            DEF CallKept, AsWanted, Ct!Moves, Ct!Posts, Ct!Toggles, Ct!Wants
  <2> QED BY <2>1, <2>2, <2>5 DEF CallOk, CallRecord, Aims
<1> QED BY <1>1, <1>2, <1>3

\* What a request does.
LEMMA EffectIs ==
  ASSUME ToolInv, NEW r, r.tool \in ToolCalls, Ct!Effect(r)
  PROVE  LET c == r.tool.card
         IN  /\ Ct!Toggles(r.tool) => facts' = [facts EXCEPT ![c] = Ct!Toggled(@, r.target)]
             /\ r.tool.kind = "close" => facts' = [facts EXCEPT ![c] = @ \cup {"closed"}]
             /\ r.tool.kind = "reopen" => facts' = [facts EXCEPT ![c] = @ \ {"closed"}]
             /\ Ct!Moves(r.tool) \/ Ct!Posts(r.tool) => facts' = facts
             /\ Ct!Moves(r.tool) => spot' = [spot EXCEPT ![c] = r.target]
             /\ ~Ct!Moves(r.tool) => spot' = spot
             /\ posts' = IF Ct!Posts(r.tool) THEN posts + 1 ELSE posts
BY ToolKinds DEF Ct!Effect, Ct!Toggles, Ct!Moves, Ct!Posts, Ct!Kinds

LEMMA ToolSent ==
  ASSUME ToolInv, NEW k \in Callers, Ct!Sent(k)
  PROVE  ToolInv'
<1> DEFINE r == call[k]
           card == r.tool.card
           others == Ct!Disturb(k, card, r.target)
<1>0. /\ CallRecord(r) /\ Aims(r) /\ CallKept(r) /\ r.at = "sends" /\ card \in Targets
      /\ ToolTypes /\ Ct!Effect(r) /\ r.tool.kind \in Ct!Kinds
  <2>1. CallOk(r) /\ r.at = "sends" /\ Ct!Effect(r) /\ ToolTypes
    BY DEF Ct!Sent, ToolInv
  <2>2. CallRecord(r) /\ Aims(r) /\ CallKept(r)
    BY <2>1 DEF CallOk, Ct!NoCall
  <2> QED BY <2>1, <2>2, ToolKinds DEF CallRecord
<1>00. /\ Ct!Toggles(r.tool) => facts' = [facts EXCEPT ![card] = Ct!Toggled(@, r.target)]
       /\ r.tool.kind = "close" => facts' = [facts EXCEPT ![card] = @ \cup {"closed"}]
       /\ r.tool.kind = "reopen" => facts' = [facts EXCEPT ![card] = @ \ {"closed"}]
       /\ Ct!Moves(r.tool) \/ Ct!Posts(r.tool) => facts' = facts
       /\ Ct!Moves(r.tool) => spot' = [spot EXCEPT ![card] = r.target]
       /\ ~Ct!Moves(r.tool) => spot' = spot
       /\ posts' = IF Ct!Posts(r.tool) THEN posts + 1 ELSE posts
  BY <1>0, EffectIs DEF CallRecord
<1>01. \/ Ct!Toggles(r.tool) \/ r.tool.kind \in {"close", "reopen"}
       \/ Ct!Moves(r.tool) \/ Ct!Posts(r.tool)
  BY <1>0 DEF Ct!Kinds, Ct!Toggles, Ct!Moves, Ct!Posts
<1>1. /\ facts' = [c \in Targets |-> facts'[c]]
      /\ \A c \in Targets : \A y :
           c # card \/ y # r.target => (y \in facts'[c] <=> y \in facts[c])
  BY <1>0, <1>00, <1>01 DEF ToolTypes, Ct!Toggled, Aims
<1>2. /\ spot' = [c \in Targets |-> spot'[c]]
      /\ \A c \in Targets : c # card \/ r.target \notin Spots => spot'[c] = spot[c]
  BY <1>0, <1>00 DEF ToolTypes, Aims
<1>3. posts' \in Nat /\ posts' >= posts /\ (Ct!Posts(r.tool) => posts' > 0)
  BY <1>0, <1>00 DEF ToolTypes
<1>4. /\ call' = [others EXCEPT ![k].at = "done"] \/ call' = [others EXCEPT ![k] = Ct!NoCall]
      /\ others = [j \in Callers |-> others[j]] /\ others[k] = r
  BY DEF Ct!Sent, Ct!Disturb
<1>5. call' = [j \in Callers |-> call'[j]] /\ \A j \in Callers : j # k => call'[j] = others[j]
  BY <1>4
<1>6. ToolTypes'
  BY <1>1, <1>2, <1>3, <1>5 DEF ToolTypes
<1>7. ASSUME NEW j \in Callers, j # k PROVE CallOk(call[j])'
  BY <1>0, <1>1, <1>2, <1>3, <1>5, <1>7, ToolOthers
<1>8. CallOk(call[k])'
  <2>1. CASE call'[k] = Ct!NoCall
    BY <2>1 DEF CallOk
  <2>2. CASE call'[k] = [r EXCEPT !.at = "done"]
    <3>1. /\ CallRecord(call'[k]) /\ call'[k].at = "done" /\ call'[k].tool = r.tool
          /\ call'[k].target = r.target /\ call'[k].disturbed = r.disturbed
      BY <1>0, <2>2 DEF CallRecord
    <3>2. Ct!Moves(r.tool) => spot'[card] = r.target
      BY <1>0, <1>00 DEF ToolTypes
    <3>3. ~r.disturbed /\ ~Ct!Moves(r.tool) /\ ~Ct!Posts(r.tool) =>
            (r.target \in facts'[card] <=> Ct!Wants(r.tool))
      <4>1. CASE Ct!Toggles(r.tool)
        BY <1>0, <1>00, <4>1 DEF CallKept, AsWanted, ToolTypes, Ct!Toggled
      <4>2. CASE ~Ct!Toggles(r.tool)
        BY <1>0, <1>00, <1>01, <4>2 DEF Aims, ToolTypes, Ct!Wants
      <4> QED BY <4>1, <4>2
    <3>4. CallKept(call[k])'
      BY <1>3, <3>1, <3>2, <3>3
         DEF CallKept, AsWanted, Ct!Moves, Ct!Posts, Ct!Toggles, Ct!Wants
    <3> QED BY <1>0, <3>1, <3>4 DEF CallOk, CallRecord, Aims
  <2> QED BY <1>4, <2>1, <2>2
<1> QED BY <1>6, <1>7, <1>8 DEF ToolInv

LEMMA ToolNext ==
  ASSUME ToolInv, [Ct!Next]_toolVars
  PROVE  ToolInv'
<1>1. CASE UNCHANGED toolVars
  BY <1>1 DEF toolVars, ToolInv, ToolTypes, CallOk, CallKept, AsWanted, CallRecord, Aims
<1>2. ASSUME NEW k \in Callers, NEW tool \in ToolCalls, Ct!Begin(k, tool) PROVE ToolInv'
  BY <1>2, ToolBegin
<1>3. ASSUME NEW k \in Callers, Ct!Sent(k) PROVE ToolInv'
  BY <1>3, ToolSent
<1>4. ASSUME NEW k \in Callers, Ct!Ends(k) PROVE ToolInv'
  <2>1. /\ UNCHANGED <<facts, spot, posts>> /\ call' = [call EXCEPT ![k] = Ct!NoCall]
    BY <1>4 DEF Ct!Ends
  <2>2. ToolTypes' /\ \A j \in Callers : call'[j] = Ct!NoCall \/ call'[j] = call[j]
    BY <2>1 DEF ToolInv, ToolTypes
  <2> QED BY <2>1, <2>2 DEF ToolInv, CallOk, CallKept, AsWanted, CallRecord, Aims
<1>5. ASSUME NEW c \in Targets, NEW x \in Edited, Ct!PersonEdits(c, x) PROVE ToolInv'
  <2>1. /\ facts' = [facts EXCEPT ![c] = Ct!Toggled(@, x)] /\ UNCHANGED <<spot, posts>>
        /\ call' = Ct!Disturb("nobody", c, x)
    BY <1>5 DEF Ct!PersonEdits
  <2>2. ToolTypes'
    BY <2>1 DEF ToolInv, ToolTypes, Ct!Disturb
  <2>3. \A d \in Targets : \A y : d # c \/ y # x => (y \in facts'[d] <=> y \in facts[d])
    BY <2>1 DEF ToolInv, ToolTypes, Ct!Toggled
  <2>4. ASSUME NEW j \in Callers PROVE CallOk(call[j])'
    BY <2>1, <2>2, <2>3, ToolOthers, ToolsAssumption DEF ToolTypes, ToolInv
  <2> QED BY <2>2, <2>4 DEF ToolInv
<1> QED BY <1>1, <1>2, <1>3, <1>4, <1>5 DEF Ct!Next

LEMMA ToolAlways == PartsSpec => []ToolInv
<1>1. PartsInit => ToolInv
  BY DEF PartsInit, Ct!Init, ToolInv, ToolTypes, CallOk
<1>2. ToolInv /\ [PartsNext]_partsVars => ToolInv'
  BY ToolNext DEF PartsNext, partsVars
<1> QED BY <1>1, <1>2, PTL DEF PartsSpec

\* What a tool told Claude of a card is so until somebody changes the same
\* thing, for any tool calls and cards: a toggle that nobody disturbed since the
\* read is about a card that is not yet as Claude wants it (assignCard and
\* setTag of actions.go).
THEOREM ToolsTellTruth == PartsSpec => []DoneAsSaid
<1>1. ToolInv => DoneAsSaid
  <2> SUFFICES ASSUME ToolInv, NEW k \in Callers,
                      call[k].at \in {"done", "noChange"}, ~call[k].disturbed
               PROVE  CASE Ct!Moves(call[k].tool) -> spot[call[k].tool.card] = call[k].target
                        [] Ct!Posts(call[k].tool) -> posts > 0
                        [] OTHER -> (call[k].target \in facts[call[k].tool.card])
                                      = Ct!Wants(call[k].tool)
    BY DEF DoneAsSaid, Ct!DoneAsSaid
  <2>0. PICK r : r = call[k] /\ r.at \in {"done", "noChange"} /\ ~r.disturbed
    OBVIOUS
  <2>1. AsWanted(r) /\ r.tool \in ToolCalls
    <3>1. CallRecord(r) /\ CallKept(r)
      BY <2>0 DEF ToolInv, CallOk, Ct!NoCall
    <3> QED BY <2>0, <3>1 DEF CallKept, CallRecord
  <2>2. ~Ct!Moves(r.tool) /\ ~Ct!Posts(r.tool) =>
          (r.target \in facts[r.tool.card]) = Ct!Wants(r.tool)
    BY <2>1 DEF AsWanted, Ct!Wants
  <2>3. Ct!Moves(r.tool) => ~Ct!Posts(r.tool)
    BY <2>1, ToolKinds
  <2> QED BY <2>0, <2>1, <2>2, <2>3 DEF AsWanted
<1> QED BY <1>1, ToolAlways, PTL

-----------------------------------------------------------------------------
(* ClaudeRun: what the parser knows of a stream *)

Streams == Seq(Cl!Event)

\* The first n events of a stream: the calls, the results and the costs.
CallsTo(s, n) == {s[k].id : k \in {j \in 1..n : s[j].type = "assistant"}}
ResultsTo(s, n) == {k \in 1..n : s[k].type = "result"}
CostsTo(s, n) == {s[k].cost : k \in ResultsTo(s, n)} \cup {0}

IsMax(x, S) == x \in S /\ \A y \in S : x >= y

\* The last result of the first n events.
IsLast(k, s, n) == IsMax(k, ResultsTo(s, n))

\* The answer came after the limit was reached.
IsLate(k, s) == \E j \in Cl!OverLimit(s) : j < k

\* f is what is to be known of the first n events of s.
Follows(f, s, n) ==
  /\ f.calls = CallsTo(s, n)
  /\ IsMax(f.resultCost, CostsTo(s, n))
  /\ f.limitReached <=> \E k \in Cl!OverLimit(s) : k <= n
  /\ \/ ResultsTo(s, n) = {} /\ f.text = "empty"
     \/ \E k \in 1..n : IsLast(k, s, n) /\ f.text = s[k].text
  /\ f.answeredAfterStop <=>
       \E k \in 1..n : IsLast(k, s, n) /\ s[k].text = "answer" /\ IsLate(k, s)

LEMMA EventIs ==
  ASSUME NEW e \in Cl!Event
  PROVE  \/ e.type = "assistant" /\ e.id \in Calls
         \/ e.type = "result" /\ e.cost \in Nat /\ e.text \in Cl!Texts
BY ClaudeAssumption DEF Cl!Event

LEMMA StreamIs ==
  ASSUME NEW s \in Streams
  PROVE  /\ Len(s) \in Nat /\ DOMAIN s = 1..Len(s)
         /\ \A k \in 1..Len(s) : s[k] \in Cl!Event
BY LenProperties, ElementOfSeq DEF Streams

LEMMA MaxIs ==
  ASSUME NEW S \in SUBSET Nat, NEW m, IsMax(m, S)
  PROVE  Cl!Max(S) = m
<1>1. m \in S /\ \A y \in S : m >= y
  BY DEF IsMax
<1>2. \A x \in S : (\A y \in S : x >= y) => x = m
  BY <1>1
<1>3. PICK x : x = Cl!Max(S)
  OBVIOUS
<1>4. x \in S /\ \A y \in S : x >= y
  BY <1>1, <1>3 DEF Cl!Max
<1> QED BY <1>2, <1>3, <1>4

LEMMA MinIs ==
  ASSUME NEW S \in SUBSET Nat, S # {}
  PROVE  Cl!Min(S) \in S /\ \A y \in S : Cl!Min(S) <= y
<1> DEFINE Less == {p \in Nat \X Nat : p[1] < p[2]}
<1>1. PICK n \in S : \A m \in S : <<m, n>> \notin Less
  <2>1. IsWellFoundedOn(Less, Nat)
    BY NatLessThanWellFounded DEF OpToRel
  <2> HIDE DEF Less
  <2> QED BY <2>1, WFMin
<1>2. ASSUME NEW m \in S PROVE n <= m
  <2>1. m \in Nat /\ n \in Nat
    OBVIOUS
  <2>2. ~ (m < n)
    BY <1>1, <2>1
  <2> QED BY <2>1, <2>2
<1> QED BY <1>2 DEF Cl!Min

LEMMA CallsOfPrefix ==
  ASSUME NEW s \in Streams, NEW n \in 0..Len(s)
  PROVE  Cl!CallsIn(SubSeq(s, 1, n)) = CallsTo(s, n)
<1>1. /\ n \in Int /\ 1 \in Int /\ \A i \in 1..n : s[i] \in Cl!Event
  BY StreamIs
<1>2. /\ SubSeq(s, 1, n) \in Streams /\ Len(SubSeq(s, 1, n)) = n
      /\ \A i \in 1..n : SubSeq(s, 1, n)[i] = s[i]
  BY <1>1, SubSeqProperties DEF Streams
<1>3. PICK t : t = SubSeq(s, 1, n)
  OBVIOUS
<1>4. DOMAIN t = 1..n /\ \A i \in 1..n : t[i] = s[i]
  BY <1>2, <1>3, StreamIs
<1>5. Cl!CallsIn(t) = CallsTo(s, n)
  BY <1>4 DEF Cl!CallsIn, CallsTo
<1> QED BY <1>3, <1>5

LEMMA CostsAreNat ==
  ASSUME NEW s \in Streams, NEW n \in 0..Len(s)
  PROVE  CostsTo(s, n) \in SUBSET Nat
BY StreamIs, EventIs DEF CostsTo, ResultsTo

LEMMA CostUpToIs ==
  ASSUME NEW s \in Streams, NEW n \in 0..Len(s)
  PROVE  /\ Cl!CostUpTo(s, n) =
              Cl!Larger(Cl!PriceOf(CallsTo(s, n)), Cl!Max(CostsTo(s, n)))
         /\ \A m : IsMax(m, CostsTo(s, n)) =>
              Cl!CostUpTo(s, n) = Cl!Larger(Cl!PriceOf(CallsTo(s, n)), m)
<1>1. {s[k].cost : k \in {j \in Cl!Results(s) : j <= n}} \cup {0} = CostsTo(s, n)
  BY StreamIs DEF CostsTo, ResultsTo, Cl!Results
<1>2. \A m : IsMax(m, CostsTo(s, n)) => Cl!Max(CostsTo(s, n)) = m
  BY MaxIs, CostsAreNat
<1> QED BY <1>1, <1>2, CallsOfPrefix DEF Cl!CostUpTo

LEMMA OverLimitIs ==
  ASSUME NEW s \in Streams
  PROVE  /\ Cl!OverLimit(s) \subseteq 1..Len(s)
         /\ \A k \in 1..Len(s) : k \in Cl!OverLimit(s) <=>
              CostLimit > 0 /\ s[k].type = "assistant" /\ Cl!CostUpTo(s, k) > CostLimit
BY StreamIs DEF Cl!OverLimit

\* What is known of the first events does not change when Claude writes more.
LEMMA PrefixKept ==
  ASSUME NEW s \in Streams, NEW e \in Cl!Event, NEW n \in 0..Len(s)
  PROVE  LET t == Append(s, e)
         IN  /\ t \in Streams /\ Len(t) = Len(s) + 1
             /\ CallsTo(t, n) = CallsTo(s, n) /\ ResultsTo(t, n) = ResultsTo(s, n)
             /\ CostsTo(t, n) = CostsTo(s, n)
             /\ \A k \in 1..n : t[k] = s[k]
<1> DEFINE t == Append(s, e)
<1>1. t \in Streams /\ Len(t) = Len(s) + 1 /\ \A k \in 1..Len(s) : t[k] = s[k]
  BY AppendProperties DEF Streams
<1>2. \A k \in 1..n : t[k] = s[k]
  BY <1>1, StreamIs
<1> HIDE DEF t
<1>3. ResultsTo(t, n) = ResultsTo(s, n) /\ CallsTo(t, n) = CallsTo(s, n)
  BY <1>2 DEF ResultsTo, CallsTo
<1>4. CostsTo(t, n) = CostsTo(s, n)
  <2>1. \A k \in ResultsTo(s, n) : t[k].cost = s[k].cost
    BY <1>2 DEF ResultsTo
  <2> QED BY <1>3, <2>1 DEF CostsTo
<1> QED BY <1>1, <1>2, <1>3, <1>4 DEF t

\* An event is over the limit or not when it is written.
LEMMA OverLimitKept ==
  ASSUME NEW s \in Streams, NEW e \in Cl!Event, NEW k \in 1..Len(s)
  PROVE  k \in Cl!OverLimit(Append(s, e)) <=> k \in Cl!OverLimit(s)
<1>1. PICK t : t = Append(s, e)
  OBVIOUS
<1>2. /\ t \in Streams /\ Len(t) = Len(s) + 1 /\ k \in 0..Len(s) /\ k \in 0..Len(t)
      /\ k \in 1..Len(t) /\ t[k] = s[k]
      /\ CallsTo(t, k) = CallsTo(s, k) /\ CostsTo(t, k) = CostsTo(s, k)
  BY <1>1, PrefixKept, StreamIs
<1>3. Cl!CostUpTo(t, k) = Cl!CostUpTo(s, k)
  BY <1>2, CostUpToIs
<1> QED BY <1>1, <1>2, <1>3, OverLimitIs

LEMMA FollowsNothing ==
  ASSUME NEW s \in Streams
  PROVE  Follows(Cl!NothingFound, s, 0)
BY OverLimitIs, StreamIs
   DEF Follows, Cl!NothingFound, CallsTo, ResultsTo, CostsTo, IsMax, IsLast

LEMMA FollowsMore ==
  ASSUME NEW s \in Streams, NEW e \in Cl!Event, NEW n \in 0..Len(s), NEW f, Follows(f, s, n)
  PROVE  Follows(f, Append(s, e), n)
<1>1. PICK t : t = Append(s, e)
  OBVIOUS
<1>2. /\ t \in Streams /\ Len(t) = Len(s) + 1 /\ Len(s) \in Nat
      /\ CallsTo(t, n) = CallsTo(s, n) /\ ResultsTo(t, n) = ResultsTo(s, n)
      /\ CostsTo(t, n) = CostsTo(s, n)
      /\ \A k \in 1..n : t[k] = s[k]
  BY <1>1, PrefixKept, StreamIs
<1>3. \A k \in 1..n : k \in Cl!OverLimit(t) <=> k \in Cl!OverLimit(s)
  BY <1>1, <1>2, OverLimitKept
<1>4. /\ Cl!OverLimit(s) \subseteq 1..Len(s) /\ Cl!OverLimit(t) \subseteq 1..(Len(s) + 1)
  BY <1>2, OverLimitIs
<1>5. (\E k \in Cl!OverLimit(t) : k <= n) <=> (\E k \in Cl!OverLimit(s) : k <= n)
  BY <1>2, <1>3, <1>4
<1>6. \A k \in 1..n : IsLate(k, t) <=> IsLate(k, s)
  BY <1>2, <1>3, <1>4 DEF IsLate
<1>7. \A k : IsLast(k, t, n) <=> IsLast(k, s, n)
  BY <1>2 DEF IsLast
<1>8. Follows(f, t, n)
  BY <1>2, <1>5, <1>6, <1>7 DEF Follows
<1> QED BY <1>1, <1>8

\* The next event is a call.
LEMMA FollowsCall ==
  ASSUME NEW s \in Streams, NEW n \in 0..Len(s), n < Len(s), s[n + 1].type = "assistant",
         NEW f \in Cl!FoundRecord, Follows(f, s, n)
  PROVE  LET g == Cl!WithCall(f, s[n + 1].id)
         IN  g \in Cl!FoundRecord /\ Follows(g, s, n + 1)
<1> DEFINE id == s[n + 1].id
           g == Cl!WithCall(f, id)
           h == [f EXCEPT !.calls = @ \cup {id}]
           over == CostLimit > 0 /\ Cl!Estimate(h) > CostLimit
<1>0. /\ Len(s) \in Nat /\ n \in Nat /\ n + 1 \in 1..Len(s) /\ n + 1 \in 0..Len(s)
      /\ id \in Calls
  BY StreamIs, EventIs
<1>1. /\ h \in Cl!FoundRecord /\ h.calls = f.calls \cup {id} /\ h.resultCost = f.resultCost
      /\ h.text = f.text /\ h.answeredAfterStop = f.answeredAfterStop
      /\ h.limitReached = f.limitReached
  BY <1>0 DEF Cl!FoundRecord
<1>2. g = [h EXCEPT !.limitReached = @ \/ over]
  BY DEF Cl!WithCall
<1> HIDE DEF h
<1>3. /\ CallsTo(s, n + 1) = CallsTo(s, n) \cup {id}
      /\ ResultsTo(s, n + 1) = ResultsTo(s, n) /\ CostsTo(s, n + 1) = CostsTo(s, n)
  <2>1. 1..(n + 1) = 1..n \cup {n + 1}
    BY <1>0
  <2>2. ResultsTo(s, n + 1) = ResultsTo(s, n)
    BY <2>1 DEF ResultsTo
  <2>3. CallsTo(s, n + 1) = CallsTo(s, n) \cup {id}
    BY <2>1 DEF CallsTo
  <2> QED BY <2>2, <2>3 DEF CostsTo
<1>4. Cl!Estimate(h) = Cl!CostUpTo(s, n + 1)
  <2>1. PICK c, m : c = h.calls /\ m = h.resultCost
    OBVIOUS
  <2>2. c = CallsTo(s, n + 1) /\ IsMax(m, CostsTo(s, n + 1))
    BY <1>1, <1>3, <2>1 DEF Follows
  <2>3. Cl!CostUpTo(s, n + 1) = Cl!Larger(Cl!PriceOf(c), m)
    BY <1>0, <2>2, CostUpToIs
  <2>4. Cl!Estimate(h) = Cl!Larger(Cl!PriceOf(c), m)
    BY <2>1 DEF Cl!Estimate
  <2> QED BY <2>3, <2>4
<1>5. over <=> n + 1 \in Cl!OverLimit(s)
  BY <1>0, <1>4, OverLimitIs
<1> HIDE DEF over
<1>6. /\ g \in Cl!FoundRecord /\ g.calls = h.calls /\ g.resultCost = h.resultCost
      /\ g.text = h.text /\ g.answeredAfterStop = h.answeredAfterStop
      /\ g.limitReached <=> h.limitReached \/ over
  BY <1>1, <1>2, <1>5 DEF Cl!FoundRecord
<1> HIDE DEF g
<1>7. \A k \in Cl!OverLimit(s) : k <= n + 1 <=> k <= n \/ k = n + 1
  BY <1>0, OverLimitIs
<1>8. g.limitReached <=> \E k \in Cl!OverLimit(s) : k <= n + 1
  BY <1>0, <1>1, <1>5, <1>6, <1>7 DEF Follows
<1>9. \A k : IsLast(k, s, n + 1) <=> IsLast(k, s, n)
  BY <1>3 DEF IsLast
<1>10. \A k : IsLast(k, s, n) => k \in 1..n
  BY DEF IsLast, IsMax, ResultsTo
<1>11. 1..n \subseteq 1..(n + 1)
  BY <1>0
<1>12. Follows(g, s, n + 1)
  BY <1>1, <1>3, <1>6, <1>8, <1>9, <1>10, <1>11 DEF Follows
<1> QED BY <1>6, <1>12 DEF g

\* The next event is a result.
LEMMA FollowsResult ==
  ASSUME NEW s \in Streams, NEW n \in 0..Len(s), n < Len(s), s[n + 1].type = "result",
         NEW f \in Cl!FoundRecord, Follows(f, s, n)
  PROVE  LET g == Cl!WithResult(f, s[n + 1])
         IN  g \in Cl!FoundRecord /\ Follows(g, s, n + 1)
<1> DEFINE e == s[n + 1]
           g == Cl!WithResult(f, e)
<1>0. /\ Len(s) \in Nat /\ n \in Nat /\ n + 1 \in 1..Len(s) /\ n + 1 \in 0..Len(s)
      /\ e \in Cl!Event /\ e.text \in Cl!Texts /\ e.cost \in Reported /\ e.cost \in Nat
      /\ f.resultCost \in Nat
  <2>1. Len(s) \in Nat /\ n \in Nat /\ n + 1 \in 1..Len(s) /\ n + 1 \in 0..Len(s)
    BY StreamIs
  <2>2. e \in Cl!Event
    BY <2>1, StreamIs
  <2>3. e.text \in Cl!Texts /\ e.cost \in Reported
    BY <2>2 DEF Cl!Event
  <2>4. \A x \in Reported \cup {0} : x \in Nat
    BY ClaudeAssumption
  <2>5. f.resultCost \in Reported \cup {0}
    BY DEF Cl!FoundRecord
  <2> QED BY <2>1, <2>2, <2>3, <2>4, <2>5
<1>1. /\ Cl!Larger(f.resultCost, e.cost) \in Reported \cup {0}
      /\ Cl!AnswerAfterStop(f, e) \in BOOLEAN
  BY <1>0 DEF Cl!Larger, Cl!AnswerAfterStop, Cl!FoundRecord
<1>2. /\ g \in Cl!FoundRecord /\ g.calls = f.calls /\ g.limitReached = f.limitReached
      /\ g.resultCost = Cl!Larger(f.resultCost, e.cost) /\ g.text = e.text
      /\ g.answeredAfterStop = Cl!AnswerAfterStop(f, e)
  BY <1>0, <1>1 DEF Cl!WithResult, Cl!FoundRecord
<1> HIDE DEF g
<1>3. /\ CallsTo(s, n + 1) = CallsTo(s, n)
      /\ ResultsTo(s, n + 1) = ResultsTo(s, n) \cup {n + 1}
      /\ CostsTo(s, n + 1) = CostsTo(s, n) \cup {e.cost}
  <2>1. 1..(n + 1) = 1..n \cup {n + 1}
    BY <1>0
  <2>2. ResultsTo(s, n + 1) = ResultsTo(s, n) \cup {n + 1}
    BY <2>1 DEF ResultsTo
  <2>3. CallsTo(s, n + 1) = CallsTo(s, n)
    BY <2>1 DEF CallsTo
  <2> QED BY <2>2, <2>3 DEF CostsTo
<1>4. IsMax(g.resultCost, CostsTo(s, n + 1))
  <2>1. PICK r, c : r = f.resultCost /\ c = e.cost /\ r \in Nat /\ c \in Nat
    BY <1>0
  <2>2. IsMax(r, CostsTo(s, n)) /\ CostsTo(s, n) \in SUBSET Nat
    BY <2>1, CostsAreNat DEF Follows
  <2>3. IsMax(IF r > c THEN r ELSE c, CostsTo(s, n) \cup {c})
    BY <2>1, <2>2 DEF IsMax
  <2> QED BY <1>2, <1>3, <2>1, <2>3 DEF Cl!Larger
<1>5. n + 1 \notin Cl!OverLimit(s) /\ Cl!OverLimit(s) \subseteq 1..Len(s)
  BY <1>0, OverLimitIs
<1>6. \A k \in Cl!OverLimit(s) : k <= n + 1 <=> k <= n
  BY <1>0, <1>5
<1>7. \A k : IsLast(k, s, n + 1) <=> k = n + 1
  <2>1. \A k \in ResultsTo(s, n) : k \in Nat /\ k < n + 1
    BY <1>0 DEF ResultsTo
  <2> QED BY <1>0, <1>3, <2>1 DEF IsLast, IsMax
<1>8. IsLate(n + 1, s) <=> f.limitReached
  <2>1. IsLate(n + 1, s) <=> \E k \in Cl!OverLimit(s) : k <= n
    BY <1>0, <1>5 DEF IsLate
  <2> QED BY <2>1 DEF Follows
<1>9. ~f.limitReached => ~f.answeredAfterStop
  <2>1. ASSUME NEW k \in 1..n, IsLate(k, s) PROVE \E j \in Cl!OverLimit(s) : j <= n
    BY <1>0, <1>5, <2>1 DEF IsLate
  <2> QED BY <2>1 DEF Follows
<1>10. g.answeredAfterStop <=> e.text = "answer" /\ IsLate(n + 1, s)
  BY <1>2, <1>8, <1>9 DEF Cl!AnswerAfterStop, Cl!FoundRecord
<1>11. n + 1 \in 1..(n + 1)
  BY <1>0
<1>12. Follows(g, s, n + 1)
  <2>1. g.limitReached <=> \E k \in Cl!OverLimit(s) : k <= n + 1
    BY <1>2, <1>6 DEF Follows
  <2>2. g.calls = CallsTo(s, n + 1)
    BY <1>2, <1>3 DEF Follows
  <2>3. \E k \in 1..(n + 1) : IsLast(k, s, n + 1) /\ g.text = s[k].text
    BY <1>2, <1>7, <1>11
  <2>4. g.answeredAfterStop <=> \E k \in 1..(n + 1) :
          IsLast(k, s, n + 1) /\ s[k].text = "answer" /\ IsLate(k, s)
    BY <1>7, <1>10, <1>11
  <2> QED BY <1>4, <2>1, <2>2, <2>3, <2>4 DEF Follows
<1> QED BY <1>2, <1>12 DEF g

-----------------------------------------------------------------------------
(* The invariant *)

ClaudeTypes ==
  /\ stream \in Streams /\ parsed \in 0..Len(stream)
  /\ found \in Cl!FoundRecord
  /\ ctxEnded \in BOOLEAN /\ cause \in {"none", "cost", "ctx"}

\* The cause of a stop is what came first.
CauseIs ==
  /\ cause = "none" => ~found.limitReached
  /\ cause = "cost" => found.limitReached
  /\ cause = "ctx" => ctxEnded

\* The group of Claude is gone when its output is read to the end.
GroupGone == run \in {"drains", "cut", "done"} => claude # "runs" /\ child # "group"

\* Nothing is left to parse when Run is done.
AllParsed == run = "done" => parsed = Len(stream)

ClaudeInv ==
  /\ ClaudeTypes /\ Follows(found, stream, parsed) /\ CauseIs /\ GroupGone /\ AllParsed
  /\ run \in {"waits", "drains", "cut", "done"}
  /\ Cl!VerdictFollowsStream /\ Cl!UsageKept

\* A turn that is done with its stream: what the parser found is what the
\* properties ask of the stream.
LEMMA AtTheEnd ==
  ASSUME NEW s \in Streams, NEW f \in Cl!FoundRecord, Follows(f, s, Len(s))
  PROVE  /\ f.calls = Cl!CallsIn(s)
         /\ Cl!CostUpTo(s, Len(s)) = Cl!Larger(Cl!PriceOf(Cl!CallsIn(s)), f.resultCost)
         /\ f.limitReached <=> Cl!OverLimit(s) # {}
         /\ Cl!Complete(s) => f.text = "answer"
         /\ f.limitReached => (f.answeredAfterStop <=> Cl!Complete(s))
<1> DEFINE n == Len(s)
<1>0. n \in Nat /\ n \in 0..n /\ Cl!OverLimit(s) \subseteq 1..n
  BY StreamIs, OverLimitIs
<1>1. CallsTo(s, n) = Cl!CallsIn(s)
  BY StreamIs DEF CallsTo, Cl!CallsIn
<1>2. ResultsTo(s, n) = Cl!Results(s)
  BY StreamIs DEF ResultsTo, Cl!Results
<1>3. f.limitReached <=> Cl!OverLimit(s) # {}
  BY <1>0 DEF Follows
<1>4. Cl!CostUpTo(s, n) = Cl!Larger(Cl!PriceOf(Cl!CallsIn(s)), f.resultCost)
  BY <1>0, <1>1, CostUpToIs DEF Follows
<1>5. \A k : IsLast(k, s, n) <=> k \in Cl!Results(s) /\ \A j \in Cl!Results(s) : j <= k
  BY <1>2, StreamIs DEF IsLast, IsMax, Cl!Results
<1>6. ASSUME NEW k \in 1..n, Cl!OverLimit(s) # {}
      PROVE  IsLate(k, s) <=> Cl!Min(Cl!OverLimit(s)) < k
  <2>1. PICK m : m = Cl!Min(Cl!OverLimit(s))
    OBVIOUS
  <2>2. Cl!OverLimit(s) \in SUBSET Nat
    BY <1>0
  <2>3. m \in Cl!OverLimit(s) /\ \A j \in Cl!OverLimit(s) : m <= j
    BY <1>6, <2>1, <2>2, MinIs
  <2>4. IsLate(k, s) <=> m < k
    BY <1>0, <2>2, <2>3 DEF IsLate
  <2> QED BY <2>1, <2>4
<1>7. \A k : IsLast(k, s, n) => k \in 1..n
  BY <1>0 DEF IsLast, IsMax, ResultsTo
<1>8. Cl!Complete(s) <=>
        \E k \in 1..n : /\ IsLast(k, s, n) /\ s[k].text = "answer"
                        /\ Cl!OverLimit(s) # {} => IsLate(k, s)
  BY <1>5, <1>6, <1>7 DEF Cl!Complete
<1>9. \A k, j : IsLast(k, s, n) /\ IsLast(j, s, n) => k = j
  <2>1. ResultsTo(s, n) \subseteq Nat
    BY <1>0 DEF ResultsTo
  <2> QED BY <2>1 DEF IsLast, IsMax
<1>10. Cl!Complete(s) => f.text = "answer"
  BY <1>8, <1>9 DEF Follows, IsLast, IsMax
<1>11. f.limitReached => (f.answeredAfterStop <=> Cl!Complete(s))
  BY <1>3, <1>8 DEF Follows
<1> QED BY <1>1, <1>3, <1>4, <1>10, <1>11 DEF Follows

LEMMA CallsFinite ==
  ASSUME NEW s \in Streams
  PROVE  IsFiniteSet(Cl!CallsIn(s))
<1> DEFINE D == {j \in 1..Len(s) : s[j].type = "assistant"}
           idAt == [k \in D |-> s[k].id]
<1>1. Len(s) \in Nat /\ DOMAIN s = 1..Len(s)
  BY StreamIs
<1>2. IsFiniteSet(D)
  <2>1. IsFiniteSet(1..Len(s)) /\ D \in SUBSET (1..Len(s))
    BY <1>1, FS_Interval
  <2> QED BY <2>1, FS_Subset
<1>3. idAt \in Surjection(D, Cl!CallsIn(s))
  BY <1>1 DEF Cl!CallsIn, Surjection
<1> QED BY <1>2, <1>3, FS_Surjection

LEMMA CardinalityIs ==
  ASSUME NEW S
  PROVE  Cl!Cardinality(S) = Cardinality(S)
BY DEF Cl!Cardinality, Cardinality

\* Only a stream with all the calls has as many.
LEMMA CallsOfTurnIs ==
  ASSUME NEW s \in Streams, found.calls = Cl!CallsIn(s), NEW t \in SUBSET Cl!CallsIn(s)
  PROVE  Cl!CallsOfTurn(t) = Cl!CallsIn(s)
<1>1. PICK c : c = Cl!CallsIn(s)
  OBVIOUS
<1>2. IsFiniteSet(c) /\ t \in SUBSET c /\ found.calls = c
  BY <1>1, CallsFinite
<1>3. /\ Cardinality(t) <= Cardinality(c) /\ (Cardinality(c) = Cardinality(t) => c = t)
      /\ Cardinality(t) \in Nat /\ Cardinality(c) \in Nat
  BY <1>2, FS_Subset, FS_CardinalityType
<1>4. Cardinality(t) < Cardinality(c) \/ c = t
  BY <1>3
<1>5. Cl!CallsOfTurn(t) = IF Cardinality(t) < Cardinality(c) THEN c ELSE t
  <2>1. found.calls = c /\ Cardinality(found.calls) = Cardinality(c)
    BY <1>1, Zenon
  <2> QED BY <2>1, CardinalityIs DEF Cl!CallsOfTurn
<1> QED BY <1>1, <1>4, <1>5

\* The start of a turn.
LEMMA ClaudeStart ==
  /\ <<>> \in Streams /\ 0 \in 0..Len(<<>>) /\ Cl!NothingFound \in Cl!FoundRecord
  /\ Follows(Cl!NothingFound, <<>>, 0) /\ ~Cl!NothingFound.limitReached
<1>1. <<>> \in Streams /\ 0 \in 0..Len(<<>>)
  BY EmptySeq DEF Streams
<1>2. Cl!NothingFound \in Cl!FoundRecord /\ ~Cl!NothingFound.limitReached
  BY DEF Cl!NothingFound, Cl!FoundRecord, Cl!Texts
<1> QED BY <1>1, <1>2, FollowsNothing

\* A step of Run that ends it, with what the parser found.
LEMMA ClaudeReturns ==
  ASSUME ClaudeInv, Cl!Returns
  PROVE  ClaudeInv'
<1>1. PICK s, f, t : /\ s = stream /\ f = found /\ t \in SUBSET Cl!CallsIn(s)
                     /\ Cl!Return(t)
  BY DEF Cl!Returns
<1>2. /\ s \in Streams /\ f \in Cl!FoundRecord /\ Follows(f, s, Len(s)) /\ CauseIs
      /\ parsed = Len(s) /\ run \in {"drains", "cut"} /\ GroupGone
      /\ UNCHANGED <<claude, child, stream, parsed, found, ctxEnded, cause>>
      /\ run' = "done"
      /\ outcome' = Cl!Outcome(Cl!Verdict, Cl!CallsOfTurn(t), Cl!CostOf(Cl!CallsOfTurn(t)))
  BY <1>1 DEF ClaudeInv, ClaudeTypes, Cl!Return, Cl!process
<1>3. /\ f.calls = Cl!CallsIn(s)
      /\ Cl!CostUpTo(s, Len(s)) = Cl!Larger(Cl!PriceOf(Cl!CallsIn(s)), f.resultCost)
      /\ f.limitReached <=> Cl!OverLimit(s) # {}
      /\ Cl!Complete(s) => f.text = "answer"
      /\ f.limitReached => (f.answeredAfterStop <=> Cl!Complete(s))
  BY <1>2, AtTheEnd
<1>4. PICK c : c = Cl!CallsOfTurn(t) /\ c = Cl!CallsIn(s)
  BY <1>1, <1>2, <1>3, CallsOfTurnIs
<1>5. /\ outcome'.verdict = Cl!Verdict /\ outcome'.calls = c
      /\ outcome'.cost = Cl!Larger(Cl!PriceOf(c), f.resultCost)
  BY <1>1, <1>2, <1>4 DEF Cl!Outcome, Cl!CostOf
<1>6. Cl!UsageKept'
  <2>1. outcome'.calls = Cl!CallsIn(s) /\ outcome'.cost = Cl!CostUpTo(s, Len(s))
    BY <1>3, <1>4, <1>5
  <2> QED BY <1>1, <1>2, <2>1 DEF Cl!UsageKept
<1>7. Cl!VerdictFollowsStream'
  <2>1. ASSUME ~ctxEnded, Cl!Complete(s) PROVE Cl!Verdict = "ok"
    BY <1>1, <1>2, <1>3, <2>1 DEF Cl!Verdict, CauseIs, ClaudeInv, ClaudeTypes
  <2>2. ASSUME ~ctxEnded, Cl!OverLimit(s) # {}, ~Cl!Complete(s) PROVE Cl!Verdict = "cost"
    BY <1>1, <1>2, <1>3, <2>2 DEF Cl!Verdict, CauseIs, ClaudeInv, ClaudeTypes
  <2>3. ~ctxEnded =>
          /\ Cl!Complete(s) => outcome'.verdict = "ok"
          /\ Cl!OverLimit(s) # {} /\ ~Cl!Complete(s) => outcome'.verdict = "cost"
    BY <1>5, <2>1, <2>2
  <2> QED BY <1>1, <1>2, <2>3 DEF Cl!VerdictFollowsStream
<1>8. (ClaudeTypes /\ Follows(found, stream, parsed) /\ CauseIs /\ GroupGone /\ AllParsed)'
  BY <1>1, <1>2 DEF ClaudeInv, ClaudeTypes, CauseIs, GroupGone, AllParsed, Follows
<1> QED BY <1>2, <1>6, <1>7, <1>8 DEF ClaudeInv

LEMMA ClaudeNext ==
  ASSUME ClaudeInv, [Cl!Next]_claudeVars
  PROVE  ClaudeInv'
<1> USE DEF ClaudeTypes
<1>t. /\ ClaudeTypes /\ Follows(found, stream, parsed) /\ CauseIs /\ GroupGone /\ AllParsed
      /\ run \in {"waits", "drains", "cut", "done"}
  BY DEF ClaudeInv
<1>0. PICK s, f, n : /\ s = stream /\ f = found /\ n = parsed
                     /\ s \in Streams /\ f \in Cl!FoundRecord /\ n \in 0..Len(s)
                     /\ Follows(f, s, n)
  BY <1>t
\* What a step of a turn that is not done has to keep.
<1>k. ASSUME UNCHANGED <<stream, parsed, found>>, (run' = "done" <=> run = "done"),
             run' = "done" => UNCHANGED <<ctxEnded, outcome>>,
             ctxEnded' \in BOOLEAN, cause' \in {"none", "cost", "ctx"}, CauseIs', GroupGone',
             run' \in {"waits", "drains", "cut", "done"}
      PROVE  ClaudeInv'
  <2>1. Follows(found, stream, parsed)'
    BY <1>0, <1>k DEF Follows
  <2>2. Cl!VerdictFollowsStream' /\ Cl!UsageKept'
    BY <1>0, <1>k DEF ClaudeInv, Cl!VerdictFollowsStream, Cl!UsageKept
  <2> QED BY <1>t, <1>k, <2>1, <2>2 DEF ClaudeInv, AllParsed
<1>1. CASE UNCHANGED claudeVars
  BY <1>t, <1>k, <1>1 DEF claudeVars, CauseIs, GroupGone
<1>2. ASSUME NEW e \in Cl!Event, Cl!Write(e) PROVE ClaudeInv'
  <2>1. /\ stream' = Append(s, e) /\ claude = "runs" /\ run = "waits"
        /\ UNCHANGED <<claude, child, parsed, found, ctxEnded, cause, run>>
    BY <1>0, <1>t, <1>2 DEF Cl!Write, GroupGone
  <2>2. PICK t : t = Append(s, e)
    OBVIOUS
  <2>3. t \in Streams /\ Len(t) = Len(s) + 1 /\ Len(s) \in Nat /\ Follows(f, t, n)
    BY <1>0, <2>2, FollowsMore, PrefixKept, StreamIs
  <2>4. ClaudeTypes' /\ Follows(found, stream, parsed)'
    BY <1>0, <1>t, <2>1, <2>2, <2>3 DEF Follows
  <2> QED BY <1>t, <2>1, <2>4
          DEF ClaudeInv, CauseIs, GroupGone, AllParsed, Cl!VerdictFollowsStream, Cl!UsageKept
<1>3. CASE \/ \E kind \in {"group", "detached"} : Cl!StartChild(kind)
           \/ Cl!ChildEnds \/ \E status \in {"ended", "failed"} : Cl!ClaudeEnds(status)
  <2>1. /\ UNCHANGED <<stream, parsed, found, ctxEnded, cause, run, outcome>> /\ GroupGone'
    BY <1>t, <1>3 DEF Cl!StartChild, Cl!ChildEnds, Cl!ClaudeEnds, GroupGone
  <2> QED BY <1>t, <1>k, <2>1 DEF CauseIs
<1>4. CASE Cl!Parse
  <2>1. /\ n < Len(s) /\ UNCHANGED <<claude, child, stream, ctxEnded, run, outcome>>
        /\ parsed' = n + 1
        /\ found' = IF s[n + 1].type = "assistant" THEN Cl!WithCall(f, s[n + 1].id)
                                                   ELSE Cl!WithResult(f, s[n + 1])
        /\ cause' = IF found'.limitReached /\ cause = "none" THEN "cost" ELSE cause
    BY <1>0, <1>4 DEF Cl!Parse, Cl!process
  <2>2. PICK g : g = found'
    OBVIOUS
  <2>3. n + 1 \in 1..Len(s) /\ n + 1 \in 0..Len(s) /\ Len(s) \in Nat
    BY <1>0, <2>1, StreamIs
  <2>4. g \in Cl!FoundRecord /\ Follows(g, s, n + 1)
    <3>1. CASE s[n + 1].type = "assistant"
      BY <1>0, <2>1, <2>2, <3>1, FollowsCall
    <3>2. CASE s[n + 1].type # "assistant"
      <4>1. s[n + 1] \in Cl!Event
        BY <1>0, <2>3, StreamIs
      <4>2. s[n + 1].type = "result"
        BY <3>2, <4>1, EventIs
      <4> QED BY <1>0, <2>1, <2>2, <3>2, <4>2, FollowsResult
    <3> QED BY <3>1, <3>2
  <2>5. f.limitReached => g.limitReached
    BY <1>0, <2>3, <2>4, OverLimitIs DEF Follows
  <2>6. CauseIs' /\ cause' \in {"none", "cost", "ctx"}
    BY <1>0, <1>t, <2>1, <2>2, <2>5 DEF CauseIs
  <2>7. run # "done"
    BY <1>0, <1>t, <2>1, <2>3 DEF AllParsed
  <2>8. Follows(found, stream, parsed)'
    BY <1>0, <2>1, <2>2, <2>4 DEF Follows
  <2> QED BY <1>0, <1>t, <2>1, <2>2, <2>3, <2>4, <2>6, <2>7, <2>8
          DEF ClaudeInv, GroupGone, AllParsed, Cl!VerdictFollowsStream, Cl!UsageKept
<1>5. CASE Cl!ContextEnds
  <2>1. /\ UNCHANGED <<claude, child, stream, parsed, found, run>> /\ run # "done"
        /\ ctxEnded' = TRUE /\ cause' = IF cause = "none" THEN "ctx" ELSE cause
    BY <1>5 DEF Cl!ContextEnds, Cl!process
  <2> QED BY <1>t, <1>k, <2>1 DEF CauseIs, GroupGone
<1>6. CASE Cl!Cancel
  <2>1. UNCHANGED <<claude, child, stream, parsed, found, ctxEnded, cause, run, outcome>>
    BY <1>6 DEF Cl!Cancel, Cl!process
  <2> QED BY <1>t, <1>k, <2>1 DEF CauseIs, GroupGone
<1>7. CASE Cl!KillTimer
  <2>1. UNCHANGED <<stream, parsed, found, ctxEnded, cause, run, outcome>> /\ GroupGone'
    BY <1>t, <1>7 DEF Cl!KillTimer, Cl!GroupKilled, GroupGone
  <2> QED BY <1>t, <1>k, <2>1 DEF CauseIs
<1>8. CASE Cl!WaitReturns
  <2>1. /\ UNCHANGED <<stream, parsed, found, ctxEnded, cause, outcome>>
        /\ run = "waits" /\ run' \in {"drains", "cut"} /\ GroupGone'
    BY <1>t, <1>8 DEF Cl!WaitReturns, Cl!Reap, Cl!AfterWait, Cl!GroupKilled, GroupGone
  <2> QED BY <1>t, <1>k, <2>1 DEF CauseIs
<1>9. CASE Cl!Returns
  BY <1>9, ClaudeReturns
<1>10. CASE Cl!NextRun
  <2>1. /\ stream' = <<>> /\ parsed' = 0 /\ found' = Cl!NothingFound /\ ctxEnded' = FALSE
        /\ cause' = "none" /\ run' = "waits"
    BY <1>10 DEF Cl!NextRun
  <2>2. ClaudeTypes'
    <3>1. parsed' \in 0..Len(stream')
      BY <2>1, ClaudeStart, Zenon
    <3> QED BY <2>1, <3>1, ClaudeStart
  <2>3. Follows(found, stream, parsed)'
    BY <2>1, ClaudeStart DEF Follows
  <2> QED BY <2>1, <2>2, <2>3, ClaudeStart
          DEF ClaudeInv, CauseIs, GroupGone, AllParsed,
              Cl!VerdictFollowsStream, Cl!UsageKept
<1> QED BY <1>1, <1>2, <1>3, <1>4, <1>5, <1>6, <1>7, <1>8, <1>9, <1>10 DEF Cl!Next

LEMMA ClaudeAlways == PartsSpec => []ClaudeInv
<1>1. PartsInit => ClaudeInv
  <2> SUFFICES ASSUME Cl!Init PROVE ClaudeInv
    BY DEF PartsInit
  <2>1. /\ stream = <<>> /\ parsed = 0 /\ found = Cl!NothingFound /\ ctxEnded = FALSE
        /\ cause = "none" /\ run = "waits"
    BY DEF Cl!Init
  <2>2. Follows(found, stream, parsed) /\ parsed \in 0..Len(stream)
    BY <2>1, ClaudeStart, Zenon
  <2> QED BY <2>1, <2>2, ClaudeStart
          DEF ClaudeInv, ClaudeTypes, CauseIs, GroupGone, AllParsed,
              Cl!VerdictFollowsStream, Cl!UsageKept
<1>2. ClaudeInv /\ [PartsNext]_partsVars => ClaudeInv'
  BY ClaudeNext DEF PartsNext, partsVars
<1> QED BY <1>1, <1>2, PTL DEF PartsSpec

\* How a turn ended does not depend on how far the parser was when the process
\* ended, for any stream, prices and limit: at each event the parser knows
\* whether the events so far are over the limit, and whether the last result is
\* an answer that came after it (parseStream and Run of claude.go).
THEOREM VerdictOfStream == PartsSpec => []VerdictFollowsStream
<1>1. ClaudeInv => VerdictFollowsStream
  BY DEF ClaudeInv, VerdictFollowsStream
<1> QED BY <1>1, ClaudeAlways, PTL

\* The usage of a turn has every call of its stream once, whatever part of the
\* transcript was written: a transcript with as many calls as the stream has the
\* same ones (transcriptCalls and sumUsage of transcript.go and claude.go).
THEOREM AllUsageKept == PartsSpec => []UsageKept
<1>1. ClaudeInv => UsageKept
  BY DEF ClaudeInv, UsageKept
<1> QED BY <1>1, ClaudeAlways, PTL

\* When Run returned, Claude ended and the commands of its group are killed,
\* however the turn was stopped (Run of claude.go).
THEOREM GroupIsGone == PartsSpec => []NothingLeftBehind
<1>1. ClaudeInv => NothingLeftBehind
  BY DEF ClaudeInv, GroupGone, NothingLeftBehind, Cl!NothingLeftBehind
<1> QED BY <1>1, ClaudeAlways, PTL
===============================================================================
