------------------------------ MODULE PartsProofs ------------------------------
(***************************************************************************)
(* The types of all parts, for every value of their constants.  Each proof *)
(* adds to the invariant of a part (TurnProofs, FilesProofs, WakeProofs,   *)
(* IntakeProofs, SessionsProofs) what its proof did not need.              *)
(***************************************************************************)
EXTENDS TurnProofs, FilesProofs, WakeProofs, IntakeProofs

-----------------------------------------------------------------------------
(* A sum of prices is a number *)

\* What MapThenSumSet computes for the set s, from what it has for less.
PriceStep(s, sums) ==
  IF s = {} THEN 0
  ELSE LET x == CHOOSE x \in s : TRUE IN Price[x] + sums[s \ {x}]

SetsUpTo(S, n) == {s \in SUBSET S : Cardinality(s) <= n}
SumsOf(D, sums) == sums = [s \in D |-> PriceStep(s, sums)]

\* A set of numbers that has 0 and the successor of each of its numbers.
LEMMA AllNumbers ==
  ASSUME NEW N \in SUBSET Nat, 0 \in N, \A n \in N : n + 1 \in N
  PROVE  N = Nat
<1> SUFFICES ASSUME N # Nat PROVE FALSE
  OBVIOUS
<1> DEFINE B == Nat \ N
<1>1. PICK m : m = Cl!Min(B)
  OBVIOUS
<1>2. m \in B /\ \A y \in B : m <= y
  BY <1>1, MinIs
<1>3. m - 1 \in Nat /\ m - 1 \notin B
  BY <1>2
<1> QED BY <1>2, <1>3

LEMMA LessOne ==
  ASSUME NEW S, IsFiniteSet(S), NEW s \in SUBSET S, s # {}
  PROVE  LET x == CHOOSE x \in s : TRUE
         IN  /\ x \in s /\ s \ {x} \in SUBSET S
             /\ Cardinality(s \ {x}) = Cardinality(s) - 1
             /\ Cardinality(s) \in Nat \ {0} /\ Cardinality(s \ {x}) \in Nat
<1> DEFINE x == CHOOSE x \in s : TRUE
<1>1. x \in s /\ IsFiniteSet(s)
  BY FS_Subset
<1>2. /\ Cardinality(s \ {x}) = Cardinality(s) - 1 /\ Cardinality(s) \in Nat
      /\ Cardinality(s \ {x}) \in Nat
  BY <1>1, FS_RemoveElement, FS_CardinalityType, FS_Subset
<1> QED BY <1>1, <1>2

LEMMA NoneLess ==
  ASSUME NEW S, IsFiniteSet(S), NEW s \in SetsUpTo(S, 0)
  PROVE  s = {}
<1> SUFFICES ASSUME s # {} PROVE FALSE
  OBVIOUS
<1>1. Cardinality(s) \in Nat \ {0} /\ Cardinality(s) <= 0
  BY LessOne DEF SetsUpTo
<1> QED BY <1>1

LEMMA NoPrice ==
  ASSUME NEW sums
  PROVE  PriceStep({}, sums) = 0
BY Zenon DEF PriceStep

LEMMA SumsExist ==
  ASSUME NEW S, IsFiniteSet(S)
  PROVE  \E sums : SumsOf(SUBSET S, sums)
<1> DEFINE N == {n \in Nat : \E sums : SumsOf(SetsUpTo(S, n), sums)}
<1>1. 0 \in N
  <2> DEFINE h == [s \in SetsUpTo(S, 0) |-> 0]
  <2>1. \A s \in SetsUpTo(S, 0) : PriceStep(s, h) = 0
    BY NoneLess, NoPrice
  <2>2. SumsOf(SetsUpTo(S, 0), h)
    BY <2>1 DEF SumsOf
  <2> QED BY <2>2
<1>2. ASSUME NEW n \in N PROVE n + 1 \in N
  <2>1. PICK h : SumsOf(SetsUpTo(S, n), h)
    OBVIOUS
  <2> DEFINE D == SetsUpTo(S, n)
             E == SetsUpTo(S, n + 1)
             g == [s \in E |-> PriceStep(s, h)]
  <2>2. n \in Nat
    OBVIOUS
  <2>3. \A s \in D : s \in E /\ h[s] = PriceStep(s, h)
    <3>1. ASSUME NEW s \in D PROVE s \in E
      <4>1. s \in SUBSET S /\ Cardinality(s) <= n /\ IsFiniteSet(s)
        BY <3>1, FS_Subset DEF SetsUpTo
      <4>2. Cardinality(s) \in Nat
        BY <4>1, FS_CardinalityType
      <4> QED BY <2>2, <4>1, <4>2 DEF SetsUpTo
    <3> QED BY <2>1, <3>1 DEF SumsOf
  <2>4. \A s \in D : g[s] = h[s]
    BY <2>3
  <2>5. ASSUME NEW s \in E PROVE PriceStep(s, h) = PriceStep(s, g)
    <3>1. CASE s = {}
      BY <3>1 DEF PriceStep
    <3>2. CASE s # {}
      <4> DEFINE x == CHOOSE x \in s : TRUE
      <4>1. s \in SUBSET S /\ Cardinality(s) <= n + 1
        BY <2>5 DEF SetsUpTo
      <4>2. s \ {x} \in SUBSET S /\ Cardinality(s \ {x}) <= n
        BY <2>2, <3>2, <4>1, LessOne
      <4>3. s \ {x} \in D
        BY <4>2 DEF SetsUpTo
      <4>4. h[s \ {x}] = g[s \ {x}]
        BY <2>4, <4>3
      <4> QED BY <3>2, <4>4 DEF PriceStep
    <3> QED BY <3>1, <3>2
  <2>6. SumsOf(E, g)
    BY <2>5 DEF SumsOf
  <2> QED BY <2>2, <2>6
<1>3. N = Nat
  <2> HIDE DEF N
  <2>1. N \in SUBSET Nat
    BY DEF N
  <2> QED BY <1>1, <1>2, <2>1, AllNumbers
<1>4. SetsUpTo(S, Cardinality(S)) = SUBSET S
  BY FS_Subset DEF SetsUpTo
<1>5. Cardinality(S) \in N
  BY <1>3, FS_CardinalityType
<1> QED BY <1>4, <1>5

\* The estimated cost of finitely many calls is a number.
LEMMA PriceIsNumber ==
  ASSUME NEW S \in SUBSET Calls, IsFiniteSet(S)
  PROVE  Cl!PriceOf(S) \in Nat
<1> DEFINE sums == CHOOSE sums : SumsOf(SUBSET S, sums)
<1>1. SumsOf(SUBSET S, sums)
  BY SumsExist
<1>2. Cl!PriceOf(S) = sums[S]
  BY DEF Cl!PriceOf, Cl!MapThenSumSet, Cl!MapThenFoldSet, SumsOf, PriceStep
<1> HIDE DEF sums
<1> DEFINE N == {n \in Nat : \A s \in SetsUpTo(S, n) : sums[s] \in Nat}
<1>3. \A s \in SUBSET S : sums[s] = PriceStep(s, sums)
  BY <1>1 DEF SumsOf
<1>4. 0 \in N
  <2> SUFFICES ASSUME NEW s \in SetsUpTo(S, 0) PROVE sums[s] \in Nat
    OBVIOUS
  <2>1. s \in SUBSET S /\ s = {}
    BY NoneLess DEF SetsUpTo
  <2>2. PriceStep(s, sums) = 0
    BY <2>1, NoPrice
  <2> QED BY <1>3, <2>1, <2>2
<1>5. ASSUME NEW n \in N PROVE n + 1 \in N
  <2> SUFFICES ASSUME NEW s \in SetsUpTo(S, n + 1) PROVE sums[s] \in Nat
    OBVIOUS
  <2>1. s \in SUBSET S /\ Cardinality(s) <= n + 1 /\ n \in Nat
    BY DEF SetsUpTo
  <2>2. CASE s = {}
    <3>1. PriceStep(s, sums) = 0
      BY <2>2, NoPrice
    <3> QED BY <1>3, <2>1, <3>1
  <2>3. CASE s # {}
    <3> DEFINE x == CHOOSE x \in s : TRUE
    <3>1. x \in s /\ s \ {x} \in SUBSET S /\ Cardinality(s \ {x}) <= n
      BY <2>1, <2>3, LessOne
    <3>2. sums[s \ {x}] \in Nat
      BY <3>1 DEF SetsUpTo
    <3>3. Price[x] \in Nat
      BY <2>1, <3>1, ClaudeAssumption
    <3>4. sums[s] = Price[x] + sums[s \ {x}]
      BY <1>3, <2>1, <2>3 DEF PriceStep
    <3> QED BY <3>2, <3>3, <3>4
  <2> QED BY <2>2, <2>3
<1>6. N = Nat
  <2> HIDE DEF N
  <2>1. N \in SUBSET Nat
    BY DEF N
  <2> QED BY <1>4, <1>5, <2>1, AllNumbers
<1>7. S \in SetsUpTo(S, Cardinality(S)) /\ Cardinality(S) \in Nat
  BY FS_CardinalityType DEF SetsUpTo
<1>8. sums[S] \in Nat
  BY <1>6, <1>7
<1> QED BY <1>2, <1>8

-----------------------------------------------------------------------------
(* ClaudeRun *)

\* What ClaudeInv does not have of TypeOK.
RunTypes ==
  /\ Len(stream) <= MaxStream
  /\ claude \in {"runs", "ended", "failed"}
  /\ child \in {"none", "group", "detached"}
  /\ killTimer \in {"off", "set", "fired"}
  /\ outcome.verdict \in {"none", "ok", "cost", "stopped", "failed"}
  /\ outcome.calls \subseteq Calls /\ outcome.cost \in Nat

\* What Run returns.
LEMMA OutcomeTypes ==
  ASSUME ClaudeInv, Cl!Returns
  PROVE  /\ outcome'.verdict \in {"none", "ok", "cost", "stopped", "failed"}
         /\ outcome'.calls \subseteq Calls /\ outcome'.cost \in Nat
<1>1. PICK s, f, t : s = stream /\ f = found /\ t \in SUBSET Cl!CallsIn(s) /\ Cl!Return(t)
  BY DEF Cl!Returns
<1>2. /\ s \in Streams /\ f \in Cl!FoundRecord /\ Follows(f, s, Len(s))
      /\ outcome' = Cl!Outcome(Cl!Verdict, Cl!CallsOfTurn(t), Cl!CostOf(Cl!CallsOfTurn(t)))
  BY <1>1 DEF ClaudeInv, ClaudeTypes, Cl!Return
<1>3. f.calls = Cl!CallsIn(s)
  BY <1>2, AtTheEnd
<1>4. PICK c : c = Cl!CallsOfTurn(t) /\ c = Cl!CallsIn(s)
  BY <1>1, <1>2, <1>3, CallsOfTurnIs
<1>5. c \in SUBSET Calls /\ IsFiniteSet(c)
  BY <1>2, <1>3, <1>4, CallsFinite DEF Cl!FoundRecord
<1>6. Cl!PriceOf(c) \in Nat /\ f.resultCost \in Nat
  <2>1. f.resultCost \in Reported \cup {0}
    BY <1>2 DEF Cl!FoundRecord
  <2>2. \A x \in Reported \cup {0} : x \in Nat
    BY ClaudeAssumption
  <2> QED BY <1>5, <2>1, <2>2, PriceIsNumber
<1>7. /\ outcome'.verdict = Cl!Verdict /\ outcome'.calls = c
      /\ outcome'.cost = Cl!Larger(Cl!PriceOf(c), f.resultCost)
  BY <1>1, <1>2, <1>4 DEF Cl!Outcome, Cl!CostOf
<1>8. outcome'.cost \in Nat
  BY <1>6, <1>7 DEF Cl!Larger
<1>9. Cl!Verdict \in {"none", "ok", "cost", "stopped", "failed"}
  BY DEF Cl!Verdict
<1> QED BY <1>5, <1>7, <1>8, <1>9

LEMMA RunTypesNext ==
  ASSUME ClaudeInv, RunTypes, [Cl!Next]_claudeVars
  PROVE  RunTypes'
<1> USE DEF RunTypes
<1>1. CASE UNCHANGED claudeVars
  BY <1>1 DEF claudeVars
<1>2. ASSUME NEW e \in Cl!Event, Cl!Write(e) PROVE RunTypes'
  <2>1. stream \in Seq(Cl!Event)
    BY DEF ClaudeInv, ClaudeTypes, Streams
  <2>2. Len(Append(stream, e)) = Len(stream) + 1 /\ Len(stream) \in Nat
    BY <2>1, AppendProperties, LenProperties
  <2> QED BY <1>2, <2>2, ClaudeAssumption DEF Cl!Write
<1>3. CASE \/ \E kind \in {"group", "detached"} : Cl!StartChild(kind)
           \/ Cl!ChildEnds \/ \E status \in {"ended", "failed"} : Cl!ClaudeEnds(status)
  BY <1>3 DEF Cl!StartChild, Cl!ChildEnds, Cl!ClaudeEnds
<1>4. CASE Cl!Parse \/ Cl!ContextEnds \/ Cl!Cancel
  BY <1>4 DEF Cl!Parse, Cl!ContextEnds, Cl!Cancel, Cl!process
<1>5. CASE Cl!KillTimer \/ Cl!WaitReturns
  BY <1>5 DEF Cl!KillTimer, Cl!WaitReturns, Cl!AfterWait, Cl!GroupKilled
<1>6. CASE Cl!Returns
  <2>1. UNCHANGED <<claude, child, stream, killTimer>>
    BY <1>6 DEF Cl!Returns, Cl!Return, Cl!process
  <2> QED BY <1>6, <2>1, OutcomeTypes
<1>7. CASE Cl!NextRun
  <2>1. Len(<<>>) <= MaxStream
    BY EmptySeq, ClaudeAssumption
  <2> QED BY <1>7, <2>1 DEF Cl!NextRun, Cl!NoOutcome, Cl!Outcome
<1> QED BY <1>1, <1>2, <1>3, <1>4, <1>5, <1>6, <1>7 DEF Cl!Next

LEMMA ClaudeTyped == PartsSpec => []Cl!TypeOK
<1>1. PartsInit => RunTypes
  <2>1. Len(<<>>) <= MaxStream
    BY EmptySeq, ClaudeAssumption
  <2> QED BY <2>1 DEF PartsInit, Cl!Init, RunTypes, Cl!NoOutcome, Cl!Outcome
<1>2. ClaudeInv /\ RunTypes /\ [PartsNext]_partsVars => RunTypes'
  BY RunTypesNext DEF PartsNext, partsVars
<1>3. ClaudeInv /\ RunTypes => Cl!TypeOK
  BY DEF ClaudeInv, ClaudeTypes, RunTypes, Streams, Cl!TypeOK
<1> QED BY <1>1, <1>2, <1>3, ClaudeAlways, PTL DEF PartsSpec

-----------------------------------------------------------------------------
(* Hook *)

\* What HookInv does not have of TypeOK.
ChecksTyped == checkMu \subseteq Hooks /\ seen \subseteq Items /\ turnLives \in BOOLEAN

LEMMA HookTyped == PartsSpec => []Ho!TypeOK
<1>1. PartsInit => HookTypes /\ ChecksTyped
  BY IdleHook DEF PartsInit, Ho!Init, HookTypes, ChecksTyped
<1>2. HookInv /\ ChecksTyped /\ [PartsNext]_partsVars => ChecksTyped'
  <2> SUFFICES ASSUME HookTypes, ChecksTyped, [Ho!Next]_hookVars PROVE ChecksTyped'
    BY DEF PartsNext, partsVars, HookInv
  <2> USE DEF HookTypes, ChecksTyped
  <2>1. CASE UNCHANGED hookVars
    BY <2>1 DEF hookVars
  <2>2. ASSUME NEW i \in Items, Ho!Arrive(i) PROVE ChecksTyped'
    BY <2>2 DEF Ho!Arrive
  <2>3. ASSUME NEW h \in Hooks, Ho!Check(h) PROVE ChecksTyped'
    BY <2>3 DEF Ho!Check, Ho!Send, Ho!Receive, Ho!Lock, Ho!Give, Ho!ReadFails,
                Ho!Deliver, Ho!GiveUp
  <2>4. CASE Ho!EndTurn \/ Ho!NextTurn \/ Ho!Tick
    BY <2>4 DEF Ho!EndTurn, Ho!NextTurn, Ho!Tick
  <2> QED BY <2>1, <2>2, <2>3, <2>4 DEF Ho!Next
<1>3. HookInv /\ ChecksTyped => Ho!TypeOK
  BY DEF HookInv, HookTypes, ChecksTyped, Ho!TypeOK
<1> QED BY <1>1, <1>2, <1>3, HookAlways, PTL DEF PartsSpec

-----------------------------------------------------------------------------
(* CardTools *)

\* What ToolInv does not have of TypeOK.
CardsTyped == spot \in [Targets -> Spots] /\ DOMAIN facts = Targets /\ posts <= MaxPosts

LEMMA EffectTypes ==
  ASSUME ToolInv, CardsTyped, NEW k \in Callers, Ct!Sent(k)
  PROVE  CardsTyped'
<1>1. PICK r : r = call[k] /\ r.at = "sends" /\ Ct!Accepts(r) /\ Ct!Effect(r)
  BY DEF Ct!Sent
<1>2. /\ r.tool \in ToolCalls /\ r.tool.card \in Targets
      /\ Ct!Moves(r.tool) => r.target \in Spots
  <2>1. CallRecord(r) /\ Aims(r)
    BY <1>1 DEF ToolInv, CallOk, Ct!NoCall
  <2> QED BY <2>1, ToolKinds DEF CallRecord, Aims
<1>3. spot' \in [Targets -> Spots]
  BY <1>1, <1>2 DEF Ct!Effect, CardsTyped
<1>4. DOMAIN facts' = Targets
  BY <1>1 DEF Ct!Effect, CardsTyped
<1>5. posts' <= MaxPosts
  BY <1>1, ToolsAssumption DEF Ct!Effect, Ct!Accepts, CardsTyped, ToolInv, ToolTypes
<1> QED BY <1>3, <1>4, <1>5 DEF CardsTyped

LEMMA ToolsTyped == PartsSpec => []Ct!TypeOK
<1>1. PartsInit => CardsTyped
  BY ToolsAssumption DEF PartsInit, Ct!Init, CardsTyped
<1>2. ToolInv /\ CardsTyped /\ [PartsNext]_partsVars => CardsTyped'
  <2> SUFFICES ASSUME ToolInv, CardsTyped, [Ct!Next]_toolVars PROVE CardsTyped'
    BY DEF PartsNext, partsVars
  <2>1. CASE UNCHANGED toolVars
    BY <2>1 DEF toolVars, CardsTyped
  <2>2. ASSUME NEW k \in Callers, NEW tool \in ToolCalls, Ct!Begin(k, tool)
        PROVE  CardsTyped'
    BY <2>2 DEF Ct!Begin, CardsTyped
  <2>3. ASSUME NEW k \in Callers, Ct!Sent(k) \/ Ct!Ends(k) PROVE CardsTyped'
    BY <2>3, EffectTypes DEF Ct!Ends, CardsTyped
  <2>4. ASSUME NEW c \in Targets, NEW x \in Edited, Ct!PersonEdits(c, x)
        PROVE  CardsTyped'
    BY <2>4 DEF Ct!PersonEdits, CardsTyped
  <2> QED BY <2>1, <2>2, <2>3, <2>4 DEF Ct!Next
<1>3. ToolInv /\ CardsTyped => Ct!TypeOK
  <2> SUFFICES ASSUME ToolInv, CardsTyped PROVE Ct!TypeOK
    OBVIOUS
  <2>1. posts \in 0..MaxPosts
    BY ToolsAssumption DEF ToolInv, ToolTypes, CardsTyped
  <2>2. ASSUME NEW k \in Callers PROVE Ct!IsCall(call[k])
    BY <2>2 DEF ToolInv, CallOk, CallRecord, Ct!IsCall
  <2> QED BY <2>1, <2>2 DEF CardsTyped, Ct!TypeOK
<1> QED BY <1>1, <1>2, <1>3, ToolAlways, PTL DEF PartsSpec

-----------------------------------------------------------------------------
(* Startup *)

\* What StartupInv does not have of TypeOK.
PathsTyped ==
  /\ {hasStaging, hasData, otherMark} \subseteq BOOLEAN
  /\ lock \subseteq Commands /\ socket \subseteq Commands

LEMMA StartupTyped == PartsSpec => []St!TypeOK
<1>1. PartsInit => PathsTyped
  BY DEF PartsInit, St!Init, PathsTyped
<1>2. PathsTyped /\ [PartsNext]_partsVars => PathsTyped'
  <2> SUFFICES ASSUME PathsTyped, [St!Next]_startupVars PROVE PathsTyped'
    BY DEF PartsNext, partsVars
  <2> USE DEF PathsTyped
  <2>1. CASE UNCHANGED startupVars
    BY <2>1 DEF startupVars
  <2>2. ASSUME NEW layout, NEW made, St!EarlierVersion(layout, made) PROVE PathsTyped'
    BY <2>2 DEF St!EarlierVersion
  <2>3. CASE St!OtherAccount
    BY <2>3 DEF St!OtherAccount
  <2>4. ASSUME NEW p \in Commands, St!Step(p) PROVE PathsTyped'
    <3>1. CASE St!Start(p) \/ St!RenamePrevious(p) \/ St!NothingToMove(p) \/ St!BeginMove(p)
      BY <3>1 DEF St!Start, St!RenamePrevious, St!NothingToMove, St!BeginMove, St!dirs
    <3>2. CASE St!MoveNext(p) \/ St!FinishMove(p) \/ St!MakeDir(p)
      BY <3>2 DEF St!MoveNext, St!FinishMove, St!MakeDir, St!dirs
    <3>3. CASE St!CheckIdentity(p) \/ St!WriteIdentity(p) \/ St!Identify(p)
      BY <3>3 DEF St!CheckIdentity, St!WriteIdentity, St!Identify, St!dirs
    <3>4. CASE St!TakeLock(p) \/ St!Unlink(p) \/ St!Bind(p)
      BY <3>4 DEF St!TakeLock, St!Unlink, St!Bind, St!LockKept, St!dirs
    <3>5. CASE St!Close(p) \/ St!Exit(p) \/ St!Crash(p)
      BY <3>5 DEF St!Close, St!Exit, St!Crash, St!ProcessEnds, St!dirs
    <3> QED BY <2>4, <3>1, <3>2, <3>3, <3>4, <3>5 DEF St!Step
  <2> QED BY <2>1, <2>2, <2>3, <2>4 DEF St!Next
<1>3. StartupInv /\ PathsTyped => St!TypeOK
  BY DEF StartupInv, CmdTypes, PathsTyped, St!TypeOK
<1> QED BY <1>1, <1>2, <1>3, StartupAlways, PTL DEF PartsSpec

-----------------------------------------------------------------------------
(* Logs *)

LEMMA LogsTyped == PartsSpec => []Lo!TypeOK
<1> DEFINE Holders == logFiles \subseteq Cards \cup {Lo!Sweeper}
<1>1. PartsInit => Holders
  BY DEF PartsInit, Lo!Init
<1>2. Holders /\ [PartsNext]_partsVars => Holders'
  <2> SUFFICES ASSUME Holders, [Lo!Next]_logVars PROVE Holders'
    BY DEF PartsNext, partsVars
  <2>1. CASE UNCHANGED logVars
    BY <2>1 DEF logVars
  <2>2. ASSUME NEW c \in Cards, Lo!Turn(c) \/ Lo!NextLog(c) PROVE Holders'
    BY <2>2 DEF Lo!Turn, Lo!NextLog, Lo!StartTurn, Lo!Lock, Lo!Open, Lo!Touch, Lo!Write,
                Lo!RunAgain, Lo!EndTurn
  <2>3. CASE Lo!ListLogs \/ Lo!LockSweep \/ Lo!Stat \/ Lo!RemoveLog \/ Lo!SweepEnds \/ Lo!Tick
    BY <2>3 DEF Lo!ListLogs, Lo!LockSweep, Lo!Stat, Lo!RemoveLog, Lo!SweepEnds, Lo!Tick
  <2> QED BY <2>1, <2>2, <2>3 DEF Lo!Next
<1>3. LogInv /\ Holders => Lo!TypeOK
  BY DEF LogInv, LogTypes, SweepRecord, Lo!TypeOK
<1> QED BY <1>1, <1>2, <1>3, LogAlways, PTL DEF PartsSpec

-----------------------------------------------------------------------------
(* Triggers *)

\* What TriggerInv does not have of TypeOK.
WorkTyped ==
  /\ members \subseteq Users /\ left \subseteq Users /\ wrote \subseteq Users \X Words
  /\ work \subseteq Tr!AllTexts /\ changes \in 0..MaxChanges

LEMMA TriggersTyped == PartsSpec => []Tr!TypeOK
<1>1. PartsInit => WorkTyped
  BY TriggersAssumption DEF PartsInit, Tr!Init, WorkTyped
<1>2. TriggerInv /\ WorkTyped /\ [PartsNext]_partsVars => WorkTyped'
  <2> SUFFICES ASSUME TriggerTypes, WorkTyped, [Tr!Next]_triggerVars PROVE WorkTyped'
    BY DEF PartsNext, partsVars, TriggerInv
  <2> USE DEF WorkTyped
  <2>0. Tr!Changed => changes' \in 0..MaxChanges
    BY TriggersAssumption DEF Tr!Changed
  <2>1. CASE UNCHANGED triggerVars
    BY <2>1 DEF triggerVars
  <2>2. ASSUME NEW p \in Users, Tr!Join(p) \/ Tr!Leave(p) PROVE WorkTyped'
    BY <2>2 DEF Tr!Join, Tr!Leave, Tr!past
  <2>3. ASSUME NEW p \in Users, Tr!Edits(p) PROVE WorkTyped'
    <3>1. PICK new : Tr!Edit(p, new)
      BY <2>3, EditIs DEF TriggerTypes
    <3> QED BY <2>0, <3>1 DEF Tr!Edit, Tr!past
  <2>4. ASSUME NEW p \in Users, Tr!MentionsBot(p) PROVE WorkTyped'
    <3>1. PICK words \in Words, rest \in Tr!AllParts : Tr!Mention(p, words, rest)
      BY <2>4, MentionIs DEF TriggerTypes
    <3> QED BY <2>0, <3>1 DEF Tr!Mention
  <2>5. CASE Tr!OtherEvent
    BY <2>0, <2>5 DEF Tr!OtherEvent, Tr!past
  <2>6. CASE Tr!Record
    BY <2>6 DEF Tr!Record, TriggerTypes, Looks
  <2>7. CASE \/ Tr!BeginScan \/ Tr!ReadCard \/ Tr!ReadMembers \/ Tr!PostNotice
             \/ Tr!SaveNotice \/ Tr!Mark \/ Tr!ScanFails
    BY <2>7 DEF Tr!BeginScan, Tr!ReadCard, Tr!ReadMembers, Tr!PostNotice, Tr!SaveNotice,
                Tr!Mark, Tr!ScanFails, Tr!past
  <2> QED BY <2>1, <2>2, <2>3, <2>4, <2>5, <2>6, <2>7 DEF Tr!Next
<1>3. TriggerInv /\ WorkTyped => Tr!TypeOK
  BY DEF TriggerInv, TriggerTypes, Looks, Evidences, WorkTyped, Tr!TypeOK
<1> QED BY <1>1, <1>2, <1>3, TriggerAlways, PTL DEF PartsSpec

-----------------------------------------------------------------------------
(* Cable *)

\* What CableInv does not have of TypeOK.
SocketTyped ==
  /\ Len(wire) <= MaxWire
  /\ news \in BOOLEAN /\ link \in BOOLEAN /\ subscribed \in BOOLEAN
  /\ connected \in BOOLEAN /\ signal \in BOOLEAN
  /\ login \in {"none", "good", "bad"}
  /\ conn \in {"off", "asks", "open", "subscribes", "ready", "ended"}
  /\ fetching.at \in {"lists", "handles", "polls", "waits"} /\ fetching.failed \in BOOLEAN

\* A wire that gets no longer, and one more message.
LEMMA WireEmpty ==
  ASSUME NEW s, s = <<>>
  PROVE  Len(s) = 0 /\ Len(s) <= MaxWire
<1>1. Len(s) = 0
  BY EmptySeq, Zenon
<1> QED BY <1>1, CableAssumption

LEMMA WireRead ==
  ASSUME wire \in Seq(Ca!Messages), Len(wire) <= MaxWire, wire # <<>>
  PROVE  Len(Tail(wire)) <= MaxWire
<1>1. Len(Tail(wire)) = Len(wire) - 1 /\ Len(wire) \in Nat
  BY HeadTailProperties, LenProperties
<1> QED BY <1>1, CableAssumption

LEMMA WireSent ==
  ASSUME wire \in Seq(Ca!Messages), wire = <<>> \/ Len(wire) < MaxWire,
         NEW message \in Ca!Messages, Ca!Transmit(message)
  PROVE  Len(wire') <= MaxWire
<1>1. wire' = Append(wire, message)
  BY DEF Ca!Transmit
<1>2. Len(Append(wire, message)) = Len(wire) + 1 /\ Len(wire) \in Nat
  BY AppendProperties, LenProperties
<1>3. wire = <<>> => Len(wire) = 0
  BY WireEmpty
<1> QED BY <1>1, <1>2, <1>3, CableAssumption

LEMMA CableTyped == PartsSpec => []Ca!TypeOK
<1>1. PartsInit => SocketTyped
  <2> SUFFICES ASSUME Ca!Init PROVE SocketTyped
    BY DEF PartsInit
  <2>1. Len(wire) <= MaxWire
    BY WireEmpty DEF Ca!Init
  <2>2. fetching.at = "lists" /\ fetching.failed = FALSE
    BY DEF Ca!Init
  <2> QED BY <2>1, <2>2 DEF Ca!Init, SocketTyped
<1>2. CableInv /\ SocketTyped /\ [PartsNext]_partsVars => SocketTyped'
  <2> SUFFICES ASSUME wire \in Seq(Ca!Messages), SocketTyped, [Ca!Next]_cableVars
               PROVE  SocketTyped'
    BY DEF PartsNext, partsVars, CableInv
  <2>0. {"welcome", "confirm", "broadcast"} \subseteq Ca!Messages
    BY DEF Ca!Messages
  <2> USE <2>0 DEF SocketTyped
  <2>1. CASE UNCHANGED cableVars
    BY <2>1 DEF cableVars
  <2>2. CASE Ca!Notify
    <3>1. Len(wire') <= MaxWire
      BY <2>2, WireSent DEF Ca!Notify
    <3> QED BY <2>2, <3>1 DEF Ca!Notify
  <2>3. CASE Ca!Welcome \/ Ca!Subscribe \/ Ca!Confirm
    <3>1. Len(wire') <= MaxWire
      BY <2>3, WireSent DEF Ca!Welcome, Ca!Subscribe, Ca!Confirm
    <3> QED BY <2>3, <3>1 DEF Ca!Welcome, Ca!Subscribe, Ca!Confirm, Ca!server
  <2>4. ASSUME NEW cookie \in {login, "bad"}, Ca!Break(cookie) PROVE SocketTyped'
    <3>1. Len(wire') <= MaxWire
      BY <2>4, WireEmpty DEF Ca!Break
    <3> QED BY <2>4, <3>1 DEF Ca!Break
  <2>5. CASE Ca!LogIn \/ Ca!AskStream \/ Ca!Dial \/ Ca!Disconnected
    BY <2>5 DEF Ca!LogIn, Ca!AskStream, Ca!Dial, Ca!Disconnected, Ca!server, Ca!socketVars
  <2>6. CASE Ca!ReadWelcome \/ Ca!ReadConfirm \/ Ca!ReadBroadcast
    <3>1. Len(wire') <= MaxWire
      BY <2>6, WireRead DEF Ca!ReadWelcome, Ca!ReadConfirm, Ca!ReadBroadcast
    <3> QED BY <2>6, <3>1
            DEF Ca!ReadWelcome, Ca!ReadConfirm, Ca!ReadBroadcast, Ca!server,
                Ca!OnReadySignals, Ca!SignalFetch
  <2>7. CASE Ca!ListenEnds
    <3>1. Len(wire') <= MaxWire
      BY <2>7, WireEmpty DEF Ca!ListenEnds
    <3> QED BY <2>7, <3>1 DEF Ca!ListenEnds, Ca!server
  <2>8. CASE Ca!List \/ Ca!ListFails \/ Ca!BeginWait \/ Ca!TakeSignal \/ Ca!Timer
    <3>1. \E failed \in BOOLEAN, at \in {"lists", "handles", "polls", "waits"} :
            fetching' = [at |-> at, failed |-> failed]
      BY <2>8 DEF Ca!LoopAt, Ca!List, Ca!ListFails, Ca!BeginWait, Ca!TakeSignal, Ca!Timer
    <3>2. fetching'.at \in {"lists", "handles", "polls", "waits"}
          /\ fetching'.failed \in BOOLEAN
      BY <3>1
    <3>3. /\ UNCHANGED <<login, conn, link, subscribed, wire, connected>>
          /\ news' \in {news, FALSE} /\ signal' \in {signal, FALSE}
      BY <2>8 DEF Ca!List, Ca!ListFails, Ca!BeginWait, Ca!TakeSignal, Ca!Timer,
                  Ca!server, Ca!socketVars
    <3> QED BY <3>2, <3>3
  <2> QED BY <2>1, <2>2, <2>3, <2>4, <2>5, <2>6, <2>7, <2>8 DEF Ca!Next
<1>3. CableInv /\ SocketTyped => Ca!TypeOK
  BY DEF CableInv, SocketTyped, Ca!TypeOK
<1> QED BY <1>1, <1>2, <1>3, CableAlways, PTL DEF PartsSpec

-----------------------------------------------------------------------------
(* All parts *)

\* The part of the sessions is Sessions, or stays as it starts.
LEMMA SessionsTyped == PartsSpec => []TypeOK
<1>1. PartsInit => Init
  BY DEF PartsInit
<1>2. [PartsNext]_partsVars => [Next]_vars
  BY DEF PartsNext, partsVars
<1>3. PartsSpec => Spec
  BY <1>1, <1>2, PTL DEF PartsSpec, Spec
<1> QED BY <1>3, Types, PTL

\* Setup keeps its types (SetupInv).
LEMMA SetupTyped == PartsSpec => []Su!TypeOK
<1>1. SetupInv => Su!TypeOK
  BY DEF SetupInv
<1> QED BY <1>1, SetupAlways, PTL

\* No step of any part takes a variable out of its type, for every value of the
\* constants: the start of a daemon, the run of Claude, the hook, the tools, the
\* descriptions, the websocket, the config, the logs, the intake and the sessions.
THEOREM PartsTyped == PartsSpec => []PartsTypeOK
<1>1. /\ TypeOK /\ St!TypeOK /\ Cl!TypeOK /\ Ho!TypeOK /\ Ct!TypeOK /\ Tr!TypeOK
      /\ Ca!TypeOK /\ Su!TypeOK /\ Lo!TypeOK /\ In!TypeOK /\ part \in PartNames
      => PartsTypeOK
  BY DEF PartsTypeOK, PartNames
<1>2. PartsSpec => [](part \in PartNames)
  <2>1. PartsInit => part \in PartNames
    BY DEF PartsInit
  <2>2. part \in PartNames /\ [PartsNext]_partsVars => (part \in PartNames)'
    BY DEF PartsNext, partsVars
  <2> QED BY <2>1, <2>2, PTL DEF PartsSpec
<1> QED BY <1>1, <1>2, SessionsTyped, StartupTyped, ClaudeTyped, HookTyped, ToolsTyped,
           TriggersTyped, CableTyped, SetupTyped, LogsTyped, IntakeTyped, PTL
===============================================================================
