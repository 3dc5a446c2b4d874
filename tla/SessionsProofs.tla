---------------------------- MODULE SessionsProofs ----------------------------
(***************************************************************************)
(* Proofs about Sessions: the state file of a card and what the sessions   *)
(* that it names know, with the four writers of the file.                 *)
(***************************************************************************)
EXTENDS Sessions, FunctionTheorems, FiniteSetTheorems, SequenceTheorems,
        WellFoundedInduction, TLAPS

-----------------------------------------------------------------------------
(* Sets of comments, and queues *)

LEMMA LeastIs ==
  ASSUME NEW S \in SUBSET Nat, S # {}
  PROVE  \E n \in S : \A m \in S : n <= m
<1> DEFINE Less == {p \in Nat \X Nat : p[1] < p[2]}
<1>1. PICK n \in S : \A m \in S : <<m, n>> \notin Less
  <2>1. IsWellFoundedOn(Less, Nat)
    BY NatLessThanWellFounded DEF OpToRel
  <2> HIDE DEF Less
  <2> QED BY <2>1, WFMin
<1>2. ASSUME NEW m \in S PROVE n <= m
  <2>1. m \in Nat /\ n \in Nat
    OBVIOUS
  <2>2. ~ (m < n)
    BY <1>1, <2>1
  <2> QED BY <2>1, <2>2
<1> QED BY <1>2

\* The latest comment of a prompt: the least that no comment is after.
LEMMA UpToIs ==
  ASSUME NEW n \in Nat, NEW from \in 0..n, NEW S \in SUBSET (1..n)
  PROVE  /\ UpTo(from, S) \in {from} \cup S
         /\ UpTo(from, S) \in 0..n
         /\ \A k \in {from} \cup S : k <= UpTo(from, S)
<1> DEFINE T == {from} \cup S
           B == {m \in 0..n : \A k \in T : k <= m}
<1>1. n \in B /\ B \in SUBSET Nat
  OBVIOUS
<1>2. PICK m \in B : \A j \in B : m <= j
  <2> HIDE DEF B
  <2> QED BY <1>1, LeastIs
<1>3. m \in T
  <2> SUFFICES ASSUME m \notin T PROVE FALSE
    OBVIOUS
  <2>1. m \in 0..n /\ from \in 0..n /\ from <= m /\ from # m
    BY <1>2
  <2>2. m - 1 \in 0..n
    BY <2>1
  <2>3. ASSUME NEW k \in T PROVE k <= m - 1
    <3>1. k \in Nat /\ k <= m /\ k # m
      BY <1>2
    <3> QED BY <2>1, <3>1
  <2>4. m - 1 \in B
    BY <2>2, <2>3
  <2>5. m <= m - 1
    BY <1>2, <2>4
  <2> QED BY <2>1, <2>5
<1>4. \A k \in T : k <= m
  BY <1>2
<1>5. T \subseteq 0..n
  OBVIOUS
<1>6. \A k \in T : (\A j \in T : j <= k) => k = m
  BY <1>3, <1>4, <1>5
<1> HIDE DEF T
<1>7. \A k \in T : k \in 0..n
  BY <1>5
<1>8. UpTo(from, S) = m
  BY <1>3, <1>4, <1>6 DEF UpTo, T
<1> QED BY <1>3, <1>4, <1>7, <1>8 DEF T

LEMMA FiniteComments ==
  ASSUME NEW n \in Nat, NEW S \in SUBSET (1..n)
  PROVE  IsFiniteSet(S) /\ Cardinality(S) \in Nat
<1>1. IsFiniteSet(1..n)
  BY FS_Interval
<1>2. IsFiniteSet(S)
  BY <1>1, FS_Subset
<1> QED BY <1>2, FS_CardinalityType

Increasing(s) == \A j, k \in DOMAIN s : j < k => s[j] < s[k]

Lists(n) ==
  \A S \in SUBSET (1..n) : \E s \in [1..Cardinality(S) -> S] : Increasing(s)

\* Each set of comments can be listed in order: the last one goes at the end.
LEMMA Listed ==
  ASSUME NEW n \in Nat
  PROVE  Lists(n)
<1> SUFFICES ASSUME ~ Lists(n) PROVE FALSE
  OBVIOUS
<1> DEFINE B == {m \in Nat : ~ Lists(m)}
<1>1. PICK m \in B : \A j \in B : m <= j
  <2>1. B \in SUBSET Nat /\ n \in B
    OBVIOUS
  <2> HIDE DEF B
  <2> QED BY <2>1, LeastIs
<1>2. m \in Nat
  BY <1>1
<1>3. PICK S \in SUBSET (1..m) : ~ \E s \in [1..Cardinality(S) -> S] : Increasing(s)
  BY DEF Lists
<1>4. IsFiniteSet(S) /\ Cardinality(S) \in Nat
  BY <1>2, FiniteComments
<1>5. m # 0
  <2> SUFFICES ASSUME m = 0 PROVE FALSE
    OBVIOUS
  <2>1. S = {}
    OBVIOUS
  <2>2. Cardinality(S) = 0
    BY <2>1, FS_EmptySet
  <2>3. 1..Cardinality(S) = {}
    BY <2>2
  <2> DEFINE e == [k \in 1..Cardinality(S) |-> 0]
  <2>4. e \in [1..Cardinality(S) -> S] /\ Increasing(e)
    BY <2>3 DEF Increasing
  <2> QED BY <1>3, <2>4
<1>6. m - 1 \in Nat /\ Lists(m - 1)
  <2>1. m - 1 \in Nat
    BY <1>2, <1>5
  <2>2. m - 1 \notin B
    <3>1. ~ (m <= m - 1)
      BY <1>2
    <3> HIDE DEF B
    <3> QED BY <1>1, <3>1
  <2> QED BY <2>1, <2>2
<1> HIDE DEF B
<1>7. m \in S
  <2> SUFFICES ASSUME m \notin S PROVE FALSE
    OBVIOUS
  <2>1. S \in SUBSET (1..(m - 1))
    BY <1>2, <1>6
  <2> QED BY <1>3, <1>6, <2>1 DEF Lists
<1> DEFINE T == S \ {m}
           c == Cardinality(T)
<1>8. T \in SUBSET (1..(m - 1))
  BY <1>2, <1>6
<1>9. c \in Nat /\ Cardinality(S) = c + 1
  <2>1. IsFiniteSet(T) /\ c = Cardinality(S) - 1
    BY <1>4, <1>7, FS_RemoveElement
  <2>2. c \in Nat
    BY <2>1, FS_CardinalityType
  <2> QED BY <1>4, <2>1, <2>2
<1>10. PICK t \in [1..c -> T] : Increasing(t)
  BY <1>6, <1>8 DEF Lists
<1> HIDE DEF c
<1> DEFINE s == [k \in 1..c + 1 |-> IF k <= c THEN t[k] ELSE m]
<1>11. s \in [1..c + 1 -> S]
  BY <1>7, <1>9, <1>10
<1>12. Increasing(s)
  <2> SUFFICES ASSUME NEW j \in 1..c + 1, NEW k \in 1..c + 1, j < k
               PROVE  s[j] < s[k]
    BY DEF Increasing
  <2>1. j \in 1..c /\ s[j] = t[j]
    BY <1>9
  <2>2. t[j] \in 1..(m - 1)
    BY <1>8, <1>10, <2>1
  <2>3. CASE k <= c
    <3>1. k \in 1..c /\ s[k] = t[k]
      BY <1>9, <2>3
    <3> QED BY <1>10, <2>1, <3>1 DEF Increasing
  <2>4. CASE k = c + 1
    <3>1. s[k] = m
      BY <1>9, <2>4
    <3> QED BY <1>2, <2>1, <2>2, <3>1
  <2> QED BY <1>9, <2>3, <2>4
<1> QED BY <1>3, <1>9, <1>11, <1>12

\* After the first n items.
After(q, n) == {q[i] : i \in n + 1..Len(q)}

\* InOrder lists a set of comments in order: nothing else, and all of it.
LEMMA OrderIs ==
  ASSUME NEW n \in Nat, NEW S \in SUBSET (1..n)
  PROVE  /\ IsFiniteSet(S) /\ Cardinality(S) \in Nat
         /\ InOrder(S) \in [1..Cardinality(S) -> S] /\ Increasing(InOrder(S))
         /\ \A x \in S : \E k \in 1..Cardinality(S) : InOrder(S)[k] = x
<1> DEFINE c == Cardinality(S)
           s == InOrder(S)
<1>0. \A x \in S : x \in Nat
  OBVIOUS
<1>1. IsFiniteSet(S) /\ c \in Nat
  BY FiniteComments
<1>2. \E x \in [1..c -> S] : Increasing(x)
  BY Listed DEF Lists
<1>3. s \in [1..c -> S] /\ Increasing(s)
  BY <1>2 DEF InOrder, Increasing
<1> HIDE DEF s, c
<1>4. s \in Injection(1..c, S)
  <2> SUFFICES ASSUME NEW j \in 1..c, NEW k \in 1..c, j # k PROVE s[j] # s[k]
    BY <1>3 DEF Injection, IsInjective
  <2>1. s[j] \in Nat /\ s[k] \in Nat
    <3>1. s[j] \in S /\ s[k] \in S
      BY <1>3
    <3> QED BY <1>0, <3>1
  <2>2. j < k \/ k < j
    BY <1>1
  <2>3. s[j] < s[k] \/ s[k] < s[j]
    BY <1>3, <2>2 DEF Increasing
  <2> QED BY <2>1, <2>3
<1>5. Cardinality(1..c) = c
  BY <1>1, FS_Interval
<1>6. s \in Surjection(1..c, S)
  BY <1>1, <1>4, <1>5, FS_Injection DEF c
<1>7. \A x \in S : \E k \in 1..c : s[k] = x
  BY <1>6 DEF Surjection
<1> QED BY <1>1, <1>3, <1>7 DEF s, c

LEMMA InOrderIs ==
  ASSUME NEW S \in SUBSET Comments
  PROVE  InOrder(S) \in Seq(S) /\ ItemsOf(InOrder(S)) = S
<1> DEFINE c == Cardinality(S)
           s == InOrder(S)
<1>1. S \in SUBSET (1..MaxComments) /\ MaxComments \in Nat
  BY BoundsAssumption DEF Comments
<1>2. c \in Nat /\ s \in [1..c -> S] /\ \A x \in S : \E k \in 1..c : s[k] = x
  BY <1>1, OrderIs
<1> HIDE DEF s, c
<1>3. s \in Seq(S) /\ Len(s) = c
  BY <1>2
<1>4. ItemsOf(s) = S
  BY <1>2, <1>3 DEF ItemsOf
<1> QED BY <1>3, <1>4 DEF s

\* What a scan appends comes after all that was in the queue.
LEMMA Appended ==
  ASSUME NEW q \in Seq(Mentions), NEW S \in SUBSET Mentions
  PROVE  LET r == q \o InOrder(S)
         IN  /\ r \in Seq(Mentions) /\ Len(q) <= Len(r)
             /\ \A i \in 1..Len(q) : r[i] = q[i]
             /\ ItemsOf(r) = ItemsOf(q) \cup S
             /\ \A n \in 0..Len(q) : After(r, n) = After(q, n) \cup S
<1>1. S \in SUBSET Comments
  BY MentionsAssumption DEF Comments
<1>2. PICK t : t = InOrder(S)
  OBVIOUS
<1>3. t \in Seq(S) /\ t \in Seq(Mentions) /\ ItemsOf(t) = S
  BY <1>1, <1>2, InOrderIs
<1>4. PICK r : r = q \o t
  OBVIOUS
<1>5. /\ r \in Seq(Mentions) /\ Len(r) = Len(q) + Len(t)
      /\ \A i \in 1..Len(q) : r[i] = q[i]
      /\ \A i \in 1..Len(t) : r[Len(q) + i] = t[i]
  BY <1>3, <1>4
<1>6. PICK a \in Nat, b \in Nat : a = Len(q) /\ b = Len(t)
  BY <1>3
<1>7. ASSUME NEW n \in 0..Len(q) PROVE After(r, n) = After(q, n) \cup S
  <2>1. ASSUME NEW x \in After(r, n) PROVE x \in After(q, n) \cup S
    <3>1. PICK i \in n + 1..a + b : x = r[i]
      BY <1>5, <1>6 DEF After
    <3>2. CASE i <= a
      BY <1>5, <1>6, <3>1, <3>2 DEF After
    <3>3. CASE i > a
      <4>1. i - a \in 1..b /\ a + (i - a) = i
        BY <1>6, <3>3
      <4>2. x = t[i - a]
        BY <1>5, <1>6, <3>1, <4>1
      <4> QED BY <1>3, <1>6, <4>1, <4>2 DEF ItemsOf
    <3> QED BY <1>6, <3>2, <3>3
  <2>2. ASSUME NEW x \in After(q, n) PROVE x \in After(r, n)
    BY <1>5, <1>6 DEF After
  <2>3. ASSUME NEW x \in S PROVE x \in After(r, n)
    <3>1. PICK j \in 1..b : x = t[j]
      BY <1>3, <1>6 DEF ItemsOf
    <3>2. a + j \in n + 1..a + b /\ r[a + j] = x
      BY <1>5, <1>6, <3>1
    <3> QED BY <1>5, <1>6, <3>2 DEF After
  <2> QED BY <2>1, <2>2, <2>3
<1>8. ItemsOf(r) = After(r, 0) /\ ItemsOf(q) = After(q, 0)
  BY DEF ItemsOf, After
<1>9. ItemsOf(r) = ItemsOf(q) \cup S
  BY <1>6, <1>7, <1>8
<1> QED BY <1>2, <1>4, <1>5, <1>6, <1>7, <1>9

\* What a turn leaves, and what a check finds, in the queue.
LEMMA LeftOver ==
  ASSUME NEW q \in Seq(Mentions), NEW n \in 0..Len(q)
  PROVE  LET r == SubSeq(q, n + 1, Len(q))
         IN  /\ r \in Seq(Mentions) /\ Len(r) = Len(q) - n
             /\ \A i \in 1..Len(r) : r[i] = q[n + i]
             /\ ItemsOf(r) = After(q, n)
<1>1. PICK a \in Nat : a = Len(q)
  OBVIOUS
<1>2. PICK r : r = SubSeq(q, n + 1, Len(q))
  OBVIOUS
<1>3. r \in Seq(Mentions) /\ Len(r) = a - n
  BY <1>1, <1>2
<1>4. \A i \in 1..a - n : r[i] = q[n + i]
  BY <1>1, <1>2
<1>5. ASSUME NEW x \in ItemsOf(r) PROVE x \in After(q, n)
  <2>1. PICK i \in 1..a - n : x = r[i]
    BY <1>3 DEF ItemsOf
  <2>2. n + i \in n + 1..a
    BY <1>1
  <2> QED BY <1>1, <1>4, <2>1, <2>2 DEF After
<1>6. ASSUME NEW x \in After(q, n) PROVE x \in ItemsOf(r)
  <2>1. PICK i \in n + 1..a : x = q[i]
    BY <1>1 DEF After
  <2>2. i - n \in 1..a - n /\ n + (i - n) = i
    BY <1>1
  <2>3. r[i - n] = x
    BY <1>4, <2>1, <2>2
  <2> QED BY <1>3, <2>2, <2>3 DEF ItemsOf
<1> QED BY <1>1, <1>2, <1>3, <1>4, <1>5, <1>6

-----------------------------------------------------------------------------
(* Types *)

\* The state that each Update writes is one of a card.
LEMMA NewStates ==
  ASSUME TypeOK, NEW f \in CardState
  PROVE  /\ \A S \in SUBSET Mentions : WithMentions(f, S) \in CardState
         /\ ids < MaxIds => WithReset(f) \in CardState
         /\ \A s \in Ids \cup {NoId} : [f EXCEPT !.session = s] \in CardState
         /\ turn.consumed <= Len(f.queue) => WithTurn(f) \in CardState
         /\ request.at = "found" =>
              \A granted \in BOOLEAN : WithAnswer(f, granted) \in CardState
<1>1. ASSUME NEW S \in SUBSET Mentions PROVE WithMentions(f, S) \in CardState
  <2>0. S \in SUBSET Comments
    BY MentionsAssumption DEF Comments
  <2>1. f.queue \in Seq(Mentions) /\ S \ f.handled \in SUBSET Mentions
    BY DEF CardState
  <2>2. PICK q : q = f.queue \o InOrder(S \ f.handled)
    OBVIOUS
  <2>3. q \in Seq(Mentions)
    BY <2>1, <2>2, Appended
  <2>4. WithMentions(f, S) = [f EXCEPT !.handled = @ \cup S, !.queue = q]
    BY <2>2 DEF WithMentions
  <2> QED BY <2>0, <2>3, <2>4 DEF CardState
<1>2. ASSUME ids < MaxIds PROVE WithReset(f) \in CardState
  <2>1. NextId \in Ids /\ 0 \in 0..MaxComments
    BY <1>2, BoundsAssumption DEF TypeOK, NextId, Ids
  <2> QED BY <2>1 DEF WithReset, CardState
<1>3. ASSUME NEW s \in Ids \cup {NoId} PROVE [f EXCEPT !.session = s] \in CardState
  BY DEF CardState
<1>4. ASSUME turn.consumed <= Len(f.queue) PROVE WithTurn(f) \in CardState
  <2>1. /\ f.queue \in Seq(Mentions) /\ turn.consumed \in 0..Len(f.queue)
        /\ turn.until \in 0..MaxComments
        /\ turn.state.session \in Ids \cup {NoId}
        /\ turn.state.started \in BOOLEAN /\ turn.up \in BOOLEAN
    BY <1>4 DEF CardState, TypeOK, TurnRecord
  <2>2. Rest(f.queue) \in Seq(Mentions)
    BY <2>1, LeftOver DEF Rest
  <2>3. PICK q, s, b, u :
          /\ q = Rest(f.queue) /\ u = turn.until
          /\ s = IF NamesSession(f) THEN turn.state.session ELSE f.session
          /\ b = IF NamesSession(f) THEN turn.state.started \/ turn.up ELSE f.started
    OBVIOUS
  <2>4. /\ q \in Seq(Mentions) /\ u \in 0..MaxComments
        /\ s \in Ids \cup {NoId} /\ b \in BOOLEAN
    BY <2>1, <2>2, <2>3 DEF CardState
  <2>5. WithTurn(f) = [f EXCEPT !.queue = q, !.session = s, !.started = b, !.until = u]
    BY <2>3 DEF WithTurn
  <2> QED BY <2>4, <2>5 DEF CardState
<1>5. ASSUME NEW granted \in BOOLEAN, request.at = "found"
      PROVE  WithAnswer(f, granted) \in CardState
  <2>1. request.answer \in Comments
    BY <1>5, AnswersAssumption DEF TypeOK, RequestRecord, Comments
  <2> QED BY <2>1 DEF WithAnswer, CardState
<1> QED BY <1>1, <1>2, <1>3, <1>4, <1>5

LEMMA ReadFileTypes ==
  ASSUME TypeOK, NEW p \in Writers, NEW new \in CardState, ReadFile(p, new)
  PROVE  /\ posted' \in 0..MaxComments /\ known' \in [Ids -> SUBSET Comments]
         /\ file' \in CardState /\ temp' \in CardState \cup {NoFile}
         /\ update' \in [Writers -> UpdateRecord] /\ taken' \subseteq Mentions
         /\ atomic' \in BOOLEAN /\ crashes' \in 0..MaxCrashes
<1>1. [at |-> "write", old |-> file, new |-> new] \in UpdateRecord
  BY DEF TypeOK, UpdateRecord
<1> QED BY <1>1 DEF TypeOK, ReadFile, disk

LEMMA InitialTypes ==
  /\ NewCard \in CardState
  /\ NoUpdate \in UpdateRecord
  /\ NoTurn \in TurnRecord
  /\ NoRequest \in RequestRecord
<1>1. /\ 0 \in 0..MaxComments /\ <<>> \in Seq(Mentions) /\ 0 \in Nat
      /\ {} \in SUBSET Comments /\ NoId \in Ids \cup {NoId}
  BY BoundsAssumption
<1>2. NewCard \in CardState
  BY <1>1 DEF NewCard, CardState
<1>3. NoUpdate \in UpdateRecord
  BY <1>2 DEF NoUpdate, UpdateRecord
<1>4. NoTurn \in TurnRecord
  BY <1>1, <1>2 DEF NoTurn, TurnRecord
<1>5. NoRequest \in RequestRecord
  BY <1>1 DEF NoRequest, RequestRecord
<1> QED BY <1>2, <1>3, <1>4, <1>5

\* The request of a turn, and what leaves the gate.
LEMMA RequestTypes ==
  ASSUME TypeOK
  PROVE  /\ TurnRuns => NewRequest \in RequestRecord /\ NewRequest.at = "gate"
         /\ Leaves => /\ request' \in RequestRecord
                      /\ request'.at \notin {"found", "update"}
<1>1. NoRequest \in RequestRecord /\ NoRequest.at = "none"
  BY InitialTypes DEF NoRequest
<1>2. NewRequest \in RequestRecord /\ NewRequest.at = "gate"
  <2>1. turn.state.session \in Ids \cup {NoId}
    BY DEF TypeOK, TurnRecord, CardState
  <2> QED BY <1>1, <2>1 DEF NewRequest, RequestRecord
<1> QED BY <1>1, <1>2 DEF Leaves

LEMMA RenameTypes ==
  ASSUME TypeOK, NEW p \in Writers, Renamed(p) \/ RenameFails(p)
  PROVE  /\ posted' \in 0..MaxComments /\ known' \in [Ids -> SUBSET Comments]
         /\ file' \in CardState /\ temp' \in CardState \cup {NoFile}
         /\ update' \in [Writers -> UpdateRecord] /\ taken' \subseteq Mentions
         /\ atomic' \in BOOLEAN /\ ids' \in 0..MaxIds
         /\ resets' \in 0..MaxResets /\ crashes' \in 0..MaxCrashes
<1>1. update' \in [Writers -> UpdateRecord]
  BY InitialTypes DEF TypeOK, Renamed, RenameFails
<1>2. file' \in CardState /\ temp' \in CardState \cup {NoFile}
  BY DEF TypeOK, Renamed, RenameFails, disk
<1>3. /\ UNCHANGED <<posted, known, ids, taken, resets, crashes>>
      /\ atomic' \in BOOLEAN
  BY DEF TypeOK, Renamed, RenameFails, bounds
<1> QED BY <1>1, <1>2, <1>3 DEF TypeOK

\* The documents that a prompt or a check has.
LEMMA PresentedIs ==
  ASSUME NEW n \in 0..MaxComments, NEW items, NEW handled, NEW first,
         NEW from \in 0..MaxComments
  PROVE  LET S == Presented(n, items, handled, first, from)
         IN  /\ S \in SUBSET (1..n) /\ S \in SUBSET Comments
             /\ UpTo(from, S) \in 0..MaxComments
             /\ UpTo(from, S) \in {from} \cup S
             /\ \A k \in {from} \cup S : k <= UpTo(from, S)
<1>1. PICK S : S = Presented(n, items, handled, first, from)
  OBVIOUS
<1>2. S \in SUBSET (1..n) /\ MaxComments \in Nat
  BY <1>1, BoundsAssumption DEF Presented
<1>3. S \in SUBSET (1..MaxComments)
  BY <1>2
<1> QED BY <1>1, <1>2, <1>3, UpToIs DEF Comments

LEMMA PromptTypes ==
  ASSUME NEW t \in TurnRecord
  PROVE  /\ InPrompt(t) \in SUBSET Comments
         /\ WithPrompt(t) \in TurnRecord
<1>1. /\ t.seen \in 0..MaxComments /\ t.state.until \in 0..MaxComments
      /\ t.state.queue \in Seq(Mentions)
  BY DEF TurnRecord, CardState
<1>2. /\ InPrompt(t) \in SUBSET Comments
      /\ UpTo(t.state.until, InPrompt(t)) \in 0..MaxComments
  BY <1>1, PresentedIs DEF InPrompt
<1>3. PICK u : u = UpTo(t.state.until, InPrompt(t))
  OBVIOUS
<1>4. WithPrompt(t) = [t EXCEPT !.consumed = Len(t.state.queue), !.until = u]
  BY <1>3 DEF WithPrompt
<1>5. Len(t.state.queue) \in Nat
  BY <1>1
<1> QED BY <1>2, <1>3, <1>4, <1>5 DEF TurnRecord

LEMMA QueueTypes ==
  ASSUME NEW q \in Seq(Mentions)
  PROVE  ItemsOf(q) \in SUBSET Mentions /\ Len(q) \in Nat
BY DEF ItemsOf

\* Every step of the daemon and of the reset command keeps the types of the file,
\* of each pending Update and of the turn (store.go, worker.go).
THEOREM Types == Spec => []TypeOK
<1>1. Init => TypeOK
  BY InitialTypes, BoundsAssumption DEF Init, TypeOK, NoRequest
<1>2. TypeOK /\ [Next]_vars => TypeOK'
  <2> SUFFICES ASSUME TypeOK, [Next]_vars PROVE TypeOK'
    OBVIOUS
  <2> USE BoundsAssumption
  <2>1. CASE Post
    BY <2>1 DEF Post, TypeOK, disk, asking, bounds
  <2>2. ASSUME NEW p \in Writers, WriteTemp(p) PROVE TypeOK'
    <3>1. update' \in [Writers -> UpdateRecord]
      BY <2>2 DEF WriteTemp, TypeOK, UpdateRecord
    <3>2. temp' \in CardState
      BY <2>2 DEF WriteTemp, TypeOK, UpdateRecord
    <3> QED BY <2>2, <3>1, <3>2 DEF WriteTemp, TypeOK, asking, bounds
  <2>3. CASE ScanReads
    BY <2>3 DEF ScanReads, TypeOK, disk, asking, bounds
  <2>4. CASE ScanUpdates
    <3>1. WithMentions(file, scan) \in CardState
      BY NewStates DEF TypeOK
    <3> QED BY <2>4, <3>1, ReadFileTypes DEF ScanUpdates, TypeOK, Writers, asking
  <2>5. CASE ScanEnds
    BY <2>5, RenameTypes DEF ScanEnds, TypeOK, Writers, asking
  <2>6. CASE Reset
    <3>1. WithReset(file) \in CardState
      BY <2>6, NewStates DEF TypeOK, Reset
    <3>2. ids' \in 0..MaxIds /\ resets' \in 0..MaxResets
      BY <2>6 DEF Reset, TypeOK, NextId
    <3> QED BY <2>6, <3>1, <3>2, ReadFileTypes DEF Reset, TypeOK, Writers, asking
  <2>7. CASE ResetEnds
    BY <2>7, RenameTypes DEF ResetEnds, TypeOK, Writers, asking
  <2>8. CASE TurnStarts
    <3>1. PICK s : s = IF file.session = NoId THEN NextId ELSE file.session
      OBVIOUS
    <3>2. s \in Ids \cup {NoId} /\ ids' \in 0..MaxIds
      BY <2>8, <3>1 DEF TurnStarts, TypeOK, CardState, NextId, Ids
    <3>3. [file EXCEPT !.session = s] \in CardState
      BY <3>2, NewStates DEF TypeOK
    <3>4. ReadFile("worker", [file EXCEPT !.session = s])
      BY <2>8, <3>1 DEF TurnStarts
    <3>5. turn' \in TurnRecord
      BY <2>8, InitialTypes DEF TurnStarts, TurnRecord
    <3> QED BY <2>8, <3>2, <3>3, <3>4, <3>5, ReadFileTypes DEF TurnStarts, TypeOK, Writers, asking
  <2>9. CASE TurnStarted
    <3>1. update["worker"].new \in CardState
      BY DEF TypeOK, Writers, UpdateRecord
    <3>2. update["worker"].new.session \in Ids \cup {NoId}
      BY <3>1 DEF CardState
    <3>3. turn' \in TurnRecord
      BY <2>9, <3>1, <3>2, InitialTypes DEF TurnStarted, TypeOK, TurnRecord
    <3> QED BY <2>9, <3>3, RenameTypes DEF TurnStarted, TypeOK, Writers, asking
  <2>10. CASE Prompt
    <3>1. [turn EXCEPT !.at = "claude", !.seen = posted] \in TurnRecord
      BY DEF TypeOK, TurnRecord
    <3>2. turn' \in TurnRecord
      BY <2>10, <3>1, PromptTypes DEF Prompt
    <3>3. taken' \in SUBSET Mentions
      BY <2>10, QueueTypes DEF Prompt, TypeOK, TurnRecord, CardState
    <3> QED BY <2>10, <3>2, <3>3 DEF Prompt, TypeOK, disk, asking, bounds
  <2>11. CASE TurnNotStarted
    BY <2>11, InitialTypes DEF TurnNotStarted, TypeOK, disk, asking, bounds
  <2>12. CASE ClaudeStarts
    <3>1. turn' \in TurnRecord
      BY <2>12 DEF ClaudeStarts, TypeOK, TurnRecord
    <3>2. known' \in [Ids -> SUBSET Comments]
      BY <2>12, PromptTypes DEF ClaudeStarts, TypeOK
    <3> QED BY <2>12, <3>1, <3>2 DEF ClaudeStarts, TypeOK, disk, asking, bounds
  <2>13. CASE Renew
    <3>1. NextId \in Ids /\ ids' \in 0..MaxIds
      BY <2>13 DEF Renew, TypeOK, NextId, Ids
    <3>2. [turn EXCEPT !.state.session = NextId, !.state.started = FALSE,
                       !.renewed = TRUE] \in TurnRecord
      BY <3>1 DEF TypeOK, TurnRecord, CardState
    <3>3. turn' \in TurnRecord
      BY <2>13, <3>2, PromptTypes DEF Renew
    <3> QED BY <2>13, <3>1, <3>3 DEF Renew, TypeOK, disk, asking, bounds
  <2>14. CASE CheckReads
    <3>1. /\ file.queue \in Seq(Mentions) /\ turn.consumed \in 0..Len(file.queue)
          /\ file.handled \in SUBSET Comments
      BY <2>14, QueueTypes DEF CheckReads, TypeOK, CardState, TurnRecord
    <3>2. PICK q : q = SubSeq(file.queue, turn.consumed + 1, Len(file.queue))
      OBVIOUS
    <3>3. q \in Seq(Mentions)
      BY <3>1, <3>2, LeftOver
    <3>4. turn' = [turn EXCEPT !.items = q, !.sees = file.handled]
      BY <2>14, <3>2 DEF CheckReads
    <3>5. turn' \in TurnRecord
      BY <3>1, <3>3, <3>4 DEF TypeOK, TurnRecord
    <3> QED BY <2>14, <3>5 DEF CheckReads, TypeOK, disk, asking, bounds
  <2>15. CASE CheckGives
    <3>1. PICK S : S = Presented(posted, ItemsOf(turn.items), turn.sees, FALSE, turn.until)
      OBVIOUS
    <3>2. /\ turn.items \in Seq(Mentions) /\ turn.consumed \in Nat
          /\ posted \in 0..MaxComments /\ turn.until \in 0..MaxComments
      BY DEF TypeOK, TurnRecord
    <3>3. S \in SUBSET Comments /\ UpTo(turn.until, S) \in 0..MaxComments
      BY <3>1, <3>2, PresentedIs
    <3>4. PICK n, u : n = turn.consumed + Len(turn.items) /\ u = UpTo(turn.until, S)
      OBVIOUS
    <3>5. n \in Nat /\ <<>> \in Seq(Mentions)
      BY <3>2, <3>4
    <3>6. turn' = [turn EXCEPT !.consumed = n, !.until = u, !.items = <<>>, !.sees = {}]
      BY <2>15, <3>1, <3>4 DEF CheckGives
    <3>7. turn' \in TurnRecord
      BY <3>3, <3>4, <3>5, <3>6 DEF TypeOK, TurnRecord
    <3>8. known' = [known EXCEPT ![turn.state.session] = @ \cup S]
      BY <2>15, <3>1 DEF CheckGives
    <3>9. known' \in [Ids -> SUBSET Comments]
      BY <3>3, <3>8 DEF TypeOK
    <3>10. taken' \in SUBSET Mentions
      BY <2>15, <3>2, QueueTypes DEF CheckGives, TypeOK
    <3> QED BY <2>15, <3>7, <3>9, <3>10 DEF CheckGives, TypeOK, disk, asking, bounds
  <2>16. CASE ClaudeEnds
    <3>1. <<>> \in Seq(Mentions) /\ {} \in SUBSET Comments
      OBVIOUS
    <3>2. turn' \in TurnRecord
      BY <2>16, <3>1 DEF ClaudeEnds, TypeOK, TurnRecord
    <3>3. /\ request' \in RequestRecord
          /\ request'.at = request.at /\ request'.answer = request.answer
      BY <2>16 DEF ClaudeEnds, TypeOK, RequestRecord
    <3> QED BY <2>16, <3>2, <3>3 DEF ClaudeEnds, TypeOK, disk, asking, bounds
  <2>17. CASE SaveTurn
    <3>1. WithTurn(file) \in CardState
      BY <2>17, NewStates DEF SaveTurn, TypeOK
    <3> QED BY <2>17, <3>1, ReadFileTypes DEF SaveTurn, TypeOK, Writers, asking
  <2>18. CASE TurnSaved
    BY <2>18, InitialTypes, RenameTypes DEF TurnSaved, TypeOK, Writers, asking
  <2>19. CASE Panic \/ Crash
    <3>1. DaemonGone /\ crashes' \in 0..MaxCrashes /\ resets' = resets
      BY <2>19 DEF Panic, Crash, DaemonGone, TypeOK
    <3>2. update' \in [Writers -> UpdateRecord]
      BY <3>1, InitialTypes DEF DaemonGone, TypeOK
    <3> QED BY <3>1, <3>2, InitialTypes DEF DaemonGone, TypeOK, disk, NoRequest
  <2>20. CASE Ask
    BY <2>20, RequestTypes DEF Ask, TypeOK, disk, bounds
  <2>21. CASE PostQuestion
    <3>1. request' \in RequestRecord /\ request'.at = "wait"
      BY <2>21 DEF PostQuestion, TypeOK, RequestRecord
    <3> QED BY <2>21, <3>1 DEF PostQuestion, TypeOK, disk, bounds
  <2>22. CASE Poll
    <3>1. PICK k \in Answers : request' = [request EXCEPT !.at = "found", !.answer = k]
      BY <2>22 DEF Poll
    <3>2. k # NoComment
      BY AnswersAssumption DEF NoComment
    <3>3. request' \in RequestRecord /\ request'.answer # NoComment
      BY <3>1, <3>2 DEF TypeOK, RequestRecord
    <3> QED BY <2>22, <3>3 DEF Poll, TypeOK, disk, bounds
  <2>23. CASE AnswerUpdates
    <3>1. PICK granted \in BOOLEAN :
            /\ ReadFile("approval", WithAnswer(file, granted))
            /\ request' = [request EXCEPT !.at = "update", !.granted = granted]
      BY <2>23 DEF AnswerUpdates, TypeOK, RequestRecord
    <3>2. WithAnswer(file, granted) \in CardState
      BY <2>23, NewStates DEF AnswerUpdates, TypeOK
    <3>3. request' \in RequestRecord /\ request'.answer = request.answer
      BY <3>1 DEF TypeOK, RequestRecord
    <3>4. request'.answer # NoComment
      BY <2>23, <3>3 DEF AnswerUpdates, TypeOK
    <3> QED BY <2>23, <3>1, <3>2, <3>3, <3>4, ReadFileTypes DEF AnswerUpdates, TypeOK, Writers
  <2>24. CASE AnswerCounts
    <3>1. answers' \in [Ids -> SUBSET Answers]
      <4>1. request.answer \in Answers
        BY <2>24 DEF AnswerCounts, TypeOK, RequestRecord
      <4> QED BY <2>24, <4>1 DEF AnswerCounts, TypeOK
    <3> QED BY <2>24, <3>1, RenameTypes, RequestTypes DEF AnswerCounts, TypeOK, Writers
  <2>25. CASE KeepWaiting
    <3>1. request' \in RequestRecord /\ request'.at = "wait"
      BY <2>25 DEF KeepWaiting, TypeOK, RequestRecord
    <3> QED BY <2>25, <3>1, RenameTypes DEF KeepWaiting, TypeOK, Writers
  <2>26. CASE AnswerFails
    BY <2>26, RenameTypes, RequestTypes DEF AnswerFails, TypeOK, Writers
  <2>27. CASE RequestEnds
    BY <2>27, RequestTypes DEF RequestEnds, TypeOK, disk, bounds
  <2>28. CASE UNCHANGED vars
    BY <2>28 DEF vars, TypeOK, disk, asking, bounds
  <2> QED
    BY <2>1, <2>2, <2>3, <2>4, <2>5, <2>6, <2>7, <2>8, <2>9, <2>10, <2>11, <2>12,
       <2>13, <2>14, <2>15, <2>16, <2>17, <2>18, <2>19, <2>20,
       <2>21, <2>22, <2>23, <2>24, <2>25, <2>26, <2>27, <2>28 DEF Next
<1> QED BY <1>1, <1>2, PTL DEF Spec

-----------------------------------------------------------------------------
(* The inductive invariant.  Its parts speak of values (a file f, a turn t, *)
(* n comments on the card, what the sessions know, what turns have Used),  *)
(* so that a step can be asked what it does to them.                        *)

\* What a session has seen, and the comments that were put to use.
Knows == [s \in Ids |-> known[s] \cup answers[s]]
Used == taken \cup Answered

\* A version of the state file, wherever it is: the session that it names as
\* started knows all comments up to its time, but mentions.
Good(f, n, kn) ==
  /\ f.until <= n /\ f.handled \subseteq 1..n
  /\ ItemsOf(f.queue) \subseteq f.handled
  /\ f.started =>
       f.session \in Ids /\ \A k \in 1..f.until : k \in kn[f.session] \/ k \in Mentions

\* While each Update replaced what it had read, no mention is missing either.
Exact(f, kn) ==
  f.started =>
    \A k \in 1..f.until :
      \/ k \in kn[f.session]
      \/ k \in Mentions /\ (k \notin f.handled \/ k \in ItemsOf(f.queue))

Had(f, tk) == f.handled \subseteq ItemsOf(f.queue) \cup tk

Files ==
  /\ Good(file, posted, Knows)
  /\ temp # NoFile => Good(temp, posted, Knows)
  /\ \A p \in Writers : Updating(p) => Good(update[p].new, posted, Knows)

FileExact == atomic => Exact(file, Knows) /\ Had(file, Used)

\* What the Update of each writer is about to write.
ScanPending(u, S) ==
  u.at # "none" => S # {} /\ u.new = WithMentions(u.old, S)

ResetPending(u) ==
  u.at # "none" =>
    ~ u.new.started /\ u.new.queue = u.old.queue /\ u.new.handled = u.old.handled

Names(t, f) == t.renewed \/ f.session = t.state.session
AfterTurn(t, f) ==
  [f EXCEPT
     !.queue = SubSeq(@, t.consumed + 1, Len(@)),
     !.session = IF Names(t, f) THEN t.state.session ELSE @,
     !.started = IF Names(t, f) THEN t.state.started \/ t.up ELSE @,
     !.until = t.until]

WorkerPending(u, t) ==
  u.at # "none" =>
    /\ t.at \in {"start", "save"}
    /\ t.at = "start" => /\ t = [NoTurn EXCEPT !.at = "start"]
                         /\ u.new = [u.old EXCEPT !.session = u.new.session]
                         /\ u.new.session \in Ids
                         /\ u.old.session \in {NoId, u.new.session}
    /\ t.at = "save" => /\ u.new = AfterTurn(t, u.old)
                        /\ t.consumed <= Len(u.old.queue)
                        /\ Names(t, u.old) \/ ~ u.old.started

Writes ==
  /\ \A p, q \in Writers \ {"reset"} : Updating(p) /\ Updating(q) => p = q
  /\ scan \subseteq 1..posted
  /\ ScanPending(update["scan"], scan)
  /\ ResetPending(update["reset"])
  /\ WorkerPending(update["worker"], turn)
  /\ update["worker"].at = "rename" =>
       temp = NoFile \/ temp = update["worker"].new \/ ~ temp.started

\* While a turn runs, only its session can be named as started.
InTurn(t) == t.at \in {"load", "claude", "save"}
Of(f, s) == f.started => f.session = s

OneSession ==
  InTurn(turn) /\ ~ Updating("worker") =>
    /\ Of(file, turn.first)
    /\ temp # NoFile => Of(temp, turn.first)
    /\ Updating("scan") => Of(update["scan"].new, turn.first)
    /\ Updating("approval") => Of(update["approval"].new, turn.first)

\* A comment that the session of the turn has, or gets when Claude starts.
Sent(t, kn, k) ==
  IF t.up THEN k \in kn[t.state.session]
  ELSE k \in InPrompt(t) \/ (t.state.started /\ k \in kn[t.state.session])

TurnGood(t, n, kn) ==
  /\ t.state.session \in Ids
  /\ ~ t.renewed => t.state.session = t.first
  /\ Good(t.state, n, kn)
  /\ t.seen <= n /\ t.until <= n
  /\ t.at = "load" => ~ t.up /\ ~ t.renewed
  /\ t.at = "save" => t.up \/ ~ t.state.started
  /\ t.items # <<>> => t.at = "claude" /\ t.up
  /\ t.at = "claude" /\ ~ t.up => t.consumed = Len(t.state.queue)
  /\ t.at # "load" =>
       /\ t.state.until <= t.seen /\ t.state.handled \subseteq 1..t.seen
       /\ \A k \in 1..t.until : Sent(t, kn, k) \/ k \in Mentions

TurnOk == InTurn(turn) => TurnGood(turn, posted, Knows)

\* The file, beside what the turn read of it: the same queue, and more behind it.
StartMatches(t, f, kn) ==
  /\ Len(t.state.queue) <= Len(f.queue)
  /\ \A i \in 1..Len(t.state.queue) : f.queue[i] = t.state.queue[i]
  /\ t.state.handled \subseteq f.handled
  /\ f.handled \subseteq t.state.handled \cup After(f.queue, Len(t.state.queue))
  /\ Exact(t.state, kn)

SentMatches(t, f, tk, kn) ==
  /\ t.consumed <= Len(f.queue)
  /\ \A i \in 1..t.consumed : f.queue[i] \in tk
  /\ \A k \in 1..t.until :
       \/ Sent(t, kn, k)
       \/ k \in Mentions /\ (k \notin f.handled \/ k \in After(f.queue, t.consumed))

ItemsMatch(t, f, kn) ==
  LET n == t.consumed + Len(t.items)
  IN  /\ n <= Len(f.queue)
      /\ \A i \in 1..Len(t.items) : t.items[i] = f.queue[t.consumed + i]
      /\ ItemsOf(t.items) \subseteq t.sees
      /\ t.sees \subseteq f.handled
      /\ f.handled \subseteq t.sees \cup After(f.queue, n) \cup kn[t.state.session]

TurnMatches(t, f, tk, kn) ==
  /\ t.at = "load" \/ (t.at = "claude" /\ ~ t.up) => StartMatches(t, f, kn)
  /\ t.at # "load" => SentMatches(t, f, tk, kn)
  /\ t.items # <<>> => ItemsMatch(t, f, kn)

TurnFile == InTurn(turn) /\ atomic => TurnMatches(turn, file, Used, Knows)

\* No version of the file says that the first n comments and more are known.
Before(n) ==
  /\ file.until <= n
  /\ temp # NoFile => temp.until <= n
  /\ \A p \in Writers : Updating(p) => update[p].new.until <= n

AnswerPending(u, r) ==
  /\ u.at # "none" <=> r.at = "update"
  /\ u.at # "none" =>
       u.new = IF r.granted THEN [u.old EXCEPT !.handled = @ \cup {r.answer}] ELSE u.old

\* A request whose answer can count, or does: its turn has not saved its state,
\* and the question is after all that the file says to be known.
Live(r) == r.alive \/ (r.at = "update" /\ r.granted)

Requests ==
  /\ request.alive => turn.at = "claude" /\ turn.up
  /\ Live(request) =>
       /\ turn.at \in {"claude", "save"} /\ turn.up
       /\ request.session = turn.state.session
       /\ request.at \in {"wait", "found", "update"} => Before(request.question)
  /\ request.at \in {"found", "update"} =>
       request.question < request.answer /\ request.answer <= posted
  /\ AnswerPending(update["approval"], request)

Inv == Files /\ FileExact /\ Writes /\ OneSession /\ TurnOk /\ TurnFile /\ Requests

-----------------------------------------------------------------------------
(* Time passes: more comments, and sessions that know more                  *)

Grows(kn, lk) == \A s \in Ids : kn[s] \subseteq lk[s]

LEMMA FilesGrow ==
  ASSUME NEW f \in CardState, NEW n \in Nat, NEW m \in Nat, n <= m,
         NEW kn, NEW lk, Grows(kn, lk)
  PROVE  /\ Good(f, n, kn) => Good(f, m, lk)
         /\ Good(f, n, kn) /\ Exact(f, kn) => Exact(f, lk)
<1>1. f.until \in Nat
  BY DEF CardState
<1> QED BY <1>1 DEF Good, Exact, Grows

LEMMA SentGrows ==
  ASSUME NEW t, t.state.session \in Ids, NEW kn, NEW lk, Grows(kn, lk), NEW k, Sent(t, kn, k)
  PROVE  Sent(t, lk, k)
BY DEF Sent, Grows

LEMMA TurnGrows ==
  ASSUME NEW t \in TurnRecord, NEW n \in Nat, NEW m \in Nat, n <= m,
         NEW kn, NEW lk, Grows(kn, lk), TurnGood(t, n, kn)
  PROVE  TurnGood(t, m, lk)
<1>1. /\ t.state \in CardState /\ t.seen \in Nat /\ t.until \in Nat
      /\ t.state.session \in Ids
  BY DEF TurnRecord, TurnGood
<1>2. Good(t.state, m, lk)
  BY <1>1, FilesGrow DEF TurnGood
<1>3. t.seen <= m /\ t.until <= m
  BY <1>1 DEF TurnGood
<1>4. \A k : Sent(t, kn, k) => Sent(t, lk, k)
  BY <1>1, SentGrows
<1> QED BY <1>1, <1>2, <1>3, <1>4 DEF TurnGood

LEMMA MatchesGrow ==
  ASSUME NEW t \in TurnRecord, NEW n \in Nat, NEW f, NEW tk, NEW mk, tk \subseteq mk,
         NEW kn, NEW lk, Grows(kn, lk), TurnGood(t, n, kn), TurnMatches(t, f, tk, kn)
  PROVE  TurnMatches(t, f, mk, lk)
<1>1. t.state \in CardState /\ t.state.session \in Ids
  BY DEF TurnRecord, TurnGood
<1>2. Exact(t.state, kn) => Exact(t.state, lk)
  BY <1>1, FilesGrow DEF TurnGood
<1>3. \A k : Sent(t, kn, k) => Sent(t, lk, k)
  BY <1>1, SentGrows
<1>4. StartMatches(t, f, kn) => StartMatches(t, f, lk)
  BY <1>2 DEF StartMatches
<1>5. SentMatches(t, f, tk, kn) => SentMatches(t, f, mk, lk)
  BY <1>3 DEF SentMatches
<1>6. ItemsMatch(t, f, kn) => ItemsMatch(t, f, lk)
  BY <1>1 DEF ItemsMatch, Grows
<1> QED BY <1>4, <1>5, <1>6 DEF TurnMatches

-----------------------------------------------------------------------------
(* What the Update of a scan does to a file                                 *)

LEMMA ScannedFile ==
  ASSUME NEW f \in CardState, NEW S \in SUBSET Mentions
  PROVE  LET g == WithMentions(f, S)
         IN  /\ g \in CardState
             /\ g.session = f.session /\ g.started = f.started /\ g.until = f.until
             /\ g.handled = f.handled \cup S
             /\ Len(f.queue) <= Len(g.queue)
             /\ \A i \in 1..Len(f.queue) : g.queue[i] = f.queue[i]
             /\ ItemsOf(g.queue) = ItemsOf(f.queue) \cup (S \ f.handled)
             /\ \A n \in 0..Len(f.queue) :
                  After(g.queue, n) = After(f.queue, n) \cup (S \ f.handled)
<1>1. f.queue \in Seq(Mentions) /\ S \ f.handled \in SUBSET Mentions
  BY DEF CardState
<1>2. PICK q : q = f.queue \o InOrder(S \ f.handled)
  OBVIOUS
<1>3. PICK g : g = WithMentions(f, S)
  OBVIOUS
<1>4. g = [f EXCEPT !.handled = @ \cup S, !.queue = q]
  BY <1>2, <1>3 DEF WithMentions
<1>5. /\ q \in Seq(Mentions) /\ Len(f.queue) <= Len(q)
      /\ \A i \in 1..Len(f.queue) : q[i] = f.queue[i]
      /\ ItemsOf(q) = ItemsOf(f.queue) \cup (S \ f.handled)
      /\ \A n \in 0..Len(f.queue) : After(q, n) = After(f.queue, n) \cup (S \ f.handled)
  BY <1>1, <1>2, Appended
<1>6. /\ g \in CardState /\ g.queue = q /\ g.handled = f.handled \cup S
      /\ g.session = f.session /\ g.started = f.started /\ g.until = f.until
  <2>1. S \in SUBSET Comments
    BY MentionsAssumption DEF Comments
  <2> QED BY <1>4, <1>5, <2>1 DEF CardState
<1> QED BY <1>3, <1>5, <1>6

LEMMA ScanKeepsFile ==
  ASSUME NEW f \in CardState, NEW S \in SUBSET Mentions, NEW n, NEW kn, NEW tk
  PROVE  /\ Good(f, n, kn) /\ S \subseteq 1..n => Good(WithMentions(f, S), n, kn)
         /\ Exact(f, kn) => Exact(WithMentions(f, S), kn)
         /\ Had(f, tk) => Had(WithMentions(f, S), tk)
         /\ \A s : Of(f, s) => Of(WithMentions(f, S), s)
<1>1. PICK g : g = WithMentions(f, S)
  OBVIOUS
<1>2. /\ g.session = f.session /\ g.started = f.started /\ g.until = f.until
      /\ g.handled = f.handled \cup S
      /\ ItemsOf(g.queue) = ItemsOf(f.queue) \cup (S \ f.handled)
  BY <1>1, ScannedFile
<1> QED BY <1>1, <1>2 DEF Good, Exact, Had, Of

\* What a turn knows of the file stays true when a scan adds mentions to it.
LEMMA ScanKeepsTurn ==
  ASSUME NEW f \in CardState, NEW S \in SUBSET Mentions, NEW t \in TurnRecord,
         NEW tk, NEW kn, TurnMatches(t, f, tk, kn)
  PROVE  TurnMatches(t, WithMentions(f, S), tk, kn)
<1>1. PICK g : g = WithMentions(f, S)
  OBVIOUS
<1>2. PICK a \in Nat, b \in Nat, c \in Nat, d \in Nat, e \in Nat :
        /\ a = Len(f.queue) /\ b = Len(g.queue) /\ c = Len(t.state.queue)
        /\ d = t.consumed /\ e = Len(t.items)
  <2>1. g.queue \in Seq(Mentions)
    BY <1>1, ScannedFile DEF CardState
  <2>2. f.queue \in Seq(Mentions) /\ t.state.queue \in Seq(Mentions)
        /\ t.items \in Seq(Mentions) /\ t.consumed \in Nat
    BY DEF CardState, TurnRecord
  <2>3. /\ Len(f.queue) \in Nat /\ Len(g.queue) \in Nat /\ Len(t.state.queue) \in Nat
        /\ t.consumed \in Nat /\ Len(t.items) \in Nat
    BY <2>1, <2>2
  <2> QED BY <2>3, Zenon
<1>3. /\ g.handled = f.handled \cup S
      /\ a <= b /\ \A i \in 1..a : g.queue[i] = f.queue[i]
      /\ \A n \in 0..a : After(g.queue, n) = After(f.queue, n) \cup (S \ f.handled)
  BY <1>1, <1>2, ScannedFile
<1>4. ASSUME StartMatches(t, f, kn) PROVE StartMatches(t, g, kn)
  <2>1. c \in 0..a
    BY <1>2, <1>4 DEF StartMatches
  <2>2. After(g.queue, c) = After(f.queue, c) \cup (S \ f.handled)
    BY <1>3, <2>1
  <2> QED BY <1>2, <1>3, <1>4, <2>1, <2>2 DEF StartMatches
<1>5. ASSUME SentMatches(t, f, tk, kn) PROVE SentMatches(t, g, tk, kn)
  <2>1. d \in 0..a
    BY <1>2, <1>5 DEF SentMatches
  <2>2. After(g.queue, d) = After(f.queue, d) \cup (S \ f.handled)
    BY <1>3, <2>1
  <2> QED BY <1>2, <1>3, <1>5, <2>1, <2>2 DEF SentMatches
<1>6. ASSUME ItemsMatch(t, f, kn) PROVE ItemsMatch(t, g, kn)
  <2>1. d + e \in 0..a
    BY <1>2, <1>6 DEF ItemsMatch
  <2>2. After(g.queue, d + e) = After(f.queue, d + e) \cup (S \ f.handled)
    BY <1>3, <2>1
  <2>3. \A i \in 1..e : t.items[i] = g.queue[d + i]
    <3>1. \A i \in 1..e : d + i \in 1..a
      BY <2>1
    <3> QED BY <1>2, <1>3, <1>6, <3>1 DEF ItemsMatch
  <2> QED BY <1>2, <1>3, <1>6, <2>1, <2>2, <2>3 DEF ItemsMatch
<1> QED BY <1>1, <1>4, <1>5, <1>6 DEF TurnMatches

\* Nor does the Update of a reset change the queue.
LEMMA ResetKeepsTurn ==
  ASSUME NEW f, NEW g, g.queue = f.queue, g.handled = f.handled,
         NEW t, NEW tk, NEW kn, TurnMatches(t, f, tk, kn)
  PROVE  TurnMatches(t, g, tk, kn)
BY DEF TurnMatches, StartMatches, SentMatches, ItemsMatch

-----------------------------------------------------------------------------
(* What a turn sends                                                        *)

LEMMA WithPromptIs ==
  ASSUME NEW t \in TurnRecord
  PROVE  /\ WithPrompt(t).state = t.state /\ WithPrompt(t).at = t.at
         /\ WithPrompt(t).up = t.up /\ WithPrompt(t).seen = t.seen
         /\ WithPrompt(t).renewed = t.renewed /\ WithPrompt(t).first = t.first
         /\ WithPrompt(t).items = t.items /\ WithPrompt(t).sees = t.sees
         /\ WithPrompt(t).consumed = Len(t.state.queue)
         /\ WithPrompt(t).until = UpTo(t.state.until, InPrompt(t))
         /\ InPrompt(WithPrompt(t)) = InPrompt(t)
<1>1. PICK n, u : n = Len(t.state.queue) /\ u = UpTo(t.state.until, InPrompt(t))
  OBVIOUS
<1>2. WithPrompt(t) = [t EXCEPT !.consumed = n, !.until = u]
  BY <1>1 DEF WithPrompt
<1> QED BY <1>1, <1>2 DEF TurnRecord, InPrompt

\* The prompt has all comments up to its time that the session does not know,
\* but the mentions that were not handled when the turn read the file.
LEMMA PromptSends ==
  ASSUME NEW t \in TurnRecord, ~ t.up, NEW n \in Nat, NEW kn, Good(t.state, n, kn),
         t.state.until <= t.seen, t.state.handled \subseteq 1..t.seen
  PROVE  LET p == WithPrompt(t)
         IN  /\ p.until \in 0..t.seen
             /\ \A k \in 1..p.until : Sent(p, kn, k) \/ k \in Mentions
             /\ Exact(t.state, kn) =>
                  \A k \in 1..p.until :
                    Sent(p, kn, k) \/ (k \in Mentions /\ k \notin t.state.handled)
<1>1. PICK S, h, q, b, u, v :
        /\ S = InPrompt(t) /\ h = t.state.handled /\ q = t.state.queue
        /\ b = t.state.started /\ u = t.state.until /\ v = UpTo(u, S)
  OBVIOUS
<1>2. /\ t.seen \in 0..MaxComments /\ u \in 0..MaxComments /\ u <= t.seen
      /\ b \in BOOLEAN
  BY <1>1 DEF TurnRecord, CardState
<1>3. S = {k \in 1..t.seen : /\ ~ b \/ k > u \/ k \in ItemsOf(q)
                             /\ k \in Mentions => k \in h}
  BY <1>1 DEF InPrompt, Presented
<1>4. S \in SUBSET (1..t.seen) /\ v \in {u} \cup S /\ \A k \in {u} \cup S : k <= v
  <2>1. S = Presented(t.seen, ItemsOf(q), h, ~ b, u)
    BY <1>1 DEF InPrompt
  <2> QED BY <1>1, <1>2, <2>1, PresentedIs
<1>5. v \in 0..t.seen
  BY <1>2, <1>4, BoundsAssumption
<1>6. PICK p : p = WithPrompt(t)
  OBVIOUS
<1>7. p.until = v /\ p.state = t.state /\ ~ p.up /\ InPrompt(p) = S
  BY <1>1, <1>6, WithPromptIs
<1>8. \A k : Sent(p, kn, k) <=> (k \in S \/ (b /\ k \in kn[t.state.session]))
  BY <1>1, <1>7 DEF Sent
<1>9. ItemsOf(q) \subseteq h
  BY <1>1 DEF Good
<1>10. ASSUME NEW k \in 1..v
       PROVE  /\ Sent(p, kn, k) \/ k \in Mentions
              /\ Exact(t.state, kn) => Sent(p, kn, k) \/ (k \in Mentions /\ k \notin h)
  <2>1. k \in 1..t.seen
    BY <1>2, <1>5
  <2>2. CASE b /\ k <= u
    <3>1. k \in 1..u
      BY <1>2, <2>1, <2>2
    <3>2. k \in kn[t.state.session] \/ k \in Mentions
      BY <1>1, <2>2, <3>1 DEF Good
    <3>3. ASSUME Exact(t.state, kn)
          PROVE  Sent(p, kn, k) \/ (k \in Mentions /\ k \notin h)
      <4>1. k \in kn[t.state.session] \/ (k \in Mentions /\ (k \notin h \/ k \in ItemsOf(q)))
        BY <1>1, <2>2, <3>1, <3>3 DEF Exact
      <4>2. k \in ItemsOf(q) => k \in S
        BY <1>3, <1>9, <2>1
      <4> QED BY <1>8, <2>2, <4>1, <4>2
    <3> QED BY <1>8, <2>2, <3>2, <3>3
  <2>3. CASE ~ b \/ k > u
    <3>1. k \in S \/ (k \in Mentions /\ k \notin h)
      BY <1>3, <2>1, <2>3
    <3> QED BY <1>8, <3>1
  <2>4. k \in Nat /\ u \in Nat
    BY <1>2, <2>1, BoundsAssumption
  <2> QED BY <1>2, <2>2, <2>3, <2>4
<1> QED BY <1>1, <1>5, <1>6, <1>7, <1>10

\* What a check gives to the turn.
Given(t, n) == Presented(n, ItemsOf(t.items), t.sees, FALSE, t.until)

WithItems(t, u) ==
  [t EXCEPT !.consumed = @ + Len(t.items), !.until = u, !.items = <<>>, !.sees = {}]

\* A check that presents newer comments presents all comments up to the last of
\* them, but mentions that it did not see to be handled.
LEMMA CheckSends ==
  ASSUME NEW t \in TurnRecord, t.at = "claude", t.up, t.items # <<>>,
         NEW n \in 0..MaxComments, NEW kn, NEW lk, Grows(kn, lk), NEW u,
         u = UpTo(t.until, Given(t, n)),
         Given(t, n) \subseteq lk[t.state.session],
         TurnGood(t, n, kn)
  PROVE  /\ WithItems(t, u) \in TurnRecord /\ TurnGood(WithItems(t, u), n, lk)
         /\ \A f \in CardState : \A tk, mk :
              /\ Good(f, n, kn) /\ TurnMatches(t, f, tk, kn)
              /\ tk \subseteq mk /\ ItemsOf(t.items) \subseteq mk
              => TurnMatches(WithItems(t, u), f, mk, lk)
<1>0. PICK S : S = Given(t, n)
  OBVIOUS
<1>1. PICK a \in Nat, d \in Nat : S = Given(t, n) /\ a = Len(t.items) /\ d = t.consumed
  <2>1. t.items \in Seq(Mentions) /\ t.consumed \in Nat
    BY DEF TurnRecord
  <2>2. Len(t.items) \in Nat
    BY <2>1
  <2> QED BY <1>0, <2>1, <2>2
<1>2. PICK r : r = WithItems(t, u)
  OBVIOUS
<1>3. t.until \in 0..MaxComments /\ t.items \in Seq(Mentions) /\ t.state \in CardState
      /\ t.seen \in Nat /\ n \in Nat
  BY BoundsAssumption DEF TurnRecord
<1>4. /\ S \in SUBSET (1..n) /\ u \in 0..MaxComments
      /\ u \in {t.until} \cup S /\ \A k \in {t.until} \cup S : k <= u
  BY <1>1, <1>3, PresentedIs DEF Given
<1>5. u <= n
  BY <1>3, <1>4 DEF TurnGood
<1>6. r = [t EXCEPT !.consumed = d + a, !.until = u, !.items = <<>>, !.sees = {}]
  BY <1>1, <1>2 DEF WithItems
<1>7. d + a \in Nat /\ <<>> \in Seq(Mentions) /\ {} \in SUBSET Comments
  OBVIOUS
<1>8. /\ r \in TurnRecord /\ r.at = "claude" /\ r.up /\ r.state = t.state
      /\ r.consumed = d + a /\ r.until = u /\ r.items = <<>>
      /\ r.renewed = t.renewed /\ r.first = t.first /\ r.seen = t.seen
  BY <1>4, <1>6, <1>7 DEF TurnRecord
<1>9. t.state.session \in Ids
  BY DEF TurnGood
<1>10. \A k : Sent(t, kn, k) \/ k \in S => Sent(r, lk, k)
  BY <1>1, <1>8, <1>9 DEF Sent, Grows
<1>11. S = {k \in 1..n : /\ k > t.until \/ k \in ItemsOf(t.items)
                         /\ k \in Mentions => k \in t.sees}
  BY <1>1 DEF Given, Presented
<1>12. ASSUME NEW k \in 1..u, k \notin 1..t.until
       PROVE  Sent(r, lk, k) \/ (k \in Mentions /\ k \notin t.sees)
  <2>1. k \in 1..n /\ k > t.until
    BY <1>3, <1>4, <1>5, <1>12, BoundsAssumption
  <2> QED BY <1>10, <1>11, <2>1
<1>13. Good(t.state, n, lk)
  BY <1>3, FilesGrow DEF TurnGood
<1>14. \A k \in 1..u : Sent(r, lk, k) \/ k \in Mentions
  BY <1>10, <1>12 DEF TurnGood
<1>15. TurnGood(r, n, lk)
  BY <1>5, <1>8, <1>13, <1>14 DEF TurnGood
<1>16. ASSUME NEW f \in CardState, NEW tk, NEW mk, Good(f, n, kn), TurnMatches(t, f, tk, kn),
              tk \subseteq mk, ItemsOf(t.items) \subseteq mk
       PROVE  TurnMatches(r, f, mk, lk)
  <2>1. SentMatches(t, f, tk, kn) /\ ItemsMatch(t, f, kn)
    BY <1>16 DEF TurnMatches
  <2>2. PICK b \in Nat : b = Len(f.queue)
    BY DEF CardState
  <2>3. /\ d + a <= b
        /\ \A i \in 1..a : t.items[i] = f.queue[d + i]
        /\ ItemsOf(t.items) \subseteq t.sees
        /\ t.sees \subseteq f.handled
        /\ f.handled \subseteq t.sees \cup After(f.queue, d + a) \cup kn[t.state.session]
    BY <1>1, <2>1, <2>2 DEF ItemsMatch
  <2>4. ASSUME NEW i \in 1..d + a PROVE f.queue[i] \in mk
    <3>1. CASE i <= d
      BY <1>1, <1>16, <2>1, <3>1 DEF SentMatches
    <3>2. CASE i > d
      <4>1. i - d \in 1..a /\ d + (i - d) = i
        BY <3>2
      <4>2. f.queue[i] = t.items[i - d]
        BY <2>3, <4>1
      <4>3. f.queue[i] \in ItemsOf(t.items)
        BY <1>1, <4>1, <4>2 DEF ItemsOf
      <4> QED BY <1>16, <4>3
    <3> QED BY <3>1, <3>2
  <2>5. ASSUME NEW x \in After(f.queue, d), x \notin After(f.queue, d + a)
        PROVE  x \in ItemsOf(t.items)
    <3>1. PICK i \in d + 1..b : x = f.queue[i]
      BY <2>2 DEF After
    <3>2. i \notin d + a + 1..b
      BY <2>2, <2>5, <3>1 DEF After
    <3>3. i - d \in 1..a /\ d + (i - d) = i
      BY <3>1, <3>2
    <3>4. x = t.items[i - d]
      BY <2>3, <3>1, <3>3
    <3> QED BY <1>1, <3>3, <3>4 DEF ItemsOf
  <2>6. ASSUME NEW k \in 1..u
        PROVE  \/ Sent(r, lk, k)
               \/ k \in Mentions /\ (k \notin f.handled \/ k \in After(f.queue, d + a))
    <3>1. CASE k \in 1..t.until
      <4>1. \/ Sent(t, kn, k)
            \/ k \in Mentions /\ (k \notin f.handled \/ k \in After(f.queue, d))
        BY <1>1, <2>1, <3>1 DEF SentMatches
      <4>2. CASE k \in ItemsOf(t.items)
        <5>1. k \in f.handled /\ k \in t.sees
          BY <2>3, <4>2
        <5>2. k \in 1..n
          BY <1>16, <5>1 DEF Good
        <5>3. k \in S
          BY <1>11, <4>2, <5>1, <5>2
        <5> QED BY <1>10, <5>3
      <4> QED BY <1>10, <2>5, <4>1, <4>2
    <3>2. CASE k \notin 1..t.until
      <4>1. k \in kn[t.state.session] => Sent(r, lk, k)
        BY <1>10 DEF Sent
      <4> QED BY <1>12, <2>3, <3>2, <4>1
    <3> QED BY <3>1, <3>2
  <2>7. SentMatches(r, f, mk, lk)
    BY <1>8, <2>2, <2>3, <2>4, <2>6 DEF SentMatches
  <2> QED BY <1>8, <2>7 DEF TurnMatches
<1> QED BY <1>2, <1>8, <1>15, <1>16

-----------------------------------------------------------------------------
(* What a turn leaves in the file                                           *)

LEMMA AfterTurnIs ==
  ASSUME NEW t \in TurnRecord, NEW f \in CardState, t.consumed <= Len(f.queue)
  PROVE  LET g == AfterTurn(t, f)
         IN  /\ g \in CardState /\ g.until = t.until /\ g.handled = f.handled
             /\ ItemsOf(g.queue) = After(f.queue, t.consumed)
             /\ g.session = (IF Names(t, f) THEN t.state.session ELSE f.session)
             /\ g.started = (IF Names(t, f) THEN t.state.started \/ t.up ELSE f.started)
<1>1. /\ f.queue \in Seq(Mentions) /\ t.consumed \in 0..Len(f.queue)
      /\ t.until \in 0..MaxComments /\ t.state \in CardState
      /\ t.state.session \in Ids \cup {NoId} /\ t.state.started \in BOOLEAN
      /\ t.up \in BOOLEAN /\ f.session \in Ids \cup {NoId} /\ f.started \in BOOLEAN
  BY DEF CardState, TurnRecord
<1>2. PICK q, s, b, u :
        /\ q = SubSeq(f.queue, t.consumed + 1, Len(f.queue)) /\ u = t.until
        /\ s = IF Names(t, f) THEN t.state.session ELSE f.session
        /\ b = IF Names(t, f) THEN t.state.started \/ t.up ELSE f.started
  OBVIOUS
<1>3. q \in Seq(Mentions) /\ ItemsOf(q) = After(f.queue, t.consumed)
  BY <1>1, <1>2, LeftOver
<1>4. s \in Ids \cup {NoId} /\ b \in BOOLEAN /\ u \in 0..MaxComments
  BY <1>1, <1>2
<1>5. PICK g : g = AfterTurn(t, f)
  OBVIOUS
<1>6. g = [f EXCEPT !.queue = q, !.session = s, !.started = b, !.until = u]
  BY <1>2, <1>5 DEF AfterTurn
<1>7. /\ g \in CardState /\ g.queue = q /\ g.session = s /\ g.started = b
      /\ g.until = u /\ g.handled = f.handled
  BY <1>3, <1>4, <1>6 DEF CardState
<1> QED BY <1>2, <1>3, <1>5, <1>7

\* A turn that ends says what its session knows; one that names no session
\* leaves a file whose session has not started.
LEMMA TurnSaves ==
  ASSUME NEW t \in TurnRecord, NEW f \in CardState, t.consumed <= Len(f.queue),
         NEW n, NEW kn, NEW tk, t.at = "save", TurnGood(t, n, kn), Good(f, n, kn),
         Names(t, f) \/ ~ f.started
  PROVE  /\ Good(AfterTurn(t, f), n, kn)
         /\ SentMatches(t, f, tk, kn) => Exact(AfterTurn(t, f), kn)
         /\ SentMatches(t, f, tk, kn) /\ Had(f, tk) => Had(AfterTurn(t, f), tk)
<1>1. PICK g, q : g = AfterTurn(t, f) /\ q = After(f.queue, t.consumed)
  OBVIOUS
<1>2. /\ g.until = t.until /\ g.handled = f.handled /\ ItemsOf(g.queue) = q
      /\ g.session = (IF Names(t, f) THEN t.state.session ELSE f.session)
      /\ g.started = (IF Names(t, f) THEN t.state.started \/ t.up ELSE f.started)
  BY <1>1, AfterTurnIs
<1>3. PICK a \in Nat, d \in Nat : a = Len(f.queue) /\ d = t.consumed
  BY DEF CardState, TurnRecord
<1>4. q \subseteq ItemsOf(f.queue)
  <2>1. \A i \in d + 1..a : i \in 1..a
    OBVIOUS
  <2> QED BY <1>1, <1>3, <2>1 DEF After, ItemsOf
<1>5. g.started => t.up /\ g.session = t.state.session /\ t.state.session \in Ids
  BY <1>2 DEF TurnGood
<1>6. Good(g, n, kn)
  <2>1. g.until <= n /\ g.handled \subseteq 1..n /\ ItemsOf(g.queue) \subseteq g.handled
    BY <1>2, <1>4 DEF Good, TurnGood
  <2>2. ASSUME g.started PROVE \A k \in 1..g.until : k \in kn[g.session] \/ k \in Mentions
    BY <1>2, <1>5, <2>2 DEF TurnGood, Sent
  <2> QED BY <1>5, <2>1, <2>2 DEF Good
<1>7. ASSUME SentMatches(t, f, tk, kn) PROVE Exact(g, kn)
  BY <1>1, <1>2, <1>5, <1>7 DEF SentMatches, Exact, Sent
<1>8. ASSUME SentMatches(t, f, tk, kn), Had(f, tk) PROVE Had(g, tk)
  <2>1. ASSUME NEW x \in f.handled, x \notin tk PROVE x \in q
    <3>1. x \in ItemsOf(f.queue)
      BY <1>8, <2>1 DEF Had
    <3>2. PICK i \in 1..a : x = f.queue[i]
      BY <1>3, <3>1 DEF ItemsOf
    <3>3. i \notin 1..d
      BY <1>3, <1>8, <2>1, <3>2 DEF SentMatches
    <3>4. i \in d + 1..a
      BY <3>3
    <3> QED BY <1>1, <1>3, <3>2, <3>4 DEF After
  <2> QED BY <1>2, <2>1 DEF Had
<1> QED BY <1>1, <1>6, <1>7, <1>8

-----------------------------------------------------------------------------
(* The steps                                                                *)

LEMMA Counts ==
  ASSUME TypeOK
  PROVE  /\ posted \in Nat /\ posted \in 0..MaxComments
         /\ file \in CardState /\ turn \in TurnRecord /\ turn.state \in CardState
         /\ scan \in SUBSET Mentions
         /\ \A p \in Writers : update[p].new \in CardState /\ update[p].old \in CardState
         /\ temp # NoFile => temp \in CardState
         /\ atomic \in BOOLEAN
         /\ request \in RequestRecord /\ request.question \in Nat
BY BoundsAssumption DEF TypeOK, TurnRecord, UpdateRecord, RequestRecord

\* A prompt and a check teach the session of the turn.
LEMMA Learns ==
  ASSUME TypeOK, NEW s \in Ids, NEW S, known' = [known EXCEPT ![s] = @ \cup S],
         UNCHANGED answers
  PROVE  Knows' = [Knows EXCEPT ![s] = @ \cup S]
<1>1. \A i \in Ids : known'[i] \cup answers[i] = (known[i] \cup answers[i]) \cup
                      (IF i = s THEN S ELSE {})
  BY DEF TypeOK
<1> QED BY <1>1 DEF Knows

\* While the file and the question stay, so does what is known of the request.
LEMMA RequestsStay ==
  ASSUME TypeOK, Inv, UNCHANGED <<posted, file, temp, update>>,
         request' \in {request, [request EXCEPT !.alive = FALSE]},
         Live(request) =>
           /\ turn'.at \in {"claude", "save"} /\ turn'.up
           /\ turn'.state.session = turn.state.session,
         request'.alive => turn'.at = "claude"
  PROVE  Requests'
<1>1. /\ request'.at = request.at /\ (request'.granted <=> request.granted)
      /\ request'.question = request.question /\ request'.answer = request.answer
      /\ request'.session = request.session /\ (request'.alive => request.alive)
  BY Counts DEF RequestRecord
<1>2. ASSUME NEW n, Before(n) PROVE Before(n)'
  BY <1>2 DEF Before, Updating
<1>3. Live(request)' => Live(request)
  BY <1>1 DEF Live
<1>4. Requests
  BY DEF Inv
<1>5. ASSUME Live(request)'
      PROVE  /\ turn'.at \in {"claude", "save"} /\ turn'.up
             /\ request'.session = turn'.state.session
             /\ request'.at \in {"wait", "found", "update"} => Before(request.question)'
  BY <1>1, <1>2, <1>3, <1>4, <1>5 DEF Requests
<1>6. request'.alive => turn'.at = "claude" /\ turn'.up
  BY <1>1, <1>4 DEF Live
<1>7. /\ request'.at \in {"found", "update"} =>
           request'.question < request'.answer /\ request'.answer <= posted'
      /\ AnswerPending(update["approval"], request)'
  BY <1>1, <1>4 DEF Requests, AnswerPending
<1> QED BY <1>1, <1>5, <1>6, <1>7 DEF Requests

\* Steps that change the turn, and what its session knows, and not the disk.
LEMMA TurnStep ==
  ASSUME TypeOK, TypeOK', Inv,
         UNCHANGED <<posted, file, temp, update, scan, atomic>>,
         Used \subseteq Used', Grows(Knows, Knows'), ~ Updating("worker"),
         InTurn(turn') => InTurn(turn) /\ turn'.first = turn.first,
         request' \in {request, [request EXCEPT !.alive = FALSE]},
         Live(request) =>
           /\ turn'.at \in {"claude", "save"} /\ turn'.up
           /\ turn'.state.session = turn.state.session,
         request'.alive => turn'.at = "claude"
  PROVE  Files' /\ FileExact' /\ Writes' /\ OneSession' /\ Requests'
<1>0. PICK n, kn, lk, f, g, up : /\ n = posted /\ kn = Knows /\ lk = Knows'
                                 /\ f = file /\ g = temp /\ up = update
  OBVIOUS
<1>1. /\ f \in CardState
      /\ g # NoFile => g \in CardState
      /\ \A p \in Writers : up[p].new \in CardState
  BY <1>0, Counts
<1>2. \A x \in CardState : /\ Good(x, n, kn) => Good(x, n, lk)
                           /\ Good(x, n, kn) /\ Exact(x, kn) => Exact(x, lk)
  <2>1. n \in Nat /\ n <= n /\ Grows(kn, lk)
    BY <1>0, Counts
  <2> QED BY <2>1, FilesGrow
<1>3. /\ Good(f, n, kn)
      /\ g # NoFile => Good(g, n, kn)
      /\ \A p \in Writers : up[p].at # "none" => Good(up[p].new, n, kn)
      /\ atomic => Exact(f, kn) /\ Had(f, Used)
  BY <1>0 DEF Inv, Files, FileExact, Updating
<1>4. /\ Good(f, n, lk)
      /\ g # NoFile => Good(g, n, lk)
      /\ \A p \in Writers : up[p].at # "none" => Good(up[p].new, n, lk)
      /\ atomic => Exact(f, lk)
  <2>1. Good(f, n, lk) /\ (Exact(f, kn) => Exact(f, lk))
    BY <1>1, <1>2, <1>3
  <2>2. g # NoFile => Good(g, n, lk)
    BY <1>1, <1>2, <1>3
  <2>3. ASSUME NEW p \in Writers, up[p].at # "none" PROVE Good(up[p].new, n, lk)
    BY <1>1, <1>2, <1>3, <2>3
  <2> QED BY <1>3, <2>1, <2>2, <2>3
<1>5. Files'
  BY <1>0, <1>4 DEF Files, Updating
<1>6. FileExact'
  <2>1. atomic => Had(file, Used')
    BY <1>0, <1>3 DEF Had
  <2> QED BY <1>0, <1>4, <2>1 DEF FileExact
<1>7. Writes'
  BY DEF Inv, Writes, Updating, WorkerPending
<1>8. OneSession'
  BY DEF Inv, OneSession, Updating
<1>9. Requests'
  BY RequestsStay
<1> QED BY <1>5, <1>6, <1>7, <1>8, <1>9

\* A turn whose Claude has not started has no request that can count.
LEMMA NotAsking ==
  ASSUME Inv, turn.at \in {"load", "claude"}, turn.at = "claude" => ~ turn.up
  PROVE  ~ Live(request)
BY DEF Inv, Requests

LEMMA NotSaving ==
  ASSUME Inv, turn.at \in {"load", "claude"}
  PROVE  ~ Updating("worker")
BY DEF Inv, Writes, WorkerPending, Updating

LEMMA PromptKeeps ==
  ASSUME TypeOK, TypeOK', Inv, Prompt
  PROVE  Inv'
<1>1. PICK t : t = [turn EXCEPT !.at = "claude", !.seen = posted]
  OBVIOUS
<1>2. /\ turn.at = "load" /\ turn' = WithPrompt(t)
      /\ Used' = Used \cup ItemsOf(turn.state.queue)
      /\ UNCHANGED <<posted, Knows, file, temp, update, scan, atomic, request>>
  BY <1>1 DEF Prompt, Knows, Used, Answered, asking, disk
<1>3. /\ t \in TurnRecord /\ t.at = "claude" /\ t.seen = posted /\ t.state = turn.state
      /\ t.up = turn.up /\ t.renewed = turn.renewed /\ t.first = turn.first
      /\ t.items = turn.items
  BY <1>1, Counts DEF TurnRecord
<1>4. TurnGood(turn, posted, Knows) /\ ~ turn.up /\ ~ turn.renewed /\ turn.items = <<>>
  BY <1>2 DEF Inv, TurnOk, InTurn, TurnGood
<1>5. Good(t.state, posted, Knows) /\ t.state.session \in Ids
  BY <1>3, <1>4 DEF TurnGood
<1>6. PICK p : p = WithPrompt(t)
  OBVIOUS
<1>7. /\ p.state = turn.state /\ p.at = "claude" /\ ~ p.up /\ p.seen = posted
      /\ p.renewed = turn.renewed /\ p.first = turn.first /\ p.items = <<>>
      /\ p.consumed = Len(turn.state.queue)
  BY <1>3, <1>4, <1>6, WithPromptIs
<1>8. /\ p.until \in 0..posted
      /\ \A k \in 1..p.until : Sent(p, Knows, k) \/ k \in Mentions
      /\ Exact(turn.state, Knows) =>
           \A k \in 1..p.until :
             Sent(p, Knows, k) \/ (k \in Mentions /\ k \notin turn.state.handled)
  <2>1. t.state.until <= t.seen /\ t.state.handled \subseteq 1..t.seen
    BY <1>3, <1>5 DEF Good
  <2> QED BY <1>3, <1>4, <1>5, <1>6, <2>1, Counts, PromptSends
<1>9. Files' /\ FileExact' /\ Writes' /\ OneSession' /\ Requests'
  <2>1. Grows(Knows, Knows') /\ Used \subseteq Used' /\ turn'.first = turn.first
    BY <1>2, <1>6, <1>7 DEF Grows
  <2>2. ~ Live(request) /\ ~ request'.alive
    BY <1>2, <1>4, NotAsking DEF Live
  <2> QED BY <1>2, <2>1, <2>2, TurnStep, NotSaving DEF InTurn
<1>10. TurnGood(p, posted, Knows)
  <2>1. p.until <= posted
    BY <1>8, Counts
  <2>2. p.state.until <= p.seen /\ p.state.handled \subseteq 1..p.seen
    BY <1>3, <1>5, <1>7 DEF Good
  <2>3. posted <= posted
    BY Counts
  <2> QED BY <1>3, <1>4, <1>5, <1>7, <1>8, <2>1, <2>2, <2>3 DEF TurnGood
<1>11. ASSUME atomic PROVE TurnMatches(p, file, Used', Knows)
  <2>1. StartMatches(turn, file, Knows)
    BY <1>2, <1>11 DEF Inv, TurnFile, InTurn, TurnMatches
  <2>2. StartMatches(p, file, Knows)
    BY <1>7, <2>1 DEF StartMatches
  <2>3. \A i \in 1..p.consumed : file.queue[i] \in Used'
    BY <1>2, <1>7, <2>1 DEF StartMatches, ItemsOf
  <2>4. ASSUME NEW k \in 1..p.until
        PROVE  \/ Sent(p, Knows, k)
               \/ k \in Mentions /\ (k \notin file.handled \/ k \in After(file.queue, p.consumed))
    BY <1>7, <1>8, <2>1 DEF StartMatches
  <2>5. SentMatches(p, file, Used', Knows)
    BY <1>7, <2>1, <2>3, <2>4 DEF SentMatches, StartMatches
  <2> QED BY <1>7, <2>2, <2>5 DEF TurnMatches
<1>12. TurnOk' /\ TurnFile'
  BY <1>2, <1>6, <1>10, <1>11 DEF TurnOk, TurnFile
<1> QED BY <1>9, <1>12 DEF Inv

LEMMA RenewKeeps ==
  ASSUME TypeOK, TypeOK', Inv, Renew
  PROVE  Inv'
<1>1. PICK t : t = [turn EXCEPT !.state.session = NextId, !.state.started = FALSE,
                               !.renewed = TRUE]
  OBVIOUS
<1>2. /\ turn.at = "claude" /\ ~ turn.up /\ turn' = WithPrompt(t)
      /\ UNCHANGED <<posted, Knows, file, temp, update, scan, Used, atomic, request>>
  BY <1>1 DEF Renew, Knows, Used, Answered, asking, disk
<1>3. NextId \in Ids
  BY BoundsAssumption DEF Renew, TypeOK, NextId, Ids
<1>4. /\ t \in TurnRecord /\ t.at = "claude" /\ t.seen = turn.seen /\ t.renewed
      /\ t.up = turn.up /\ t.first = turn.first /\ t.items = turn.items
      /\ t.state.session = NextId /\ ~ t.state.started
      /\ t.state.queue = turn.state.queue /\ t.state.handled = turn.state.handled
      /\ t.state.until = turn.state.until
  <2>1. PICK c : c = [turn.state EXCEPT !.session = NextId, !.started = FALSE]
    OBVIOUS
  <2>2. t = [turn EXCEPT !.state = c, !.renewed = TRUE]
    BY <1>1, <2>1, Counts DEF TurnRecord, CardState
  <2>3. /\ c \in CardState /\ c.session = NextId /\ ~ c.started
        /\ c.queue = turn.state.queue /\ c.handled = turn.state.handled
        /\ c.until = turn.state.until
    BY <1>3, <2>1, Counts DEF CardState
  <2> QED BY <1>2, <2>2, <2>3, Counts DEF TurnRecord
<1>5. TurnGood(turn, posted, Knows) /\ turn.items = <<>>
  BY <1>2 DEF Inv, TurnOk, InTurn, TurnGood
<1>6. Good(t.state, posted, Knows) /\ Exact(t.state, Knows)
  BY <1>4, <1>5 DEF TurnGood, Good, Exact
<1>7. PICK p : p = WithPrompt(t)
  OBVIOUS
<1>8. /\ p.state = t.state /\ p.at = "claude" /\ ~ p.up /\ p.seen = turn.seen
      /\ p.renewed /\ p.first = turn.first /\ p.items = <<>>
      /\ p.consumed = Len(turn.state.queue)
  BY <1>2, <1>4, <1>5, <1>7, WithPromptIs
<1>9. t.state.until <= t.seen /\ t.state.handled \subseteq 1..t.seen
  BY <1>2, <1>4, <1>5 DEF TurnGood
<1>10. /\ p.until \in 0..t.seen
       /\ \A k \in 1..p.until : Sent(p, Knows, k) \/ k \in Mentions
       /\ \A k \in 1..p.until :
            Sent(p, Knows, k) \/ (k \in Mentions /\ k \notin turn.state.handled)
  BY <1>2, <1>4, <1>6, <1>7, <1>9, Counts, PromptSends
<1>11. Files' /\ FileExact' /\ Writes' /\ OneSession' /\ Requests'
  <2>1. Grows(Knows, Knows') /\ Used \subseteq Used' /\ turn'.first = turn.first
    BY <1>2, <1>7, <1>8 DEF Grows
  <2>2. ~ Live(request) /\ ~ request'.alive
    BY <1>2, NotAsking DEF Live
  <2> QED BY <1>2, <2>1, <2>2, TurnStep, NotSaving DEF InTurn
<1>12. TurnGood(p, posted, Knows)
  <2>1. p.until <= posted /\ p.seen <= posted
    <3>1. turn.seen \in Nat /\ turn.seen <= posted
      BY <1>5, BoundsAssumption, Counts DEF TurnGood, TurnRecord
    <3> QED BY <1>4, <1>8, <1>10, <3>1, Counts
  <2> QED BY <1>3, <1>4, <1>6, <1>8, <1>9, <1>10, <2>1 DEF TurnGood
<1>13. ASSUME atomic PROVE TurnMatches(p, file, Used, Knows)
  <2>1. StartMatches(turn, file, Knows) /\ SentMatches(turn, file, Used, Knows)
    BY <1>2, <1>13 DEF Inv, TurnFile, InTurn, TurnMatches
  <2>2. StartMatches(p, file, Knows)
    BY <1>4, <1>6, <1>8, <2>1 DEF StartMatches
  <2>3. p.consumed = turn.consumed
    BY <1>2, <1>5, <1>8 DEF TurnGood
  <2>4. ASSUME NEW k \in 1..p.until
        PROVE  \/ Sent(p, Knows, k)
               \/ k \in Mentions /\ (k \notin file.handled \/ k \in After(file.queue, p.consumed))
    BY <1>8, <1>10, <2>1 DEF StartMatches
  <2>5. SentMatches(p, file, Used, Knows)
    BY <2>1, <2>3, <2>4 DEF SentMatches
  <2> QED BY <1>8, <2>2, <2>5 DEF TurnMatches
<1>14. TurnOk' /\ TurnFile'
  BY <1>2, <1>7, <1>12, <1>13 DEF TurnOk, TurnFile
<1> QED BY <1>11, <1>14 DEF Inv

LEMMA TurnNotStartedKeeps ==
  ASSUME TypeOK, TypeOK', Inv, TurnNotStarted
  PROVE  Inv'
<1>1. /\ turn.at \in {"load", "claude"} /\ turn'.at = "idle"
      /\ UNCHANGED <<posted, Knows, file, temp, update, scan, Used, atomic, request>>
      /\ ~ Live(request) /\ ~ request.alive
  BY NotAsking, Counts DEF TurnNotStarted, NoTurn, Live, Inv, TurnOk, TurnGood, InTurn, Knows, Used, Answered, asking, disk
<1>2. Files' /\ FileExact' /\ Writes' /\ OneSession' /\ Requests'
  BY <1>1, TurnStep, NotSaving DEF InTurn, Grows
<1>3. TurnOk' /\ TurnFile'
  BY <1>1 DEF TurnOk, TurnFile, InTurn
<1> QED BY <1>2, <1>3 DEF Inv

LEMMA ClaudeStartsKeeps ==
  ASSUME TypeOK, TypeOK', Inv, ClaudeStarts
  PROVE  Inv'
<1>1. PICK t, r, kn, lk :
        /\ t = turn /\ r = [turn EXCEPT !.up = TRUE] /\ kn = Knows
        /\ lk = [Knows EXCEPT ![turn.state.session] = @ \cup InPrompt(turn)]
  OBVIOUS
<1>2. /\ t.at = "claude" /\ ~ t.up /\ turn' = r /\ Knows' = lk
      /\ UNCHANGED <<posted, file, temp, update, scan, Used, atomic, request>>
  <2>1. turn.state.session \in Ids
    BY DEF Inv, TurnOk, InTurn, TurnGood, ClaudeStarts
  <2>2. Knows' = lk
    BY <1>1, <2>1, Learns DEF ClaudeStarts, asking
  <2> QED BY <1>1, <2>2 DEF ClaudeStarts, disk, asking, Used, Answered
<1>3. /\ t \in TurnRecord /\ r \in TurnRecord /\ r.at = "claude" /\ r.up
      /\ r.state = t.state /\ r.until = t.until /\ r.seen = t.seen
      /\ r.consumed = t.consumed /\ r.items = t.items
      /\ r.renewed = t.renewed /\ r.first = t.first
  BY <1>1, <1>2, Counts DEF TurnRecord
<1>4. TurnGood(t, posted, Knows) /\ t.state.session \in Ids /\ t.items = <<>>
  BY <1>1, <1>2 DEF Inv, TurnOk, InTurn, TurnGood
<1>5. Grows(kn, lk) /\ InPrompt(t) \subseteq lk[t.state.session]
  BY <1>1, <1>4 DEF Grows, Knows
<1>6. Files' /\ FileExact' /\ Writes' /\ OneSession' /\ Requests'
  <2>1. Used \subseteq Used' /\ Grows(Knows, Knows') /\ turn'.first = turn.first
    BY <1>1, <1>2, <1>3, <1>5
  <2>2. ~ Live(request) /\ ~ request'.alive
    BY <1>1, <1>2, NotAsking DEF Live
  <2> QED BY <1>1, <1>2, <2>1, <2>2, TurnStep, NotSaving DEF InTurn
<1>7. \A k : Sent(t, kn, k) => Sent(r, lk, k)
  BY <1>2, <1>3, <1>4, <1>5 DEF Sent, Grows
<1>8. TurnGood(r, posted, lk)
  <2>1. Good(t.state, posted, lk)
    <3>1. posted <= posted /\ t.state \in CardState /\ Good(t.state, posted, kn)
      BY <1>1, <1>4, Counts DEF TurnGood
    <3> QED BY <1>5, <3>1, Counts, FilesGrow
  <2> QED BY <1>1, <1>2, <1>3, <1>4, <1>7, <2>1 DEF TurnGood
<1>9. ASSUME atomic PROVE TurnMatches(r, file, Used, lk)
  <2>1. SentMatches(t, file, Used, kn)
    BY <1>1, <1>2, <1>9 DEF Inv, TurnFile, InTurn, TurnMatches
  <2>2. SentMatches(r, file, Used, lk)
    BY <1>3, <1>7, <2>1 DEF SentMatches
  <2> QED BY <1>3, <1>4, <2>2 DEF TurnMatches
<1>10. TurnOk' /\ TurnFile'
  BY <1>2, <1>8, <1>9 DEF TurnOk, TurnFile
<1> QED BY <1>6, <1>10 DEF Inv

LEMMA CheckReadsKeeps ==
  ASSUME TypeOK, TypeOK', Inv, CheckReads
  PROVE  Inv'
<1>1. PICK t, q, h : /\ t = turn /\ h = file.handled
                     /\ q = SubSeq(file.queue, turn.consumed + 1, Len(file.queue))
  OBVIOUS
<1>2. PICK r : r = [t EXCEPT !.items = q, !.sees = h]
  OBVIOUS
<1>3. /\ t.at = "claude" /\ t.up /\ turn' = r /\ t.consumed < Len(file.queue)
      /\ UNCHANGED <<posted, Knows, file, temp, update, scan, Used, atomic, request>>
  BY <1>1, <1>2 DEF CheckReads, Knows, Used, Answered, asking, disk
<1>4. /\ t \in TurnRecord /\ r.at = "claude" /\ r.up
      /\ r.state = t.state /\ r.until = t.until /\ r.seen = t.seen
      /\ r.consumed = t.consumed /\ r.items = q /\ r.sees = h
      /\ r.renewed = t.renewed /\ r.first = t.first
  BY <1>1, <1>2, <1>3, Counts DEF TurnRecord
<1>5. Files' /\ FileExact' /\ Writes' /\ OneSession' /\ Requests'
  <2>1. Used \subseteq Used' /\ Grows(Knows, Knows') /\ turn'.first = turn.first
    BY <1>1, <1>3, <1>4 DEF Grows
  <2>2. turn'.at = "claude" /\ turn'.up /\ turn'.state.session = turn.state.session
    BY <1>1, <1>3, <1>4
  <2> QED BY <1>1, <1>3, <2>1, <2>2, TurnStep, NotSaving DEF InTurn
<1>6. \A k : Sent(t, Knows, k) => Sent(r, Knows, k)
  BY <1>3, <1>4 DEF Sent
<1>7. TurnGood(r, posted, Knows)
  <2>1. TurnGood(t, posted, Knows)
    BY <1>1, <1>3 DEF Inv, TurnOk, InTurn
  <2> QED BY <1>3, <1>4, <1>6, <2>1 DEF TurnGood
<1>8. ASSUME atomic PROVE TurnMatches(r, file, Used, Knows)
  <2>1. SentMatches(t, file, Used, Knows)
    BY <1>1, <1>3, <1>8 DEF Inv, TurnFile, InTurn, TurnMatches
  <2>2. SentMatches(r, file, Used, Knows)
    BY <1>4, <1>6, <2>1 DEF SentMatches
  <2>3. PICK a \in Nat, d \in Nat : a = Len(file.queue) /\ d = t.consumed
    <3>1. file.queue \in Seq(Mentions) /\ t.consumed \in Nat
      BY <1>4, Counts DEF CardState, TurnRecord
    <3> QED BY <3>1
  <2>4. /\ q \in Seq(Mentions) /\ Len(q) = a - d
        /\ \A i \in 1..Len(q) : q[i] = file.queue[d + i]
        /\ ItemsOf(q) = After(file.queue, d)
    <3>1. file.queue \in Seq(Mentions) /\ d \in 0..Len(file.queue)
      BY <1>3, <2>3, Counts DEF CardState
    <3> QED BY <1>1, <2>3, <3>1, LeftOver
  <2>5. ItemsOf(q) \subseteq h
    <3>1. After(file.queue, d) \subseteq ItemsOf(file.queue)
      <4>1. \A i \in d + 1..a : i \in 1..a
        OBVIOUS
      <4>2. ASSUME NEW x \in After(file.queue, d) PROVE x \in ItemsOf(file.queue)
        <5>1. PICK i \in d + 1..a : x = file.queue[i]
          BY <2>3 DEF After
        <5> QED BY <2>3, <4>1, <5>1 DEF ItemsOf
      <4> QED BY <4>2
    <3> QED BY <1>1, <2>4, <3>1 DEF Inv, Files, Good
  <2>6. d + Len(q) = a
    BY <2>4
  <2>7. ItemsMatch(r, file, Knows)
    <3>1. /\ r.consumed + Len(r.items) = a /\ a <= Len(file.queue)
          /\ r.sees = file.handled /\ r.items = q /\ r.consumed = d
      BY <1>1, <1>4, <2>3, <2>6
    <3>2. \A i \in 1..Len(r.items) : r.items[i] = file.queue[r.consumed + i]
      BY <2>4, <3>1
    <3>3. ItemsOf(r.items) \subseteq r.sees
      BY <1>1, <2>5, <3>1
    <3> QED BY <3>1, <3>2, <3>3 DEF ItemsMatch
  <2> QED BY <1>4, <2>2, <2>7 DEF TurnMatches
<1>9. TurnOk' /\ TurnFile'
  BY <1>3, <1>7, <1>8 DEF TurnOk, TurnFile
<1> QED BY <1>5, <1>9 DEF Inv

LEMMA CheckGivesKeeps ==
  ASSUME TypeOK, TypeOK', Inv, CheckGives
  PROVE  Inv'
<1>1. PICK t, n, kn : t = turn /\ n = posted /\ kn = Knows
  OBVIOUS
<1>2. PICK S : S = Given(t, n)
  OBVIOUS
<1>3. PICK u, lk : /\ u = UpTo(t.until, S)
                   /\ lk = [kn EXCEPT ![t.state.session] = @ \cup S]
  OBVIOUS
<1>4. PICK r : r = WithItems(t, u)
  OBVIOUS
<1>5. /\ t.at = "claude" /\ t.items # <<>> /\ turn' = r /\ Knows' = lk
      /\ Used' = Used \cup ItemsOf(t.items)
      /\ UNCHANGED <<posted, file, temp, update, scan, atomic, request>>
  <2>1. turn.state.session \in Ids
    BY DEF Inv, TurnOk, InTurn, TurnGood, CheckGives
  <2>2. known' = [known EXCEPT ![turn.state.session] = @ \cup S] /\ UNCHANGED answers
    BY <1>1, <1>2 DEF CheckGives, Given, asking
  <2>3. Knows' = lk
    BY <1>1, <1>3, <2>1, <2>2, Learns
  <2> QED BY <1>1, <1>2, <1>3, <1>4, <2>3 DEF CheckGives, Given, WithItems, disk, asking, Used, Answered
<1>6. TurnGood(t, n, kn) /\ t.state.session \in Ids /\ t.up
  BY <1>1, <1>5 DEF Inv, TurnOk, InTurn, TurnGood
<1>7. Grows(kn, lk) /\ S \subseteq lk[t.state.session]
  BY <1>1, <1>3, <1>6 DEF Grows, Knows
<1>8. t \in TurnRecord /\ n \in 0..MaxComments
  BY <1>1, Counts
<1>9. /\ r \in TurnRecord /\ TurnGood(r, n, lk)
      /\ \A f \in CardState : \A tk, mk :
           /\ Good(f, n, kn) /\ TurnMatches(t, f, tk, kn)
           /\ tk \subseteq mk /\ ItemsOf(t.items) \subseteq mk
           => TurnMatches(r, f, mk, lk)
  BY <1>2, <1>3, <1>4, <1>5, <1>6, <1>7, <1>8, CheckSends
<1>10. r.first = t.first /\ r.at = "claude" /\ r.up = t.up /\ r.state = t.state
  BY <1>4, <1>5, <1>8 DEF WithItems, TurnRecord
<1>11. Files' /\ FileExact' /\ Writes' /\ OneSession' /\ Requests'
  <2>1. Used \subseteq Used' /\ Grows(Knows, Knows') /\ turn'.first = turn.first
    BY <1>1, <1>5, <1>7, <1>10
  <2>2. turn'.at = "claude" /\ turn'.up /\ turn'.state.session = turn.state.session
    BY <1>1, <1>5, <1>6, <1>10
  <2> QED BY <1>1, <1>5, <2>1, <2>2, TurnStep, NotSaving DEF InTurn
<1>12. ASSUME atomic PROVE TurnMatches(r, file, Used', lk)
  <2>1. PICK f, tk, mk : f = file /\ tk = Used /\ mk = Used'
    OBVIOUS
  <2>2. f \in CardState /\ Good(f, n, kn) /\ TurnMatches(t, f, tk, kn)
    BY <1>1, <1>5, <1>12, <2>1, Counts DEF Inv, Files, TurnFile, InTurn
  <2>3. tk \subseteq mk /\ ItemsOf(t.items) \subseteq mk
    BY <1>5, <2>1
  <2>4. TurnMatches(r, f, mk, lk)
    BY <1>9, <2>2, <2>3
  <2> QED BY <2>1, <2>4
<1>13. TurnOk' /\ TurnFile'
  BY <1>1, <1>5, <1>9, <1>12 DEF TurnOk, TurnFile
<1> QED BY <1>11, <1>13 DEF Inv

LEMMA ClaudeEndsKeeps ==
  ASSUME TypeOK, TypeOK', Inv, ClaudeEnds
  PROVE  Inv'
<1>1. PICK t, r : t = turn /\ r = [turn EXCEPT !.at = "save", !.items = <<>>, !.sees = {}]
  OBVIOUS
<1>2. /\ t.at = "claude" /\ turn' = r /\ (t.up \/ ~ t.state.started)
      /\ UNCHANGED <<posted, Knows, file, temp, update, scan, Used, atomic>>
      /\ request' = [request EXCEPT !.alive = FALSE] /\ ~ request'.alive
  BY <1>1, Counts DEF ClaudeEnds, RequestRecord, Knows, Used, Answered, asking, disk
<1>3. /\ t \in TurnRecord /\ r.at = "save" /\ r.up = t.up
      /\ r.state = t.state /\ r.until = t.until /\ r.seen = t.seen
      /\ r.consumed = t.consumed /\ r.items = <<>>
      /\ r.renewed = t.renewed /\ r.first = t.first
  BY <1>1, Counts DEF TurnRecord
<1>4. Files' /\ FileExact' /\ Writes' /\ OneSession' /\ Requests'
  <2>1. Used \subseteq Used' /\ Grows(Knows, Knows') /\ turn'.first = turn.first
    BY <1>1, <1>2, <1>3 DEF Grows
  <2>2. Live(request) => /\ turn'.at = "save" /\ turn'.up
                         /\ turn'.state.session = turn.state.session
    BY <1>1, <1>2, <1>3 DEF Inv, Requests
  <2> QED BY <1>1, <1>2, <2>1, <2>2, TurnStep, NotSaving DEF InTurn
<1>5. \A k : Sent(t, Knows, k) => Sent(r, Knows, k)
  BY <1>3 DEF Sent, InPrompt
<1>6. TurnGood(r, posted, Knows)
  <2>1. TurnGood(t, posted, Knows)
    BY <1>1, <1>2 DEF Inv, TurnOk, InTurn
  <2> QED BY <1>2, <1>3, <1>5, <2>1 DEF TurnGood
<1>7. ASSUME atomic PROVE TurnMatches(r, file, Used, Knows)
  <2>1. SentMatches(t, file, Used, Knows)
    BY <1>1, <1>2, <1>7 DEF Inv, TurnFile, InTurn, TurnMatches
  <2>2. SentMatches(r, file, Used, Knows)
    BY <1>3, <1>5, <2>1 DEF SentMatches
  <2> QED BY <1>3, <2>2 DEF TurnMatches
<1>8. TurnOk' /\ TurnFile'
  BY <1>2, <1>6, <1>7 DEF TurnOk, TurnFile
<1> QED BY <1>4, <1>8 DEF Inv

LEMMA PostKeeps ==
  ASSUME TypeOK, TypeOK', Inv, Post
  PROVE  Inv'
<1>1. PICK n, m, kn : n = posted /\ m = posted + 1 /\ kn = Knows
  OBVIOUS
<1>2. posted' = m /\ UNCHANGED <<Knows, file, temp, update, scan, turn, Used, atomic, request>>
  BY <1>1 DEF Post, Knows, Used, Answered, asking, disk
<1>3. n \in Nat /\ m \in Nat /\ n <= m /\ Grows(kn, kn) /\ 1..n \subseteq 1..m
  BY <1>1, Counts DEF Grows
<1>4. \A x \in CardState : Good(x, n, kn) => Good(x, m, kn)
  BY <1>3, FilesGrow
<1>5. Files'
  <2>1. /\ Good(file, n, kn)
        /\ temp # NoFile => Good(temp, n, kn)
        /\ \A p \in Writers : Updating(p) => Good(update[p].new, n, kn)
    BY <1>1 DEF Inv, Files
  <2>2. /\ Good(file, m, kn)
        /\ temp # NoFile => Good(temp, m, kn)
        /\ \A p \in Writers : Updating(p) => Good(update[p].new, m, kn)
    BY <1>4, <2>1, Counts
  <2> QED BY <1>1, <1>2, <2>2 DEF Files, Updating
<1>6. FileExact' /\ TurnFile'
  BY <1>2 DEF Inv, FileExact, TurnFile
<1>7. Writes' /\ OneSession'
  BY <1>1, <1>2, <1>3 DEF Inv, Writes, OneSession, Updating
<1>8. TurnOk'
  <2>1. InTurn(turn) => TurnGood(turn, n, kn)
    BY <1>1 DEF Inv, TurnOk
  <2>2. InTurn(turn) => TurnGood(turn, m, kn)
    BY <1>3, <2>1, Counts, TurnGrows
  <2> QED BY <1>1, <1>2, <2>2 DEF TurnOk
<1>9. Requests'
  <2>1. request.answer \in Nat
    <3>1. request.answer \in Answers \cup {NoComment}
      BY Counts DEF RequestRecord
    <3>2. \A c \in Answers : c \in Nat
      BY BoundsAssumption, AnswersAssumption
    <3> QED BY <3>1, <3>2 DEF NoComment
  <2>2. request.answer <= n => request.answer <= m
    <3>1. PICK c \in Nat : c = request.answer
      BY <2>1
    <3>2. c <= n => c <= m
      BY <1>3
    <3> QED BY <3>1, <3>2
  <2> QED BY <1>1, <1>2, <2>2 DEF Inv, Requests, Before, Updating
<1> QED BY <1>5, <1>6, <1>7, <1>8, <1>9 DEF Inv

LEMMA ScanReadsKeeps ==
  ASSUME TypeOK, TypeOK', Inv, ScanReads
  PROVE  Inv'
<1>1. /\ scan = {} /\ scan' \subseteq 1..posted
      /\ UNCHANGED <<posted, Knows, file, temp, update, turn, Used, atomic, request>>
  <2>1. scan = {} /\ UNCHANGED <<posted, Knows, file, temp, update, turn, Used, atomic, request>>
    BY DEF ScanReads, Knows, Used, Answered, asking, disk
  <2>2. PICK n \in 1..posted : scan' \subseteq Mentions \cap 1..n
    BY DEF ScanReads
  <2>3. 1..n \subseteq 1..posted
    BY <2>2, Counts
  <2> QED BY <2>1, <2>2, <2>3
<1>2. ~ Updating("scan")
  BY <1>1 DEF Inv, Writes, ScanPending, Updating
<1>3. Files' /\ FileExact' /\ OneSession' /\ TurnOk' /\ TurnFile' /\ Requests'
  BY <1>1 DEF Inv, Files, FileExact, OneSession, TurnOk, TurnFile, Requests, Before, Updating
<1>4. Writes'
  BY <1>1, <1>2 DEF Inv, Writes, ScanPending, Updating
<1> QED BY <1>3, <1>4 DEF Inv

LEMMA WriteTempKeeps ==
  ASSUME TypeOK, TypeOK', Inv, NEW p \in Writers, WriteTemp(p)
  PROVE  Inv'
<1>1. /\ update[p].at = "write" /\ temp' = update[p].new
      /\ UNCHANGED <<posted, Knows, file, scan, turn, Used, atomic, request>>
  BY DEF WriteTemp, Knows, Used, Answered, asking
<1>2. /\ \A q \in Writers : update'[q].new = update[q].new /\ update'[q].old = update[q].old
      /\ \A q \in Writers \ {p} : update'[q] = update[q]
      /\ update'[p].at = "rename"
      /\ \A q \in Writers : update'[q].at = "none" <=> update[q].at = "none"
  BY <1>1 DEF WriteTemp, TypeOK, UpdateRecord
<1>3. Files'
  BY <1>1, <1>2 DEF Inv, Files, Updating
<1>4. FileExact' /\ TurnOk' /\ TurnFile'
  BY <1>1 DEF Inv, FileExact, TurnOk, TurnFile
<1>5. ScanPending(update'["scan"], scan') /\ ResetPending(update'["reset"])
  BY <1>1, <1>2 DEF Inv, Writes, ScanPending, ResetPending, Writers
<1>6. WorkerPending(update'["worker"], turn')
  BY <1>1, <1>2 DEF Inv, Writes, WorkerPending, Writers
<1>7. /\ \A q, r \in Writers \ {"reset"} : Updating(q)' /\ Updating(r)' => q = r
      /\ scan' \subseteq 1..posted'
  BY <1>1, <1>2 DEF Inv, Writes, Updating, Writers
<1>8. update'["worker"].at = "rename" =>
        temp' = NoFile \/ temp' = update'["worker"].new \/ ~ temp'.started
  <2>1. CASE p = "worker"
    BY <1>1, <1>2, <2>1
  <2>2. CASE p = "reset"
    BY <1>1, <2>2 DEF Inv, Writes, ResetPending
  <2>3. CASE p \in {"scan", "approval"}
    <3>1. update'["worker"].at = "none"
      BY <1>1, <1>2, <2>3 DEF Inv, Writes, Updating, Writers
    <3> QED BY <3>1
  <2> QED BY <2>1, <2>2, <2>3 DEF Writers
<1>9. Writes'
  BY <1>5, <1>6, <1>7, <1>8 DEF Writes
<1>10. OneSession'
  <2>1. SUFFICES ASSUME InTurn(turn), update["worker"].at = "none"
                 PROVE  /\ Of(file, turn.first)
                        /\ Of(temp', turn.first)
                        /\ Updating("scan") => Of(update["scan"].new, turn.first)
                        /\ Updating("approval") => Of(update["approval"].new, turn.first)
    BY <1>1, <1>2 DEF OneSession, Updating, Writers
  <2>2. /\ Of(file, turn.first)
        /\ Updating("scan") => Of(update["scan"].new, turn.first)
        /\ Updating("approval") => Of(update["approval"].new, turn.first)
    BY <2>1 DEF Inv, OneSession, Updating
  <2>3. CASE p = "reset"
    BY <1>1, <2>2, <2>3 DEF Inv, Writes, ResetPending, Of
  <2>4. CASE p \in {"scan", "approval"}
    BY <1>1, <2>2, <2>4 DEF Updating
  <2> QED BY <1>1, <2>1, <2>2, <2>3, <2>4 DEF Writers
<1>11. Requests'
  <2>1. ASSUME NEW n, Before(n) PROVE Before(n)'
    BY <1>1, <1>2, <2>1 DEF Before, Updating
  <2>2. AnswerPending(update'["approval"], request)
    BY <1>2 DEF Inv, Requests, AnswerPending, Writers
  <2> QED BY <1>1, <2>1, <2>2 DEF Inv, Requests
<1> QED BY <1>3, <1>4, <1>9, <1>10, <1>11 DEF Inv

-----------------------------------------------------------------------------
(* An Update reads the file                                                 *)

LEMMA ReadFileIs ==
  ASSUME TypeOK, TypeOK', Inv, NEW p \in Writers, NEW new \in CardState, ReadFile(p, new),
         Good(new, posted, Knows), UNCHANGED answers
  PROVE  /\ UNCHANGED <<posted, Knows, file, temp, Used, atomic>>
         /\ update'[p] = [at |-> "write", old |-> file, new |-> new]
         /\ \A q \in Writers \ {p} : update'[q] = update[q]
         /\ MutexFree(p)
         /\ Files' /\ FileExact'
         /\ new.until <= file.until => \A n \in Nat : Before(n) => Before(n)'
<1>1. /\ UNCHANGED <<posted, Knows, file, temp, Used, atomic>>
      /\ update'[p] = [at |-> "write", old |-> file, new |-> new]
      /\ \A q \in Writers \ {p} : update'[q] = update[q]
      /\ MutexFree(p)
  BY DEF ReadFile, TypeOK, disk, Knows, Used, Answered
<1>2. \A q \in Writers : Updating(q)' => Good(update'[q].new, posted, Knows)
  <2> SUFFICES ASSUME NEW q \in Writers, update'[q].at # "none"
               PROVE  Good(update'[q].new, posted, Knows)
    BY DEF Updating
  <2>1. CASE q = p
    BY <1>1, <2>1
  <2>2. CASE q # p
    BY <1>1, <2>2 DEF Inv, Files, Updating
  <2> QED BY <2>1, <2>2
<1>3. Files'
  BY <1>1, <1>2 DEF Inv, Files
<1>4. FileExact'
  BY <1>1 DEF Inv, FileExact
<1>5. ASSUME new.until <= file.until, NEW n \in Nat, Before(n) PROVE Before(n)'
  <2>1. file.until \in Nat /\ new.until \in Nat
    BY Counts, BoundsAssumption DEF CardState
  <2>2. new.until <= n
    BY <1>5, <2>1 DEF Before
  <2>3. ASSUME NEW q \in Writers, Updating(q)' PROVE update'[q].new.until <= n
    <3>1. CASE q = p
      BY <1>1, <2>2, <3>1
    <3>2. CASE q # p
      BY <1>1, <1>5, <2>3, <3>2 DEF Before, Updating
    <3> QED BY <3>1, <3>2
  <2> QED BY <1>1, <1>5, <2>3 DEF Before
<1> QED BY <1>1, <1>3, <1>4, <1>5

\* The Update of another writer says no more to be known than the file did.
LEMMA RequestsCarry ==
  ASSUME TypeOK, Inv, UNCHANGED <<posted, turn, request>>,
         update'["approval"] = update["approval"],
         \A n \in Nat : Before(n) => Before(n)'
  PROVE  Requests'
<1>1. Requests /\ request.question \in Nat
  BY Counts DEF Inv
<1>2. Before(request.question) => Before(request.question)'
  BY <1>1
<1> QED BY <1>1, <1>2 DEF Requests

\* The Updates of a turn come before its requests and after them.
LEMMA RequestsRest ==
  ASSUME Inv, UNCHANGED <<posted, request>>,
         update'["approval"] = update["approval"], ~ Live(request)
  PROVE  Requests'
<1>1. ~ request.alive
  BY DEF Live
<1> QED BY <1>1 DEF Inv, Requests

LEMMA ScanUpdatesKeeps ==
  ASSUME TypeOK, TypeOK', Inv, ScanUpdates
  PROVE  Inv'
<1>1. PICK new : new = WithMentions(file, scan)
  OBVIOUS
<1>2. scan # {} /\ ReadFile("scan", new) /\ UNCHANGED <<scan, turn, request, answers>>
  BY <1>1 DEF ScanUpdates, asking
<1>3. new \in CardState
  BY <1>1, Counts, ScannedFile
<1>4. Good(new, posted, Knows) /\ (\A s : Of(file, s) => Of(new, s))
      /\ new.until <= file.until
  <2>1. Good(file, posted, Knows) /\ scan \subseteq 1..posted
    BY DEF Inv, Files, Writes
  <2>2. new.until = file.until /\ file.until \in Nat
    BY <1>1, Counts, ScannedFile, BoundsAssumption DEF CardState
  <2>3. new.until <= file.until
    BY <2>2
  <2> QED BY <1>1, <2>1, <2>3, Counts, ScanKeepsFile
<1>5. /\ UNCHANGED <<posted, Knows, file, temp, Used, atomic>>
      /\ update'["scan"] = [at |-> "write", old |-> file, new |-> new]
      /\ update'["worker"] = update["worker"] /\ update'["reset"] = update["reset"]
      /\ update'["approval"] = update["approval"]
      /\ update["worker"].at = "none" /\ update["approval"].at = "none"
      /\ Files' /\ FileExact'
      /\ \A n \in Nat : Before(n) => Before(n)'
  BY <1>2, <1>3, <1>4, ReadFileIs DEF Writers, MutexFree, Process, Updating
<1>6. TurnOk' /\ TurnFile'
  BY <1>2, <1>5 DEF Inv, TurnOk, TurnFile
<1>7. Writes'
  BY <1>1, <1>2, <1>5 DEF Inv, Writes, ScanPending, Updating, Writers
<1>8. OneSession'
  BY <1>2, <1>4, <1>5 DEF Inv, OneSession, Updating
<1>9. Requests'
  BY <1>2, <1>5, RequestsCarry
<1> QED BY <1>5, <1>6, <1>7, <1>8, <1>9 DEF Inv

LEMMA ResetKeeps ==
  ASSUME TypeOK, TypeOK', Inv, Reset
  PROVE  Inv'
<1>1. PICK new : new = WithReset(file)
  OBVIOUS
<1>2. ReadFile("reset", new) /\ UNCHANGED <<scan, turn, request, answers>>
      /\ ids < MaxIds
  BY <1>1 DEF Reset, asking
<1>3. new \in CardState
  BY <1>1, <1>2, Counts, NewStates
<1>4. new.until = 0 /\ ~ new.started /\ new.queue = file.queue /\ new.handled = file.handled
  BY <1>1, Counts DEF WithReset, CardState
<1>5. Good(new, posted, Knows) /\ new.until <= file.until
  BY <1>4, Counts DEF Inv, Files, Good, CardState
<1>6. /\ UNCHANGED <<posted, Knows, file, temp, Used, atomic>>
      /\ update'["reset"] = [at |-> "write", old |-> file, new |-> new]
      /\ update'["worker"] = update["worker"] /\ update'["scan"] = update["scan"]
      /\ update'["approval"] = update["approval"]
      /\ Files' /\ FileExact'
      /\ \A n \in Nat : Before(n) => Before(n)'
  BY <1>2, <1>3, <1>5, ReadFileIs DEF Writers
<1>7. TurnOk' /\ TurnFile' /\ OneSession'
  BY <1>2, <1>6 DEF Inv, TurnOk, TurnFile, OneSession, Updating
<1>8. Writes'
  BY <1>2, <1>4, <1>6 DEF Inv, Writes, ResetPending, Updating, Writers
<1>9. Requests'
  BY <1>2, <1>6, RequestsCarry
<1> QED BY <1>6, <1>7, <1>8, <1>9 DEF Inv

LEMMA TurnStartsKeeps ==
  ASSUME TypeOK, TypeOK', Inv, TurnStarts
  PROVE  Inv'
<1>1. PICK s : s = IF file.session = NoId THEN NextId ELSE file.session
  OBVIOUS
<1>2. PICK new : new = [file EXCEPT !.session = s]
  OBVIOUS
<1>3. /\ ReadFile("worker", new) /\ UNCHANGED <<scan, request, answers>>
      /\ turn.at = "idle"
      /\ turn' = [NoTurn EXCEPT !.at = "start"] /\ turn'.at = "start"
      /\ file.session = NoId => ids < MaxIds
  BY <1>1, <1>2 DEF TurnStarts, NoTurn, asking
<1>4. s \in Ids
  BY <1>1, <1>3, BoundsAssumption DEF TypeOK, CardState, NextId, Ids
<1>5. /\ new \in CardState /\ new.session = s
      /\ new.until = file.until /\ new.started = file.started
      /\ new.queue = file.queue /\ new.handled = file.handled
      /\ new = [file EXCEPT !.session = new.session]
  BY <1>2, <1>4, Counts DEF CardState
<1>6. file.session \in {NoId, s}
  BY <1>1
<1>7. Good(new, posted, Knows)
  <2>1. Good(file, posted, Knows)
    BY DEF Inv, Files
  <2>2. file.started => s = file.session
    BY <1>1, <2>1 DEF Good, Ids, NoId
  <2> QED BY <1>4, <1>5, <2>1, <2>2 DEF Good
<1>8. /\ UNCHANGED <<posted, Knows, file, temp, Used, atomic>>
      /\ update'["worker"] = [at |-> "write", old |-> file, new |-> new]
      /\ update'["reset"] = update["reset"] /\ update'["scan"] = update["scan"]
      /\ update'["approval"] = update["approval"]
      /\ update["scan"].at = "none" /\ update["approval"].at = "none"
      /\ Files' /\ FileExact'
  BY <1>3, <1>5, <1>7, ReadFileIs DEF Writers, MutexFree, Process, Updating
<1>9. TurnOk' /\ TurnFile' /\ OneSession'
  BY <1>3 DEF TurnOk, TurnFile, OneSession, InTurn
<1>10. WorkerPending(update'["worker"], turn')
  BY <1>3, <1>4, <1>5, <1>6, <1>8 DEF WorkerPending
<1>11. Writes'
  BY <1>3, <1>8, <1>10 DEF Inv, Writes, Updating, Writers
<1>12. Requests'
  <2>1. ~ Live(request)
    BY <1>3 DEF Inv, Requests
  <2> QED BY <1>3, <1>8, <2>1, RequestsRest
<1> QED BY <1>8, <1>9, <1>11, <1>12 DEF Inv

LEMMA SaveTurnKeeps ==
  ASSUME TypeOK, TypeOK', Inv, SaveTurn
  PROVE  Inv'
<1>1. PICK new : new = AfterTurn(turn, file)
  OBVIOUS
<1>2. WithTurn(file) = AfterTurn(turn, file)
  BY DEF WithTurn, AfterTurn, Rest, NamesSession, Names
<1>3. /\ turn.at = "save" /\ turn.consumed <= Len(file.queue)
      /\ ReadFile("worker", new) /\ UNCHANGED <<scan, turn, request, answers>>
  BY <1>1, <1>2 DEF SaveTurn, asking
<1>4. new \in CardState
  BY <1>1, <1>3, Counts, AfterTurnIs
<1>5. /\ update["worker"].at = "none" /\ update["scan"].at = "none"
      /\ update["approval"].at = "none"
  BY <1>3 DEF ReadFile, MutexFree, Process, Writers, Updating
<1>6. TurnGood(turn, posted, Knows) /\ Good(file, posted, Knows)
  BY <1>3 DEF Inv, TurnOk, InTurn, Files
<1>7. Names(turn, file) \/ ~ file.started
  <2>1. Of(file, turn.first)
    BY <1>3, <1>5 DEF Inv, OneSession, InTurn, Updating
  <2> QED BY <1>6, <2>1 DEF Of, TurnGood, Names
<1>8. Good(new, posted, Knows)
  BY <1>1, <1>3, <1>6, <1>7, Counts, TurnSaves
<1>9. /\ UNCHANGED <<posted, Knows, file, temp, Used, atomic>>
      /\ update'["worker"] = [at |-> "write", old |-> file, new |-> new]
      /\ update'["reset"] = update["reset"] /\ update'["scan"] = update["scan"]
      /\ update'["approval"] = update["approval"]
      /\ Files' /\ FileExact'
  BY <1>3, <1>4, <1>8, ReadFileIs DEF Writers
<1>10. TurnOk' /\ TurnFile'
  BY <1>3, <1>9 DEF Inv, TurnOk, TurnFile
<1>11. OneSession'
  BY <1>9 DEF OneSession, Updating
<1>12. WorkerPending(update'["worker"], turn')
  BY <1>1, <1>3, <1>7, <1>9 DEF WorkerPending
<1>13. Writes'
  BY <1>3, <1>5, <1>9, <1>12 DEF Inv, Writes, Updating, Writers
<1>14. Requests'
  <2>1. ~ Live(request)
    BY <1>3, <1>5 DEF Inv, Requests, AnswerPending, Live
  <2> QED BY <1>3, <1>9, <2>1, RequestsRest
<1> QED BY <1>9, <1>10, <1>11, <1>13, <1>14 DEF Inv

-----------------------------------------------------------------------------
(* An Update renames                                                        *)

\* What an Update writes over the file that it read loses nothing.
LEMMA WritesExact ==
  ASSUME TypeOK, Inv, NEW p \in Writers, Updating(p), atomic, file = update[p].old,
         p = "approval" => ~ request.granted
  PROVE  Exact(update[p].new, Knows) /\ Had(update[p].new, Used)
<1>1. Exact(file, Knows) /\ Had(file, Used) /\ Good(file, posted, Knows)
  BY DEF Inv, FileExact, Files
<1>2. CASE p = "scan"
  <2>1. update["scan"].new = WithMentions(file, scan)
    BY <1>2 DEF Inv, Writes, ScanPending, Updating
  <2> QED BY <1>1, <1>2, <2>1, Counts, ScanKeepsFile
<1>3. CASE p = "reset"
  <2>1. /\ ~ update["reset"].new.started
        /\ update["reset"].new.queue = file.queue
        /\ update["reset"].new.handled = file.handled
    BY <1>3 DEF Inv, Writes, ResetPending, Updating
  <2> QED BY <1>1, <1>3, <2>1 DEF Exact, Had
<1>4. CASE p = "worker" /\ turn.at = "start"
  <2>1. PICK new : new = update["worker"].new
    OBVIOUS
  <2>2. new = [file EXCEPT !.session = new.session] /\ file.session \in {NoId, new.session}
    BY <1>4, <2>1 DEF Inv, Writes, WorkerPending, Updating
  <2>3. /\ new.until = file.until /\ new.started = file.started
        /\ new.queue = file.queue /\ new.handled = file.handled
    BY <2>2, Counts DEF CardState
  <2>4. file.started => new.session = file.session
    BY <1>1, <2>2 DEF Good, Ids, NoId
  <2> QED BY <1>1, <1>4, <2>1, <2>3, <2>4 DEF Exact, Had
<1>5. CASE p = "worker" /\ turn.at = "save"
  <2>1. /\ update["worker"].new = AfterTurn(turn, file)
        /\ turn.consumed <= Len(file.queue)
        /\ Names(turn, file) \/ ~ file.started
    BY <1>5 DEF Inv, Writes, WorkerPending, Updating
  <2>2. TurnGood(turn, posted, Knows) /\ SentMatches(turn, file, Used, Knows)
    BY <1>5 DEF Inv, TurnOk, TurnFile, InTurn, TurnMatches
  <2> QED BY <1>1, <1>5, <2>1, <2>2, Counts, TurnSaves
<1>6. p = "worker" => turn.at \in {"start", "save"}
  BY DEF Inv, Writes, WorkerPending, Updating
<1>7. CASE p = "approval"
  <2>1. update["approval"].new = file
    BY <1>7 DEF Inv, Requests, AnswerPending, Updating
  <2> QED BY <1>1, <1>7, <2>1
<1> QED BY <1>2, <1>3, <1>4, <1>5, <1>6, <1>7 DEF Writers

LEMMA RenameIs ==
  ASSUME TypeOK, TypeOK', Inv, NEW p \in Writers, Renamed(p) \/ RenameFails(p),
         Grows(Knows, Knows')
  PROVE  /\ UNCHANGED <<posted, known, taken>>
         /\ update[p].at = "rename"
         /\ update'[p] = NoUpdate /\ update'[p].at = "none"
         /\ \A q \in Writers \ {p} : update'[q] = update[q]
         /\ temp' = NoFile
         /\ file' = file \/ (temp # NoFile /\ file' = temp)
         /\ atomic' => /\ atomic /\ temp # NoFile /\ file' = temp
                       /\ temp = update[p].new /\ file = update[p].old
         /\ Files'
         /\ \A n \in Nat : Before(n) => Before(n)'
         /\ UNCHANGED answers /\ (p = "approval" => ~ request.granted) =>
              FileExact' /\ UNCHANGED <<Knows, Used>>
<1>1. /\ UNCHANGED <<posted, known, taken>>
      /\ update[p].at = "rename"
      /\ update'[p] = NoUpdate /\ update'[p].at = "none"
      /\ \A q \in Writers \ {p} : update'[q] = update[q]
      /\ temp' = NoFile
      /\ file' = file \/ (temp # NoFile /\ file' = temp)
  BY DEF Renamed, RenameFails, TypeOK, disk, NoUpdate
<1>2. atomic' => /\ atomic /\ temp # NoFile /\ file' = temp
                 /\ temp = update[p].new /\ file = update[p].old
  BY DEF Renamed, RenameFails
<1>3. Files'
  <2>0. PICK n, kn, lk : n = posted /\ kn = Knows /\ lk = Knows'
    OBVIOUS
  <2>1. \A x \in CardState : Good(x, n, kn) => Good(x, n, lk)
    <3>1. n \in Nat /\ n <= n /\ Grows(kn, lk)
      BY <2>0, Counts
    <3> QED BY <3>1, FilesGrow
  <2>2. Good(file', n, lk)
    BY <1>1, <2>0, <2>1, Counts DEF Inv, Files
  <2>3. ASSUME NEW q \in Writers, update'[q].at # "none"
        PROVE  Good(update'[q].new, n, lk)
    <3>1. q # p
      BY <1>1, <2>3
    <3>2. Good(update[q].new, n, kn) /\ update[q].new \in CardState
      BY <1>1, <2>0, <2>3, <3>1, Counts DEF Inv, Files, Updating
    <3> QED BY <1>1, <2>1, <3>1, <3>2
  <2> QED BY <1>1, <2>0, <2>2, <2>3 DEF Files, Updating
<1>4. ASSUME UNCHANGED answers, p = "approval" => ~ request.granted
      PROVE  FileExact' /\ UNCHANGED <<Knows, Used>>
  <2>1. UNCHANGED <<Knows, Used>>
    BY <1>1, <1>4 DEF Knows, Used, Answered
  <2>2. ASSUME atomic' PROVE Exact(file', Knows) /\ Had(file', Used)
    <3>1. Exact(update[p].new, Knows) /\ Had(update[p].new, Used)
      BY <1>1, <1>2, <1>4, <2>2, WritesExact DEF Updating
    <3> QED BY <1>2, <2>2, <3>1
  <2> QED BY <2>1, <2>2 DEF FileExact
<1>5. ASSUME NEW n \in Nat, Before(n) PROVE Before(n)'
  <2>1. ASSUME NEW q \in Writers, update'[q].at # "none" PROVE update'[q].new.until <= n
    <3>1. q # p
      BY <1>1, <2>1
    <3> QED BY <1>1, <1>5, <2>1, <3>1 DEF Before, Updating
  <2> QED BY <1>1, <1>5, <2>1 DEF Before, Updating
<1> QED BY <1>1, <1>2, <1>3, <1>4, <1>5

\* An Update that uses no answer.
LEMMA SameKnowledge ==
  ASSUME UNCHANGED <<known, answers>>
  PROVE  Grows(Knows, Knows')
BY DEF Grows, Knows

LEMMA ScanEndsKeeps ==
  ASSUME TypeOK, TypeOK', Inv, ScanEnds
  PROVE  Inv'
<1>1. /\ UNCHANGED <<posted, Knows, Used>>
      /\ update["scan"].at = "rename" /\ update'["scan"].at = "none"
      /\ update'["worker"] = update["worker"] /\ update'["reset"] = update["reset"]
      /\ temp' = NoFile
      /\ file' = file \/ (temp # NoFile /\ file' = temp)
      /\ atomic' => /\ atomic /\ file' = update["scan"].new /\ file = update["scan"].old
      /\ update'["approval"] = update["approval"]
      /\ Files' /\ FileExact'
      /\ \A n \in Nat : Before(n) => Before(n)'
  <2>1. Grows(Knows, Knows') /\ UNCHANGED answers
    BY SameKnowledge DEF ScanEnds, Renamed, RenameFails, asking
  <2> QED BY <2>1, RenameIs DEF ScanEnds, Writers
<1>2. scan' = {} /\ UNCHANGED <<turn, request>>
  BY DEF ScanEnds, asking
<1>3. TurnOk'
  BY <1>1, <1>2 DEF Inv, TurnOk
<1>4. TurnFile'
  <2> SUFFICES ASSUME InTurn(turn), atomic' PROVE TurnMatches(turn, file', Used, Knows)
    BY <1>1, <1>2 DEF TurnFile
  <2>1. TurnMatches(turn, file, Used, Knows)
    BY <1>1 DEF Inv, TurnFile
  <2>2. file' = WithMentions(file, scan)
    BY <1>1 DEF Inv, Writes, ScanPending
  <2>3. TurnMatches(turn, WithMentions(file, scan), Used, Knows)
    BY <2>1, Counts, ScanKeepsTurn
  <2> QED BY <2>2, <2>3
<1>5. Writes'
  BY <1>1, <1>2 DEF Inv, Writes, ScanPending, Updating, Writers
<1>6. OneSession'
  BY <1>1, <1>2 DEF Inv, OneSession, Updating
<1>7. Requests'
  BY <1>1, <1>2, RequestsCarry
<1> QED BY <1>1, <1>3, <1>4, <1>5, <1>6, <1>7 DEF Inv

LEMMA ResetEndsKeeps ==
  ASSUME TypeOK, TypeOK', Inv, ResetEnds
  PROVE  Inv'
<1>1. /\ UNCHANGED <<posted, Knows, Used>>
      /\ update["reset"].at = "rename" /\ update'["reset"].at = "none"
      /\ update'["worker"] = update["worker"] /\ update'["scan"] = update["scan"]
      /\ temp' = NoFile
      /\ file' = file \/ (temp # NoFile /\ file' = temp)
      /\ atomic' => /\ atomic /\ file' = update["reset"].new /\ file = update["reset"].old
      /\ update'["approval"] = update["approval"]
      /\ Files' /\ FileExact'
      /\ \A n \in Nat : Before(n) => Before(n)'
  <2>1. Grows(Knows, Knows') /\ UNCHANGED answers
    BY SameKnowledge DEF ResetEnds, Renamed, RenameFails, asking
  <2> QED BY <2>1, RenameIs DEF ResetEnds, Writers
<1>2. UNCHANGED <<scan, turn, request>>
  BY DEF ResetEnds, asking
<1>3. TurnOk'
  BY <1>1, <1>2 DEF Inv, TurnOk
<1>4. TurnFile'
  <2> SUFFICES ASSUME InTurn(turn), atomic' PROVE TurnMatches(turn, file', Used, Knows)
    BY <1>1, <1>2 DEF TurnFile
  <2>1. TurnMatches(turn, file, Used, Knows)
    BY <1>1 DEF Inv, TurnFile
  <2>2. file'.queue = file.queue /\ file'.handled = file.handled
    BY <1>1 DEF Inv, Writes, ResetPending
  <2>3. PICK f, g, tk, kn : f = file /\ g = file' /\ tk = Used /\ kn = Knows
    OBVIOUS
  <2>4. TurnMatches(turn, g, tk, kn)
    BY <2>1, <2>2, <2>3, ResetKeepsTurn
  <2> QED BY <2>3, <2>4
<1>5. Writes'
  BY <1>1, <1>2 DEF Inv, Writes, ResetPending, Updating, Writers
<1>6. OneSession'
  BY <1>1, <1>2 DEF Inv, OneSession, Updating
<1>7. Requests'
  BY <1>1, <1>2, RequestsCarry
<1> QED BY <1>1, <1>3, <1>4, <1>5, <1>6, <1>7 DEF Inv

LEMMA TurnSavedKeeps ==
  ASSUME TypeOK, TypeOK', Inv, TurnSaved
  PROVE  Inv'
<1>1. /\ UNCHANGED <<posted, Knows, Used>>
      /\ update["worker"].at = "rename" /\ update'["worker"].at = "none"
      /\ update'["reset"] = update["reset"] /\ update'["scan"] = update["scan"]
      /\ update'["approval"] = update["approval"]
      /\ Files' /\ FileExact'
  <2>1. Grows(Knows, Knows') /\ UNCHANGED answers
    BY SameKnowledge DEF TurnSaved, Renamed, RenameFails, asking
  <2> QED BY <2>1, RenameIs DEF TurnSaved, Writers
<1>2. UNCHANGED <<scan, request>> /\ turn'.at = "idle"
  BY DEF TurnSaved, NoTurn, asking
<1>3. TurnOk' /\ TurnFile' /\ OneSession'
  BY <1>2 DEF TurnOk, TurnFile, OneSession, InTurn
<1>4. Writes'
  BY <1>1, <1>2 DEF Inv, Writes, WorkerPending, Updating, Writers
<1>5. Requests'
  <2>1. ~ Live(request)
    BY <1>1 DEF Inv, Writes, WorkerPending, Requests, AnswerPending, Live, Updating, Writers, TurnSaved
  <2> QED BY <1>1, <1>2, <2>1, RequestsRest
<1> QED BY <1>1, <1>3, <1>4, <1>5 DEF Inv

LEMMA TurnStartedKeeps ==
  ASSUME TypeOK, TypeOK', Inv, TurnStarted
  PROVE  Inv'
<1>1. /\ UNCHANGED <<posted, Knows, Used>>
      /\ update["worker"].at = "rename" /\ update'["worker"].at = "none"
      /\ update'["reset"] = update["reset"] /\ update'["scan"] = update["scan"]
      /\ update'["approval"] = update["approval"]
      /\ update["scan"].at = "none" /\ update["approval"].at = "none"
      /\ temp' = NoFile
      /\ atomic' => /\ atomic /\ file' = update["worker"].new
                    /\ file = update["worker"].old
      /\ Files' /\ FileExact'
  <2>1. update["worker"].at = "rename"
    BY DEF TurnStarted, Renamed, RenameFails
  <2>2. update["scan"].at = "none" /\ update["approval"].at = "none"
    BY <2>1 DEF Inv, Writes, Updating, Writers
  <2>3. Grows(Knows, Knows') /\ UNCHANGED answers
    BY SameKnowledge DEF TurnStarted, Renamed, RenameFails, asking
  <2> QED BY <2>1, <2>2, <2>3, RenameIs DEF TurnStarted, Writers
<1>2. PICK new : new = update["worker"].new
  OBVIOUS
<1>3. turn = [NoTurn EXCEPT !.at = "start"]
  BY <1>1 DEF Inv, Writes, WorkerPending, TurnStarted
<1>4. /\ turn.at = "start" /\ ~ turn.up /\ ~ turn.renewed /\ turn.items = <<>>
      /\ turn.until = 0 /\ turn.seen = 0
  BY <1>3 DEF NoTurn
<1>5. /\ UNCHANGED <<scan, request>> /\ turn'.at \in {"idle", "load"}
      /\ turn'.at = "load" =>
           /\ temp # NoFile /\ file' = temp
           /\ turn' = [turn EXCEPT !.at = "load", !.state = new, !.first = new.session]
  <2>1. NoTurn.at = "idle"
    BY DEF NoTurn
  <2>2. PICK r : r = [turn EXCEPT !.at = "load", !.state = new, !.first = new.session]
    OBVIOUS
  <2>3. r.at = "load"
    BY <2>2, Counts DEF TurnRecord
  <2>4. \/ turn' = NoTurn
        \/ Renamed("worker") /\ turn' = r
    BY <1>2, <2>2 DEF TurnStarted
  <2>5. UNCHANGED <<scan, request>>
    BY DEF TurnStarted, asking
  <2> QED BY <2>1, <2>2, <2>3, <2>4, <2>5 DEF Renamed
<1>6. turn'.at = "load" =>
        /\ turn'.state = new /\ turn'.first = new.session
        /\ ~ turn'.up /\ ~ turn'.renewed /\ turn'.items = <<>>
        /\ turn'.until = 0 /\ turn'.seen = 0
  BY <1>4, <1>5, Counts DEF TurnRecord
<1>7. new \in CardState /\ Good(new, posted, Knows) /\ new.session \in Ids
  BY <1>1, <1>2, <1>4, Counts DEF Inv, Files, Writes, WorkerPending, Updating, Writers
<1>8. Writes'
  BY <1>1, <1>5 DEF Inv, Writes, WorkerPending, Updating, Writers
<1>9. OneSession'
  <2> SUFFICES ASSUME turn'.at = "load" PROVE Of(file', new.session)
    BY <1>1, <1>5, <1>6 DEF OneSession, InTurn, Updating
  <2>1. file' = new \/ ~ file'.started
    BY <1>1, <1>2, <1>5 DEF Inv, Writes
  <2> QED BY <2>1 DEF Of
<1>10. TurnOk'
  <2> SUFFICES ASSUME turn'.at = "load" PROVE TurnGood(turn', posted, Knows)
    BY <1>1, <1>5 DEF TurnOk, InTurn
  <2>1. 0 <= posted
    BY Counts
  <2>2. PICK t : t = turn'
    OBVIOUS
  <2>3. /\ t.at = "load" /\ t.state = new /\ t.first = new.session
        /\ ~ t.up /\ ~ t.renewed /\ t.items = <<>> /\ t.until = 0 /\ t.seen = 0
    BY <1>6, <2>2
  <2>4. TurnGood(t, posted, Knows)
    BY <1>7, <2>1, <2>3 DEF TurnGood
  <2> QED BY <2>2, <2>4
<1>11. TurnFile'
  <2> SUFFICES ASSUME turn'.at = "load", atomic'
               PROVE  TurnMatches(turn', file', Used, Knows)
    BY <1>1, <1>5 DEF TurnFile, InTurn
  <2>1. PICK t, f : t = turn' /\ f = file'
    OBVIOUS
  <2>2. t.at = "load" /\ t.state = f /\ t.items = <<>> /\ f = new
    BY <1>1, <1>2, <1>6, <2>1
  <2>3. Exact(f, Knows)
    BY <1>1, <2>1 DEF FileExact
  <2>4. PICK a \in Nat : a = Len(f.queue)
    BY <1>7, <2>2 DEF CardState
  <2>5. StartMatches(t, f, Knows)
    BY <2>2, <2>3, <2>4 DEF StartMatches
  <2>6. TurnMatches(t, f, Used, Knows)
    BY <2>2, <2>5 DEF TurnMatches
  <2> QED BY <2>1, <2>6
<1>12. Requests'
  <2>1. ~ Live(request)
    BY <1>1, <1>4 DEF Inv, Requests
  <2> QED BY <1>1, <1>5, <2>1, RequestsRest
<1> QED BY <1>1, <1>8, <1>9, <1>10, <1>11, <1>12 DEF Inv

LEMMA DaemonGoneKeeps ==
  ASSUME TypeOK, TypeOK', Inv, DaemonGone
  PROVE  Inv'
<1>1. /\ scan' = {} /\ turn'.at = "idle" /\ request' = NoRequest
      /\ update'["approval"] = NoUpdate
      /\ update'["scan"] = NoUpdate /\ update'["worker"] = NoUpdate
      /\ update'["reset"] = update["reset"] /\ NoUpdate.at = "none"
      /\ UNCHANGED <<posted, Knows, file, temp, Used, atomic>>
  BY DEF DaemonGone, NoTurn, NoUpdate, TypeOK, Writers, disk, Knows, Used, Answered
<1>2. Files'
  <2>1. \A p \in Writers : Updating(p)' => Good(update'[p].new, posted, Knows)
    BY <1>1 DEF Inv, Files, Updating, Writers
  <2> QED BY <1>1, <2>1 DEF Inv, Files
<1>3. FileExact'
  BY <1>1 DEF Inv, FileExact
<1>4. Writes'
  BY <1>1 DEF Inv, Writes, ScanPending, WorkerPending, Updating, Writers
<1>5. TurnOk' /\ TurnFile' /\ OneSession'
  BY <1>1 DEF TurnOk, TurnFile, OneSession, InTurn
<1>6. Requests'
  BY <1>1 DEF Requests, AnswerPending, Live, NoRequest
<1> QED BY <1>2, <1>3, <1>4, <1>5, <1>6 DEF Inv

-----------------------------------------------------------------------------
(* Permission requests                                                      *)

\* After its end a request has a turn only when the next one has.
LEMMA LeavesKeeps ==
  ASSUME TypeOK, Leaves, UNCHANGED turn, update'["approval"].at = "none"
  PROVE  Requests'
<1>1. \/ request' = NoRequest
      \/ TurnRuns /\ request' = NewRequest
  BY DEF Leaves
<1>2. /\ NoRequest.at = "none" /\ ~ NoRequest.alive
      /\ NewRequest.at = "gate" /\ NewRequest.session = turn.state.session
  BY DEF NoRequest, NewRequest
<1>3. ~ Live(NoRequest)
  BY <1>2 DEF Live
<1>4. CASE request' = NoRequest
  BY <1>2, <1>3, <1>4 DEF Requests, AnswerPending
<1>5. CASE TurnRuns /\ request' = NewRequest
  BY <1>2, <1>5 DEF Requests, AnswerPending, Live, TurnRuns
<1> QED BY <1>1, <1>4, <1>5

\* The steps of a request that do not touch the disk.
LEMMA AskingKeeps ==
  ASSUME TypeOK, TypeOK', Inv, Ask \/ PostQuestion \/ Poll \/ RequestEnds
  PROVE  Inv'
<1>1. UNCHANGED <<posted, known, answers, file, temp, update, scan, turn, taken, atomic>>
  BY DEF Ask, PostQuestion, Poll, RequestEnds, disk
<1>2. UNCHANGED <<Knows, Used>>
  BY <1>1 DEF Knows, Used, Answered
<1>3. Files' /\ FileExact' /\ Writes' /\ OneSession' /\ TurnOk' /\ TurnFile'
  BY <1>1, <1>2 DEF Inv, Files, FileExact, Writes, OneSession, TurnOk, TurnFile, Updating
<1>4. ASSUME NEW n, Before(n) PROVE Before(n)'
  BY <1>1, <1>4 DEF Before, Updating
<1>5. CASE Ask \/ RequestEnds
  <2>1. Leaves /\ update["approval"].at = "none"
    BY <1>5 DEF Ask, RequestEnds, Leaves, Pending, Inv, Requests, AnswerPending
  <2> QED BY <1>1, <1>3, <2>1, LeavesKeeps DEF Inv
<1>6. CASE PostQuestion
  <2>1. /\ request.at = "gate" /\ request'.at = "wait" /\ request'.question = posted
        /\ request'.session = request.session /\ request.alive /\ request'.alive
    BY <1>6, Counts DEF PostQuestion, RequestRecord
  <2>2. Before(posted)
    BY DEF Inv, Files, Good, Before
  <2>3. Requests'
    BY <1>1, <1>4, <2>1, <2>2 DEF Inv, Requests, AnswerPending, Live
  <2> QED BY <1>3, <2>3 DEF Inv
<1>7. CASE Poll
  <2>1. PICK k \in Answers : /\ request.question < k /\ k <= posted
                             /\ request' = [request EXCEPT !.at = "found", !.answer = k]
    BY <1>7 DEF Poll
  <2>2. /\ request.at = "wait" /\ request'.at = "found" /\ request'.answer = k
        /\ request'.question = request.question
        /\ request'.session = request.session /\ request.alive /\ request'.alive
    BY <1>7, <2>1, Counts DEF Poll, RequestRecord
  <2>3. Requests'
    BY <1>1, <1>4, <2>1, <2>2 DEF Inv, Requests, AnswerPending, Live
  <2> QED BY <1>3, <2>3 DEF Inv
<1> QED BY <1>5, <1>6, <1>7

LEMMA AnswerUpdatesKeeps ==
  ASSUME TypeOK, TypeOK', Inv, AnswerUpdates
  PROVE  Inv'
<1>1. PICK granted \in BOOLEAN :
        /\ granted => request.alive
        /\ ReadFile("approval", WithAnswer(file, granted))
        /\ request' = [request EXCEPT !.at = "update", !.granted = granted]
  BY Counts DEF AnswerUpdates, RequestRecord
<1>2. PICK new : new = WithAnswer(file, granted)
  OBVIOUS
<1>3. /\ request.at = "found" /\ ReadFile("approval", new)
      /\ UNCHANGED <<scan, turn, answers>>
  BY <1>1, <1>2 DEF AnswerUpdates
<1>4. /\ request'.at = "update" /\ (request'.granted <=> granted)
      /\ request'.question = request.question /\ request'.answer = request.answer
      /\ request'.session = request.session /\ (request'.alive <=> request.alive)
  BY <1>1, Counts DEF RequestRecord
<1>5. /\ new \in CardState
      /\ new = IF granted THEN [file EXCEPT !.handled = @ \cup {request.answer}] ELSE file
      /\ new.until = file.until /\ new.started = file.started
      /\ new.session = file.session /\ new.queue = file.queue
      /\ new.handled \subseteq file.handled \cup {request.answer}
      /\ file.handled \subseteq new.handled
  <2>1. new \in CardState
    BY <1>2, <1>3, NewStates, Counts
  <2>2. new = IF granted THEN [file EXCEPT !.handled = @ \cup {request.answer}] ELSE file
    BY <1>2 DEF WithAnswer
  <2> QED BY <2>1, <2>2, Counts DEF CardState
<1>6. request.question < request.answer /\ request.answer <= posted
      /\ request.answer \in 1..posted
  <2>1. request.question < request.answer /\ request.answer <= posted
    BY <1>3 DEF Inv, Requests
  <2>2. request.answer \in Nat /\ request.answer # 0
    <3>1. request.answer \in Answers
      BY <1>3 DEF TypeOK, RequestRecord
    <3>2. request.answer \in 1..MaxComments
      BY <3>1, AnswersAssumption
    <3> QED BY <3>2, BoundsAssumption
  <2> QED BY <2>1, <2>2, Counts
<1>7. Good(new, posted, Knows) /\ new.until <= file.until
  <2>1. Good(file, posted, Knows)
    BY DEF Inv, Files
  <2>2. file.until \in Nat
    BY Counts, BoundsAssumption DEF CardState
  <2> QED BY <1>5, <1>6, <2>1, <2>2 DEF Good
<1>8. /\ UNCHANGED <<posted, Knows, file, temp, Used, atomic>>
      /\ update'["approval"] = [at |-> "write", old |-> file, new |-> new]
      /\ update'["worker"] = update["worker"] /\ update'["reset"] = update["reset"]
      /\ update'["scan"] = update["scan"]
      /\ update["worker"].at = "none" /\ update["scan"].at = "none"
      /\ Files' /\ FileExact'
      /\ \A n \in Nat : Before(n) => Before(n)'
  BY <1>3, <1>5, <1>7, ReadFileIs DEF Writers, MutexFree, Process, Updating
<1>9. TurnOk' /\ TurnFile'
  BY <1>3, <1>8 DEF Inv, TurnOk, TurnFile
<1>10. Writes'
  BY <1>3, <1>8 DEF Inv, Writes, Updating, Writers
<1>11. OneSession'
  BY <1>3, <1>5, <1>8 DEF Inv, OneSession, Of, Updating
<1>12. Requests'
  <2>1. Live(request)' => Live(request)
    BY <1>1, <1>4 DEF Live
  <2>2. Before(request.question) => Before(request.question)'
    BY <1>4, <1>8, Counts
  <2>3. AnswerPending(update'["approval"], request')
    BY <1>4, <1>5, <1>8 DEF AnswerPending
  <2> QED BY <1>3, <1>4, <1>6, <1>8, <2>1, <2>2, <2>3 DEF Inv, Requests
<1> QED BY <1>8, <1>9, <1>10, <1>11, <1>12 DEF Inv

\* What each end of the Update of a request leaves.
LEMMA AnswerRenamed ==
  ASSUME TypeOK, TypeOK', Inv, Renamed("approval") \/ RenameFails("approval"),
         UNCHANGED <<scan, turn>>, Grows(Knows, Knows')
  PROVE  /\ Files' /\ Writes' /\ OneSession' /\ TurnOk'
         /\ UNCHANGED posted /\ update'["approval"].at = "none"
         /\ request.at = "update"
         /\ \A n \in Nat : Before(n) => Before(n)'
         /\ atomic' => /\ atomic /\ file' = update["approval"].new
                       /\ file = update["approval"].old
<1>1. /\ UNCHANGED posted
      /\ update["approval"].at = "rename" /\ update'["approval"].at = "none"
      /\ update'["worker"] = update["worker"] /\ update'["reset"] = update["reset"]
      /\ update'["scan"] = update["scan"]
      /\ temp' = NoFile
      /\ file' = file \/ (temp # NoFile /\ file' = temp)
      /\ atomic' => /\ atomic /\ file' = update["approval"].new
                    /\ file = update["approval"].old
      /\ Files'
      /\ \A n \in Nat : Before(n) => Before(n)'
  BY RenameIs DEF Writers
<1>2. TurnOk'
  <2>1. PICK n, kn, lk : n = posted /\ kn = Knows /\ lk = Knows'
    OBVIOUS
  <2>2. n \in Nat /\ n <= n /\ Grows(kn, lk) /\ turn \in TurnRecord
    BY <2>1, Counts
  <2>3. InTurn(turn) => TurnGood(turn, n, lk)
    BY <2>1, <2>2, TurnGrows DEF Inv, TurnOk
  <2> QED BY <1>1, <2>1, <2>3 DEF TurnOk
<1>3. Writes'
  BY <1>1 DEF Inv, Writes, Updating, Writers
<1>4. OneSession'
  BY <1>1 DEF Inv, OneSession, Updating
<1>5. request.at = "update"
  BY <1>1 DEF Inv, Requests, AnswerPending
<1> QED BY <1>1, <1>2, <1>3, <1>4, <1>5

\* An Update that does not use the answer writes what it read.
LEMMA NotGrantedKeeps ==
  ASSUME TypeOK, TypeOK', Inv, KeepWaiting \/ AnswerFails
  PROVE  Inv'
<1>1. /\ Renamed("approval") \/ RenameFails("approval")
      /\ UNCHANGED <<scan, turn, answers>>
      /\ atomic' => ~ request.granted
      /\ KeepWaiting => ~ request.granted
  BY DEF KeepWaiting, AnswerFails, RenameFails
<1>2. UNCHANGED <<Knows, Used>> /\ Grows(Knows, Knows')
  <2>1. UNCHANGED <<known, taken>>
    BY <1>1 DEF Renamed, RenameFails
  <2> QED BY <1>1, <2>1, SameKnowledge DEF Knows, Used, Answered
<1>3. /\ Files' /\ Writes' /\ OneSession' /\ TurnOk'
      /\ UNCHANGED posted /\ update'["approval"].at = "none"
      /\ request.at = "update"
      /\ \A n \in Nat : Before(n) => Before(n)'
      /\ atomic' => /\ atomic /\ file' = update["approval"].new
                    /\ file = update["approval"].old
  BY <1>1, <1>2, AnswerRenamed
<1>4. atomic' => atomic /\ file' = file
  BY <1>1, <1>3 DEF Inv, Requests, AnswerPending
<1>5. FileExact' /\ TurnFile'
  BY <1>1, <1>2, <1>4 DEF Inv, FileExact, TurnFile
<1>6. Requests'
  <2>1. CASE KeepWaiting
    <3>1. /\ request'.at = "wait" /\ request'.question = request.question
          /\ request'.session = request.session /\ (request'.alive <=> request.alive)
          /\ ~ request.granted
      BY <2>1, Counts DEF KeepWaiting, RequestRecord
    <3>2. Before(request.question) => Before(request.question)'
      BY <1>3, <3>1, Counts
    <3> QED BY <1>1, <1>3, <3>1, <3>2 DEF Inv, Requests, AnswerPending, Live
  <2>2. CASE AnswerFails
    BY <1>1, <1>3, <2>2, LeavesKeeps DEF AnswerFails
  <2> QED BY <2>1, <2>2
<1> QED BY <1>3, <1>5, <1>6 DEF Inv

\* What a running turn knows of the file stays true when a comment that answered
\* it is handled.
LEMMA AnswerKeepsTurn ==
  ASSUME NEW f \in CardState, NEW c, NEW g, g = [f EXCEPT !.handled = @ \cup {c}],
         NEW t \in TurnRecord, t.up, t.at \in {"claude", "save"}, t.state.session \in Ids,
         NEW tk, NEW mk, tk \subseteq mk, NEW kn, NEW lk, Grows(kn, lk),
         c \in lk[t.state.session], TurnMatches(t, f, tk, kn)
  PROVE  TurnMatches(t, g, mk, lk)
<1>1. g.queue = f.queue /\ g.handled = f.handled \cup {c}
  BY DEF CardState
<1>2. \A k : Sent(t, kn, k) => Sent(t, lk, k)
  BY SentGrows
<1>3. Sent(t, lk, c)
  BY DEF Sent
<1>4. SentMatches(t, f, tk, kn) => SentMatches(t, g, mk, lk)
  BY <1>1, <1>2, <1>3 DEF SentMatches
<1>5. ItemsMatch(t, f, kn) => ItemsMatch(t, g, lk)
  BY <1>1 DEF ItemsMatch, Grows
<1> QED BY <1>4, <1>5 DEF TurnMatches

LEMMA AnswerCountsKeeps ==
  ASSUME TypeOK, TypeOK', Inv, AnswerCounts
  PROVE  Inv'
<1>1. /\ request.at = "update" /\ request.granted /\ Renamed("approval")
      /\ Leaves /\ UNCHANGED <<scan, turn>>
  BY DEF AnswerCounts
<1>2. PICK c : c = request.answer
  OBVIOUS
<1>3. UNCHANGED <<known, taken>>
  BY <1>1 DEF Renamed
<1>4. /\ turn.at \in {"claude", "save"} /\ turn.up
      /\ request.session = turn.state.session /\ Before(request.question)
      /\ request.question < c /\ c <= posted
  BY <1>1, <1>2 DEF Inv, Requests, Live
<1>5. turn.state.session \in Ids
  BY <1>4 DEF Inv, TurnOk, InTurn, TurnGood
<1>6. answers' = [answers EXCEPT ![turn.state.session] = @ \cup {c}]
  BY <1>1, <1>2, <1>4 DEF AnswerCounts
<1>7. /\ Grows(Knows, Knows') /\ c \in Knows'[turn.state.session]
      /\ Used \subseteq Used' /\ c \in Used'
  <2>1. \A i \in Ids : answers[i] \subseteq answers'[i]
    BY <1>6 DEF TypeOK
  <2>2. c \in answers'[turn.state.session]
    BY <1>5, <1>6 DEF TypeOK
  <2>3. Answered \subseteq Answered' /\ c \in Answered'
    BY <1>5, <2>1, <2>2 DEF Answered
  <2> QED BY <1>3, <1>5, <2>1, <2>2, <2>3 DEF Grows, Knows, Used
<1>8. /\ Files' /\ Writes' /\ OneSession' /\ TurnOk'
      /\ UNCHANGED posted /\ update'["approval"].at = "none"
      /\ atomic' => /\ atomic /\ file' = update["approval"].new
                    /\ file = update["approval"].old
  BY <1>1, <1>7, AnswerRenamed
<1>9. Requests'
  BY <1>1, <1>8, LeavesKeeps
<1>10. ASSUME atomic'
       PROVE  /\ Exact(file', Knows') /\ Had(file', Used')
              /\ TurnMatches(turn, file', Used', Knows')
  <2>1. PICK f, g, kn, lk, tk, mk :
          /\ f = file /\ g = file' /\ kn = Knows /\ lk = Knows' /\ tk = Used /\ mk = Used'
    OBVIOUS
  <2>2. f \in CardState /\ g = [f EXCEPT !.handled = @ \cup {c}]
    BY <1>1, <1>2, <1>8, <1>10, <2>1, Counts DEF Inv, Requests, AnswerPending
  <2>3. /\ g.queue = f.queue /\ g.handled = f.handled \cup {c}
        /\ g.until = f.until /\ g.started = f.started /\ g.session = f.session
    BY <2>2 DEF CardState
  <2>4. /\ Good(f, posted, kn) /\ Exact(f, kn) /\ Had(f, tk)
        /\ TurnMatches(turn, f, tk, kn)
    BY <1>4, <1>8, <1>10, <2>1 DEF Inv, Files, FileExact, TurnFile, InTurn
  <2>5. ASSUME NEW k \in 1..g.until PROVE k # c
    <3>1. f.until \in Nat /\ f.until <= request.question
      BY <1>4, <2>1, Counts, BoundsAssumption DEF Before, CardState
    <3> QED BY <1>4, <2>3, <2>5, <3>1, Counts
  <2>6. Exact(g, lk)
    <3>1. g.started => g.session \in Ids
      BY <2>3, <2>4 DEF Good
    <3>2. Grows(kn, lk)
      BY <1>7, <2>1
    <3> QED BY <2>3, <2>4, <2>5, <3>1, <3>2 DEF Exact, Grows
  <2>7. Had(g, mk)
    BY <1>7, <2>1, <2>3, <2>4 DEF Had
  <2>8. TurnMatches(turn, g, mk, lk)
    <3>1. tk \subseteq mk /\ Grows(kn, lk) /\ c \in lk[turn.state.session]
      BY <1>7, <2>1
    <3>2. turn \in TurnRecord /\ turn.up /\ turn.at \in {"claude", "save"}
      BY <1>4 DEF TypeOK
    <3>3. /\ turn.state.session \in Ids /\ TurnMatches(turn, f, tk, kn)
          /\ f \in CardState /\ g = [f EXCEPT !.handled = @ \cup {c}]
      BY <1>5, <2>2, <2>4
    <3> QED BY <3>1, <3>2, <3>3, AnswerKeepsTurn
  <2> QED BY <2>1, <2>6, <2>7, <2>8
<1>11. FileExact' /\ TurnFile'
  BY <1>1, <1>10 DEF FileExact, TurnFile
<1> QED BY <1>8, <1>9, <1>11 DEF Inv

LEMMA InitInv ==
  ASSUME Init
  PROVE  Inv
<1>1. /\ posted = 0 /\ file = NewCard /\ temp = NoFile /\ scan = {} /\ Used = {}
      /\ \A p \in Writers : update[p].at = "none"
      /\ turn.at = "idle" /\ request = NoRequest
  BY DEF Init, NoUpdate, NoTurn, Used, Answered
<1>2. /\ NewCard.until = 0 /\ NewCard.handled = {} /\ NewCard.queue = <<>>
      /\ ~ NewCard.started /\ ItemsOf(<<>>) = {}
  BY DEF NewCard, ItemsOf
<1>3. Files /\ FileExact
  BY <1>1, <1>2 DEF Files, FileExact, Good, Exact, Had, Updating
<1>4. Writes
  BY <1>1 DEF Writes, ScanPending, ResetPending, WorkerPending, Updating, Writers
<1>5. OneSession /\ TurnOk /\ TurnFile
  BY <1>1 DEF OneSession, TurnOk, TurnFile, InTurn
<1>6. Requests
  BY <1>1 DEF Requests, AnswerPending, Live, NoRequest, Writers
<1> QED BY <1>3, <1>4, <1>5, <1>6 DEF Inv

-----------------------------------------------------------------------------
(* The theorems                                                             *)

LEMMA Invariance == Spec => []Inv
<1>1. TypeOK /\ TypeOK' /\ Inv /\ [Next]_vars => Inv'
  <2> SUFFICES ASSUME TypeOK, TypeOK', Inv, [Next]_vars PROVE Inv'
    OBVIOUS
  <2>1. CASE UNCHANGED vars
    <3>1. UNCHANGED <<posted, Knows, file, temp, update, scan, turn, Used, atomic, request>>
      BY <2>1 DEF vars, disk, asking, Knows, Used, Answered
    <3> QED BY <3>1 DEF Inv, Files, FileExact, Writes, OneSession, TurnOk, TurnFile,
                        Requests, Before, Updating
  <2>2. CASE Panic \/ Crash
    BY <2>2, DaemonGoneKeeps DEF Panic, Crash
  <2>3. CASE Next
    BY <2>2, <2>3, PostKeeps, WriteTempKeeps, ScanReadsKeeps, ScanUpdatesKeeps,
       ScanEndsKeeps, ResetKeeps, ResetEndsKeeps, TurnStartsKeeps, TurnStartedKeeps,
       PromptKeeps, TurnNotStartedKeeps, ClaudeStartsKeeps, RenewKeeps,
       CheckReadsKeeps, CheckGivesKeeps, ClaudeEndsKeeps, SaveTurnKeeps,
       TurnSavedKeeps, AskingKeeps, AnswerUpdatesKeeps, NotGrantedKeeps,
       AnswerCountsKeeps DEF Next
  <2> QED BY <2>1, <2>3
<1> QED BY <1>1, InitInv, Types, PTL DEF Spec

\* The session that the file of a card names as started knows each comment up to
\* the time that the next turn starts from (newActivity, buildPrompt): it had the
\* comment in a document, or the comment answered a permission request of it.  The
\* exceptions are mentions that a turn, a scan or a request still takes; only a
\* mention can be lost, and only when the Update of one process overwrote that of
\* another.
THEOREM NextTurnMissesNothing == Spec => []SessionKnowsItsCard
<1>1. Inv => SessionKnowsItsCard
  <2> SUFFICES ASSUME Inv, file.started, NEW k \in 1..file.until,
                      k \notin known[file.session] \cup answers[file.session]
               PROVE  k \in Mentions /\ (k \notin file.handled
                                          \/ k \in ItemsOf(file.queue) \/ ~ atomic)
    BY DEF SessionKnowsItsCard, Covered
  <2>3. file.session \in Ids
    BY DEF Inv, Files, Good
  <2>4. k \notin Knows[file.session]
    BY <2>3 DEF Knows
  <2>1. k \in Mentions
    BY <2>4 DEF Inv, Files, Good
  <2>2. atomic => k \notin file.handled \/ k \in ItemsOf(file.queue)
    BY <2>4 DEF Inv, FileExact, Exact
  <2> QED BY <2>1, <2>2
<1> QED BY <1>1, Invariance, PTL

\* A comment that the file has as handled is in its queue, a turn had it as a
\* request, or it answered a permission request, as long as each Update replaced
\* the file that it had read: neither a crash nor a failed turn, check or request
\* drops one (checkCard, newActivity, requestApproval, runTurn).
THEOREM NoMentionForgotten == Spec => []HandledIsTaken
<1>1. Inv => HandledIsTaken
  BY DEF Inv, FileExact, Had, HandledIsTaken, Taken, Used
<1> QED BY <1>1, Invariance, PTL
-----------------------------------------------------------------------------
(* Why a mention can be lost: only the two processes disturb each other.    *)

\* The reset command and the daemon are never in an Update at the same time:
\* what a lock of the file would give, beside the mutex of the store.
Apart == ~ (Updating("reset") /\ \E p \in Writers \ {"reset"} : Updating(p))

\* The slice expression of the last Update is within the queue.
QueueHasTurn == turn.at = "save" => turn.consumed <= Len(file.queue)

\* The file is as the Update read it, and the temporary file is its own.
Undisturbed ==
  /\ atomic
  /\ \A p \in Writers : Updating(p) =>
       /\ update[p].old = file
       /\ update[p].at = "rename" => temp = update[p].new

LEMMA NoFileIsNoState == NoFile \notin CardState
<1> SUFFICES ASSUME NoFile \in CardState PROVE FALSE
  OBVIOUS
<1>1. DOMAIN NoFile = {"missing"}
  BY DEF NoFile
<1>2. DOMAIN NoFile = {"session", "started", "until", "handled", "queue"}
  BY DEF CardState
<1>3. "session" \in DOMAIN NoFile
  BY <1>2
<1> QED BY <1>1, <1>3

\* The step of an Update ends or moves that Update, and there is no other.
LEMMA UndisturbedStep ==
  ASSUME TypeOK, Inv, Apart, Apart', Undisturbed, [Next]_vars
  PROVE  Undisturbed'
<1>1. \A p, q \in Writers : Updating(p) /\ Updating(q) => p = q
  BY DEF Apart, Inv, Writes, Writers
<1>2. CASE UNCHANGED <<file, temp, update, atomic>>
  BY <1>2 DEF Undisturbed, Updating
<1>3. ASSUME NEW p \in Writers, WriteTemp(p) PROVE Undisturbed'
  <2>1. /\ Updating(p) /\ temp' = update[p].new
        /\ update' = [update EXCEPT ![p].at = "rename"]
        /\ file' = file /\ atomic' = atomic
    BY <1>3 DEF WriteTemp, Updating
  <2>2. /\ update'[p].old = update[p].old /\ update'[p].new = update[p].new
        /\ \A q \in Writers \ {p} : update'[q] = update[q]
    BY <2>1 DEF TypeOK
  <2>3. \A q \in Writers \ {p} : ~ Updating(q)
    BY <1>1, <2>1
  <2> QED BY <2>1, <2>2, <2>3 DEF Undisturbed, Updating
<1>4. ASSUME NEW p \in Writers, NEW new, ReadFile(p, new) PROVE Undisturbed'
  <2>1. /\ update'[p] = [at |-> "write", old |-> file, new |-> new]
        /\ \A q \in Writers \ {p} : update'[q] = update[q]
        /\ UNCHANGED <<file, temp, atomic>>
    BY <1>4 DEF ReadFile, TypeOK, disk
  <2> QED BY <2>1 DEF Undisturbed, Updating
<1>5. ASSUME NEW p \in Writers, Renamed(p) \/ RenameFails(p) PROVE Undisturbed'
  <2>1. Updating(p) /\ update[p].at = "rename"
    BY <1>5 DEF Renamed, RenameFails, Updating
  <2>2. temp = update[p].new /\ temp # NoFile /\ file = update[p].old
    BY <2>1, Counts, NoFileIsNoState DEF Undisturbed
  <2>3. /\ atomic'
        /\ update'[p] = NoUpdate
        /\ \A q \in Writers \ {p} : update'[q] = update[q]
    BY <1>5, <2>2 DEF Renamed, RenameFails, TypeOK, Undisturbed
  <2>4. \A q \in Writers : ~ Updating(q)'
    BY <1>1, <2>1, <2>3 DEF Updating, NoUpdate
  <2> QED BY <2>3, <2>4 DEF Undisturbed
<1>6. CASE DaemonGone
  <2>1. /\ UNCHANGED <<file, temp, atomic>>
        /\ \A p \in Writers : update'[p] = update[p] \/ update'[p].at = "none"
    BY <1>6 DEF DaemonGone, TypeOK, disk, NoUpdate
  <2> QED BY <2>1 DEF Undisturbed, Updating
<1>7. CASE \/ Post \/ ScanReads \/ Prompt \/ TurnNotStarted \/ ClaudeStarts
           \/ Renew \/ CheckReads \/ CheckGives \/ ClaudeEnds
           \/ Ask \/ PostQuestion \/ Poll \/ RequestEnds \/ UNCHANGED vars
  BY <1>2, <1>7 DEF Post, ScanReads, Prompt, TurnNotStarted, ClaudeStarts, Renew,
     CheckReads, CheckGives, ClaudeEnds, Ask, PostQuestion, Poll, RequestEnds,
     vars, disk
<1>8. CASE ScanUpdates \/ Reset \/ TurnStarts \/ AnswerUpdates \/ SaveTurn
  BY <1>4, <1>8 DEF ScanUpdates, Reset, TurnStarts, AnswerUpdates, SaveTurn, Writers
<1>9. CASE \/ ScanEnds \/ ResetEnds \/ TurnStarted \/ AnswerCounts \/ KeepWaiting
           \/ AnswerFails \/ TurnSaved
  BY <1>5, <1>9 DEF ScanEnds, ResetEnds, TurnStarted, AnswerCounts, KeepWaiting,
     AnswerFails, TurnSaved, Writers
<1>10. CASE Panic \/ Crash
  BY <1>6, <1>10 DEF Panic, Crash
<1> QED BY <1>3, <1>7, <1>8, <1>9, <1>10 DEF Next

\* store.go says that Update changes the state of one card atomically, which the
\* run sessions_update refutes.  As long as no Update of the reset command is
\* under way together with one of the daemon, it is true, whatever crashes and
\* fails: each Update replaces the file that it read, no mention is dropped, and
\* the last Update of runTurn finds the items of the turn in the queue.
THEOREM OnlyOverlapLoses ==
  Spec /\ []Apart => [](atomic /\ NoMentionDropped /\ QueueHasTurn)
<1>1. Init => Undisturbed
  BY DEF Init, Undisturbed, Updating, NoUpdate
<1>2. Inv /\ Undisturbed => atomic /\ NoMentionDropped /\ QueueHasTurn
  <2> SUFFICES ASSUME Inv, Undisturbed
               PROVE  atomic /\ NoMentionDropped /\ QueueHasTurn
    OBVIOUS
  <2>1. atomic /\ NoMentionDropped
    BY DEF Undisturbed, Inv, FileExact, Had, NoMentionDropped, Taken, Used
  <2>2. QueueHasTurn
    BY <2>1 DEF Inv, TurnFile, TurnMatches, SentMatches, InTurn, QueueHasTurn
  <2> QED BY <2>1, <2>2
<1> QED BY <1>1, <1>2, UndisturbedStep, Invariance, Types, PTL DEF Spec
==============================================================================
