----------------------------- MODULE IntakeProofs -----------------------------
(***************************************************************************)
(* Proofs about Intake for every value of its constants: its variables     *)
(* keep their types, no mention is ever without an unread notification or  *)
(* a durable mark until it is handled, and a fetch that is answered with   *)
(* "not modified" misses nothing.                                          *)
(***************************************************************************)
EXTENDS Parts, SessionsProofs

\* The elements of a sequence and of its extension by one element.
LEMMA ItemsOfAppend ==
  ASSUME NEW S, NEW s \in Seq(S), NEW x \in S
  PROVE  In!ItemsOf(Append(s, x)) = In!ItemsOf(s) \cup {x}
<1>1. /\ Len(Append(s, x)) = Len(s) + 1 /\ Len(s) \in Nat
      /\ \A k \in 1..Len(s) : Append(s, x)[k] = s[k]
      /\ Append(s, x)[Len(s) + 1] = x
  BY AppendProperties, LenProperties
<1>2. ASSUME NEW y \in In!ItemsOf(Append(s, x)) PROVE y \in In!ItemsOf(s) \cup {x}
  <2>1. PICK k \in 1..Len(s) + 1 : y = Append(s, x)[k]
    BY <1>1, <1>2 DEF In!ItemsOf
  <2>2. CASE k = Len(s) + 1
    BY <1>1, <2>1, <2>2
  <2>3. CASE k \in 1..Len(s)
    BY <1>1, <2>1, <2>3 DEF In!ItemsOf
  <2> QED BY <1>1, <2>1, <2>2, <2>3
<1>3. ASSUME NEW y \in In!ItemsOf(s) \cup {x} PROVE y \in In!ItemsOf(Append(s, x))
  <2>1. CASE y = x
    BY <1>1, <2>1 DEF In!ItemsOf
  <2>2. CASE y \in In!ItemsOf(s)
    <3>1. PICK k \in 1..Len(s) : y = s[k]
      BY <2>2 DEF In!ItemsOf
    <3>2. k \in 1..Len(Append(s, x)) /\ y = Append(s, x)[k]
      BY <1>1, <3>1
    <3> QED BY <3>2 DEF In!ItemsOf
  <2> QED BY <1>3, <2>1, <2>2
<1> QED BY <1>2, <1>3

LEMMA NoCardType == In!NoCard \in Cards
BY IntakeAssumption DEF In!NoCard

-----------------------------------------------------------------------------
(* Lists of places, and the items at them *)

\* Of two lists of the same set in order, none has a smaller place first.
LEMMA NotSmallerFirst ==
  ASSUME NEW S \in SUBSET Nat, NEW c \in Nat, NEW s \in [1..c -> S], Increasing(s),
         NEW t \in [1..c -> S], Increasing(t), \A x \in S : \E k \in 1..c : t[k] = x,
         NEW j \in 1..c, \A i \in 1..c : i < j => s[i] = t[i]
  PROVE  ~ (s[j] < t[j])
<1> SUFFICES ASSUME s[j] < t[j] PROVE FALSE
  OBVIOUS
<1>1. PICK i \in 1..c : t[i] = s[j]
  OBVIOUS
<1>2. \A k \in 1..c : s[k] \in Nat /\ t[k] \in Nat
  <2>1. \A k \in 1..c : s[k] \in S /\ t[k] \in S
    OBVIOUS
  <2> QED BY <2>1
<1>3. CASE i < j
  <2>1. s[i] < s[j]
    BY <1>3 DEF Increasing
  <2>2. s[i] = s[j]
    BY <1>1, <1>3
  <2> QED BY <1>2, <2>1, <2>2
<1>4. CASE i = j
  BY <1>1, <1>2, <1>4
<1>5. CASE j < i
  <2>1. t[j] < t[i]
    BY <1>5 DEF Increasing
  <2> QED BY <1>1, <1>2, <2>1
<1> QED BY <1>3, <1>4, <1>5

\* A set can be listed in order in one way.
LEMMA OneOrder ==
  ASSUME NEW n \in Nat, NEW S \in SUBSET (1..n),
         NEW t \in [1..Cardinality(S) -> S], Increasing(t)
  PROVE  t = InOrder(S)
<1> DEFINE c == Cardinality(S)
           s == InOrder(S)
<1>0. S \in SUBSET Nat
  OBVIOUS
<1>1. /\ IsFiniteSet(S) /\ c \in Nat
      /\ s \in [1..c -> S] /\ Increasing(s) /\ \A x \in S : \E k \in 1..c : s[k] = x
  BY OrderIs, Zenon
<1>2. t \in [1..c -> S] /\ Increasing(t)
  OBVIOUS
<1> HIDE DEF c, s
<1>3. \A x \in S : \E k \in 1..c : t[k] = x
  <2>1. \A j, k \in 1..c : t[j] \in Nat /\ (j < k => t[j] < t[k])
    <3>1. \A j \in 1..c : t[j] \in S
      BY <1>2
    <3>2. DOMAIN t = 1..c
      BY <1>2
    <3> QED BY <1>0, <1>2, <3>1, <3>2 DEF Increasing
  <2>2. t \in Injection(1..c, S)
    <3> SUFFICES ASSUME NEW j \in 1..c, NEW k \in 1..c, j # k PROVE t[j] # t[k]
      BY <1>2 DEF Injection, IsInjective
    <3>1. j < k \/ k < j
      BY <1>1
    <3> QED BY <2>1, <3>1
  <2>3. Cardinality(1..c) = c
    BY <1>1, FS_Interval
  <2>4. t \in Surjection(1..c, S)
    BY <1>1, <2>2, <2>3, FS_Injection DEF c
  <2> QED BY <2>4 DEF Surjection
<1>4. SUFFICES ASSUME t # s PROVE FALSE
  BY DEF s
<1> DEFINE B == {j \in 1..c : t[j] # s[j]}
<1>5. B # {} /\ B \in SUBSET Nat
  <2>1. \E j \in 1..c : t[j] # s[j]
    <3>1. s = [j \in 1..c |-> s[j]] /\ t = [j \in 1..c |-> t[j]]
      BY <1>1, <1>2
    <3> QED BY <1>4, <3>1
  <2>2. 1..c \subseteq Nat
    BY <1>1
  <2> QED BY <2>1, <2>2
<1>6. PICK j \in B : \A i \in B : j <= i
  <2> HIDE DEF B
  <2> QED BY <1>5, LeastIs
<1>7. j \in 1..c /\ t[j] # s[j] /\ \A i \in 1..c : i < j => t[i] = s[i]
  BY <1>1, <1>6
<1>8. ~ (s[j] < t[j]) /\ ~ (t[j] < s[j])
  BY <1>0, <1>1, <1>2, <1>3, <1>7, NotSmallerFirst
<1>9. s[j] \in Nat /\ t[j] \in Nat
  <2>1. s[j] \in S /\ t[j] \in S
    BY <1>1, <1>2, <1>7
  <2> QED BY <1>0, <2>1
<1> QED BY <1>7, <1>8, <1>9

\* The list of two sets, one before the other, is that of the first and then
\* that of the second.
LEMMA OrderOfBoth ==
  ASSUME NEW n \in Nat, NEW S \in SUBSET (1..n), NEW T \in SUBSET (1..n),
         \A j \in S, k \in T : j < k
  PROVE  LET a == Cardinality(S)
             b == Cardinality(T)
         IN  /\ Cardinality(S \cup T) = a + b
             /\ InOrder(S \cup T) = [k \in 1..a + b |-> IF k <= a THEN InOrder(S)[k]
                                                        ELSE InOrder(T)[k - a]]
<1> DEFINE a == Cardinality(S)
           b == Cardinality(T)
           s == InOrder(S)
           t == InOrder(T)
           r == [k \in 1..a + b |-> IF k <= a THEN s[k] ELSE t[k - a]]
<1>1. /\ IsFiniteSet(S) /\ a \in Nat /\ s \in [1..a -> S] /\ Increasing(s)
      /\ IsFiniteSet(T) /\ b \in Nat /\ t \in [1..b -> T] /\ Increasing(t)
  BY OrderIs
<1>2. Cardinality(S \cup T) = a + b
  <2>1. S \cap T = {}
    <3> SUFFICES ASSUME NEW x \in S \cap T PROVE FALSE
      OBVIOUS
    <3>1. x < x /\ x \in Nat
      OBVIOUS
    <3> QED BY <3>1
  <2>2. Cardinality(S \cap T) = 0
    BY <2>1, FS_EmptySet
  <2>3. Cardinality(S \cup T) = a + b - Cardinality(S \cap T)
    BY <1>1, FS_Union
  <2> QED BY <1>1, <2>2, <2>3
<1> HIDE DEF a, b, s, t
<1>3. \A k \in 1..a + b : \/ k \in 1..a /\ r[k] = s[k] /\ r[k] \in S
                          \/ k - a \in 1..b /\ ~ (k <= a) /\ r[k] = t[k - a] /\ r[k] \in T
  BY <1>1
<1>4. DOMAIN r = 1..a + b
  OBVIOUS
<1>5. r \in [1..a + b -> S \cup T]
  BY <1>3, <1>4
<1>6. Increasing(r)
  <2> SUFFICES ASSUME NEW j \in 1..a + b, NEW k \in 1..a + b, j < k PROVE r[j] < r[k]
    BY <1>4 DEF Increasing
  <2> HIDE DEF r
  <2>1. CASE k <= a
    <3>1. j \in 1..a /\ k \in 1..a /\ r[j] = s[j] /\ r[k] = s[k]
      BY <1>1, <1>3, <2>1
    <3> QED BY <1>1, <3>1 DEF Increasing
  <2>2. CASE j <= a /\ ~ (k <= a)
    <3>1. r[j] \in S /\ r[k] \in T
      BY <1>1, <1>3, <2>2
    <3> QED BY <3>1
  <2>3. CASE ~ (j <= a)
    <3>1. /\ j - a \in 1..b /\ k - a \in 1..b /\ j - a < k - a
          /\ r[j] = t[j - a] /\ r[k] = t[k - a]
      BY <1>1, <1>3, <2>3
    <3> QED BY <1>1, <3>1 DEF Increasing
  <2> QED BY <2>1, <2>2, <2>3
<1> HIDE DEF r
<1>7. r = InOrder(S \cup T)
  BY <1>2, <1>5, <1>6, OneOrder
<1> QED BY <1>2, <1>7 DEF r, a, b, s, t

\* What ItemsAt gives, for places of a sequence.
LEMMA ItemsAtIs ==
  ASSUME NEW M, NEW s \in Seq(M), NEW K \in SUBSET (1..Len(s))
  PROVE  /\ In!ItemsAt(s, K) = [j \in 1..Cardinality(K) |-> s[InOrder(K)[j]]]
         /\ In!ItemsAt(s, K) \in Seq(M)
         /\ Len(In!ItemsAt(s, K)) = Cardinality(K)
<1>1. \A S : In!Cardinality(S) = Cardinality(S)
  BY DEF In!Cardinality, Cardinality
<1>2. In!InOrder(K) = InOrder(K)
  BY <1>1 DEF In!InOrder, InOrder
<1>3. In!ItemsAt(s, K) = [j \in 1..Cardinality(K) |-> s[InOrder(K)[j]]]
  BY <1>1, <1>2 DEF In!ItemsAt
<1> DEFINE c == Cardinality(K)
           o == InOrder(K)
           r == [j \in 1..c |-> s[o[j]]]
<1>4. Len(s) \in Nat /\ \A k \in 1..Len(s) : s[k] \in M
  BY LenProperties, ElementOfSeq
<1>5. c \in Nat /\ o \in [1..c -> K]
  BY <1>4, OrderIs
<1> HIDE DEF c, o
<1>6. r \in [1..c -> M]
  BY <1>4, <1>5
<1>7. r \in Seq(M) /\ Len(r) = c
  <2> HIDE DEF r
  <2> QED BY <1>5, <1>6
<1> QED BY <1>3, <1>7 DEF r, c, o

\* The items at two sets of places, one before the other.
LEMMA ItemsAtBoth ==
  ASSUME NEW M, NEW s \in Seq(M), NEW S \in SUBSET (1..Len(s)), NEW T \in SUBSET (1..Len(s)),
         \A j \in S, k \in T : j < k
  PROVE  In!ItemsAt(s, S \cup T) = In!ItemsAt(s, S) \o In!ItemsAt(s, T)
<1>1. Len(s) \in Nat
  BY LenProperties
<1>2. PICK a, b, p, q, both :
        /\ a = Cardinality(S) /\ b = Cardinality(T)
        /\ p = InOrder(S) /\ q = InOrder(T) /\ both = InOrder(S \cup T)
  OBVIOUS
<1>3. a \in Nat /\ b \in Nat
  BY <1>1, <1>2, OrderIs
<1>4. /\ Cardinality(S \cup T) = a + b
      /\ both = [k \in 1..a + b |-> IF k <= a THEN p[k] ELSE q[k - a]]
  <2>1. LET d == Cardinality(S)
            e == Cardinality(T)
        IN  /\ Cardinality(S \cup T) = d + e
            /\ InOrder(S \cup T) = [k \in 1..d + e |-> IF k <= d THEN InOrder(S)[k]
                                                       ELSE InOrder(T)[k - d]]
    BY <1>1, OrderOfBoth, Zenon
  <2> QED BY <1>2, <2>1, Zenon
<1>5. PICK x, y, z : /\ x = In!ItemsAt(s, S) /\ y = In!ItemsAt(s, T)
                     /\ z = In!ItemsAt(s, S \cup T)
  OBVIOUS
<1>6. /\ x = [j \in 1..a |-> s[p[j]]] /\ x \in Seq(M) /\ Len(x) = a
      /\ y = [j \in 1..b |-> s[q[j]]] /\ y \in Seq(M) /\ Len(y) = b
      /\ z = [j \in 1..a + b |-> s[both[j]]] /\ z \in Seq(M) /\ Len(z) = a + b
  <2>1. x = [j \in 1..a |-> s[p[j]]] /\ x \in Seq(M) /\ Len(x) = a
    BY <1>2, <1>5, ItemsAtIs
  <2>2. y = [j \in 1..b |-> s[q[j]]] /\ y \in Seq(M) /\ Len(y) = b
    BY <1>2, <1>5, ItemsAtIs
  <2>3. z = [j \in 1..a + b |-> s[both[j]]] /\ z \in Seq(M) /\ Len(z) = a + b
    <3>1. PICK u \in SUBSET (1..Len(s)) : u = S \cup T
      OBVIOUS
    <3>2. Cardinality(u) = a + b /\ InOrder(u) = both
      BY <1>2, <1>4, <3>1, Zenon
    <3>3. /\ z = [j \in 1..Cardinality(u) |-> s[InOrder(u)[j]]]
          /\ z \in Seq(M) /\ Len(z) = Cardinality(u)
      <4>1. z = In!ItemsAt(s, u)
        BY <1>5, <3>1, Zenon
      <4> QED BY <4>1, ItemsAtIs
    <3> QED BY <3>2, <3>3
  <2> QED BY <2>1, <2>2, <2>3
<1>7. /\ x \o y \in Seq(M) /\ Len(x \o y) = a + b
      /\ \A k \in 1..a + b : (x \o y)[k] = IF k <= a THEN x[k] ELSE y[k - a]
  <2>1. x \in Seq(M) /\ y \in Seq(M) /\ Len(x) = a /\ Len(y) = b
    BY <1>6
  <2> QED BY <2>1, ConcatProperties
<1>8. ASSUME NEW k \in 1..a + b PROVE z[k] = (x \o y)[k]
  <2>1. CASE k <= a
    <3>1. k \in 1..a /\ both[k] = p[k]
      BY <1>3, <1>4, <2>1
    <3> QED BY <1>6, <1>7, <2>1, <3>1
  <2>2. CASE ~ (k <= a)
    <3>1. k - a \in 1..b /\ both[k] = q[k - a]
      BY <1>3, <1>4, <2>2
    <3> QED BY <1>6, <1>7, <2>2, <3>1
  <2> QED BY <2>1, <2>2
<1>9. z = x \o y
  <2>1. z \in Seq(M) /\ Len(z) = a + b
    BY <1>6
  <2> QED BY <1>7, <1>8, <2>1, SeqEqual
<1> QED BY <1>5, <1>9

\* The items do not change when the sequence gets longer.
LEMMA ItemsAtLonger ==
  ASSUME NEW M, NEW s \in Seq(M), NEW r \in Seq(M), Len(s) <= Len(r),
         \A k \in 1..Len(s) : r[k] = s[k], NEW K \in SUBSET (1..Len(s))
  PROVE  In!ItemsAt(r, K) = In!ItemsAt(s, K)
<1>1. Len(s) \in Nat /\ Len(r) \in Nat
  BY LenProperties
<1>2. K \in SUBSET (1..Len(r))
  BY <1>1
<1>3. \A j \in 1..Cardinality(K) : InOrder(K)[j] \in 1..Len(s)
  BY <1>1, OrderIs
<1>4. /\ In!ItemsAt(s, K) = [j \in 1..Cardinality(K) |-> s[InOrder(K)[j]]]
      /\ In!ItemsAt(r, K) = [j \in 1..Cardinality(K) |-> r[InOrder(K)[j]]]
  BY <1>2, ItemsAtIs
<1> QED BY <1>3, <1>4

\* No places, no items.
LEMMA NothingAt ==
  ASSUME NEW M, NEW s \in Seq(M)
  PROVE  In!ItemsAt(s, {}) = <<>>
<1>1. In!ItemsAt(s, {}) \in Seq(M) /\ Len(In!ItemsAt(s, {})) = Cardinality({})
  BY ItemsAtIs
<1>2. Cardinality({}) = 0
  BY FS_EmptySet
<1>3. PICK e : e = In!ItemsAt(s, {})
  OBVIOUS
<1>4. e \in Seq(M) /\ Len(e) = 0
  BY <1>1, <1>2, <1>3, Zenon
<1>5. e = <<>>
  BY <1>4, EmptySeq
<1> QED BY <1>3, <1>5

-----------------------------------------------------------------------------
(* The invariant *)

\* A card whose mentions are safe without its mark.
Safe(c) ==
  In!ItemsOf(comments[c]) \subseteq handled[c] \/ c \in unread \/ c \in gone

\* What the loop knows about its card at the steps that remove something: only
\* an event of Fizzy can add a mention, and it makes the notification unread.
LoopKnows ==
  /\ loop.at = "record" => loop.seen <= Len(comments[loop.card])
  /\ loop.at = "record" =>
       loop.seen = Len(comments[loop.card]) \/ loop.card \in unread \cup gone
  /\ loop.at = "mark" => loop.card \in needsScan
  /\ loop.at = "drop" => loop.card \in gone
  /\ loop.at = "clearScan" => Safe(loop.card)

\* The unread cards that the pass still has to handle, when the list that the
\* etag stands for is the list of Fizzy: none before the fetch of the pass.
StillToHandle ==
  IF loop.at = "notices" \/ loop.scan = "again" THEN todo
  ELSE IF loop.scan = "notice" THEN todo \cup {loop.card}
  ELSE {}

\* What the etag says as long as no step of the pass failed.
EtagKnows ==
  /\ loop.at \in {"down", "wait", "rescans", "fetch", "notices"} => loop.scan = "none"
  /\ loop.at = "clearScan" => loop.scan # "notice"
  /\ loop.at = "wait" => ~loop.failed
  /\ loop.at = "down" => etag = "none"
  /\ etag = "current" /\ ~loop.failed => unread \subseteq StillToHandle

\* The scans read the comments of card c up to the n-th, and each once: these
\* are handled, and those of trusted people are in the queue, in their order.
ReadUpTo(c, n) ==
  /\ handled[c] = {comments[c][k] : k \in 1..n}
  /\ queued[c] = In!ItemsAt(comments[c], In!TrustedAt(c, 1..n))

QueueOk(c) ==
  /\ \A j, k \in 1..Len(comments[c]) : comments[c][j] = comments[c][k] => j = k
  /\ \E n \in 0..Len(comments[c]) : ReadUpTo(c, n)

QueueKnows == \A c \in Cards : QueueOk(c)

IntakeInv == In!TypeOK /\ LoopKnows /\ EtagKnows /\ QueueKnows /\ In!NoMentionLost

\* The elements of the start of a sequence, and of a whole sequence.
LEMMA ItemsOfStart ==
  ASSUME NEW S, NEW s \in Seq(S), NEW n \in Nat, n <= Len(s)
  PROVE  In!ItemsOf(SubSeq(s, 1, n)) \subseteq S
<1>1. Len(s) \in Nat /\ \A k \in 1..n : s[k] \in S
  BY LenProperties, ElementOfSeq
<1>2. SubSeq(s, 1, n) \in Seq(S)
  BY <1>1, SubSeqProperties
<1> QED BY <1>2, ElementOfSeq DEF In!ItemsOf

LEMMA ItemsOfFirst ==
  ASSUME NEW S, NEW s \in Seq(S), NEW n \in 0..Len(s)
  PROVE  In!ItemsOf(SubSeq(s, 1, n)) = {s[k] : k \in 1..n}
<1>1. Len(s) \in Nat /\ \A k \in 1..n : s[k] \in S
  BY LenProperties, ElementOfSeq
<1>2. /\ SubSeq(s, 1, n) \in Seq(S) /\ Len(SubSeq(s, 1, n)) = n
      /\ \A k \in 1..n : SubSeq(s, 1, n)[k] = s[k]
  BY <1>1, SubSeqProperties
<1> QED BY <1>2 DEF In!ItemsOf

LEMMA IntakeInit == In!Init => IntakeInv
<1> SUFFICES ASSUME In!Init PROVE IntakeInv
  OBVIOUS
<1>1. In!TypeOK
  BY NoCardType, EmptySeq, IntakeAssumption DEF In!Init, In!TypeOK, In!LoopRecord, In!Pass, In!Loop
<1>2. LoopKnows
  BY DEF In!Init, LoopKnows, In!Pass, In!Loop
<1>3. In!NoMentionLost
  <2> SUFFICES ASSUME NEW c \in Cards PROVE In!ItemsOf(comments[c]) \subseteq handled[c]
    BY DEF In!NoMentionLost
  <2>1. comments[c] = <<>> /\ Len(<<>>) = 0
    BY EmptySeq DEF In!Init
  <2>2. In!ItemsOf(comments[c]) = {}
    BY <2>1 DEF In!ItemsOf
  <2> QED BY <2>2
<1>4. EtagKnows
  BY DEF In!Init, EtagKnows, StillToHandle, In!Pass, In!Loop
<1>5. QueueKnows
  <2> SUFFICES ASSUME NEW c \in Cards PROVE QueueOk(c)
    BY DEF QueueKnows
  <2>1. comments[c] = <<>> /\ handled[c] = {} /\ queued[c] = <<>> /\ Len(<<>>) = 0
    BY EmptySeq DEF In!Init
  <2>2. In!TrustedAt(c, 1..0) = {}
    BY DEF In!TrustedAt
  <2>3. In!ItemsAt(<<>>, {}) = <<>>
    <3>1. <<>> \in Seq(CardMentions) /\ {} \in SUBSET (1..Len(<<>>))
      BY EmptySeq
    <3>2. /\ In!ItemsAt(<<>>, {}) \in Seq(CardMentions)
          /\ Len(In!ItemsAt(<<>>, {})) = Cardinality({})
      BY <3>1, ItemsAtIs
    <3>3. Cardinality({}) = 0
      BY FS_EmptySet
    <3>4. PICK e : e = In!ItemsAt(<<>>, {})
      OBVIOUS
    <3>5. e \in Seq(CardMentions) /\ Len(e) = 0
      BY <3>2, <3>3, <3>4, Zenon
    <3>6. e = <<>>
      BY <3>5, EmptySeq
    <3> QED BY <3>4, <3>6
  <2>4. ReadUpTo(c, 0)
    <3>1. {comments[c][k] : k \in 1..0} = {}
      OBVIOUS
    <3>2. In!ItemsAt(comments[c], In!TrustedAt(c, 1..0)) = <<>>
      BY <2>1, <2>2, <2>3, Zenon
    <3> QED BY <2>1, <3>1, <3>2 DEF ReadUpTo
  <2> QED BY <2>1, <2>4 DEF QueueOk
<1> QED BY <1>1, <1>2, <1>3, <1>4, <1>5 DEF IntakeInv

\* Where the loop can be sent.
LEMMA LoopMoves ==
  ASSUME In!TypeOK
  PROVE  /\ \A at \in {"down", "wait", "rescans", "fetch", "notices"},
               failed \in BOOLEAN : In!Pass(at, failed) \in In!LoopRecord
         /\ \A failed \in BOOLEAN : In!Back(failed) \in In!LoopRecord
         /\ In!AfterScan \in In!LoopRecord
         /\ loop.card \in Cards /\ loop.failed \in BOOLEAN /\ loop.seen \in Nat
BY NoCardType DEF In!TypeOK, In!LoopRecord, In!Pass, In!Loop, In!Back, In!AfterScan

LEMMA TypesStep ==
  ASSUME In!TypeOK, LoopKnows, [In!Next]_intakeVars
  PROVE  In!TypeOK'
<1>1. ASSUME NEW m \in CardMentions, In!Mention(m) PROVE In!TypeOK'
  <2>1. CardOf[m] \in Cards /\ comments[CardOf[m]] \in Seq(CardMentions)
    BY IntakeAssumption DEF In!TypeOK
  <2>2. Append(comments[CardOf[m]], m) \in Seq(CardMentions)
    BY <2>1, AppendProperties
  <2> QED BY <1>1, <2>1, <2>2 DEF In!Mention, In!Changed, In!TypeOK, In!store
<1>2. ASSUME NEW c \in Cards, In!Event(c) \/ In!Delete(c) PROVE In!TypeOK'
  BY <1>2, IntakeAssumption DEF In!Event, In!Delete, In!Changed, In!TypeOK, In!store, In!memory
<1>3. CASE In!Step
  <2>1. ASSUME NEW c \in Cards, In!NextCard(c) PROVE In!TypeOK'
    BY <2>1 DEF In!NextCard, In!TypeOK, In!LoopRecord, In!Loop, In!fizzy, In!store
  <2>2. CASE In!Wake \/ In!PassDone
    BY <2>2, LoopMoves DEF In!Wake, In!PassDone, In!EtagAfter, In!TypeOK, In!fizzy, In!store
  <2>3. CASE In!RescansDone \/ In!Fetch \/ In!FetchNotModified \/ In!FetchFails
    BY <2>3 DEF In!RescansDone, In!Fetch, In!FetchNotModified, In!FetchFails, In!TypeOK,
                In!LoopRecord, In!fizzy, In!store
  <2>4. CASE In!Read
    <3>1. Len(comments[loop.card]) \in Nat
      BY LoopMoves, LenProperties DEF In!TypeOK
    <3> QED BY <2>4, <3>1 DEF In!Read, In!TypeOK, In!LoopRecord, In!fizzy, In!store
  <2>5. CASE In!ReadGone
    <3>1. [loop EXCEPT !.at = "drop"] \in In!LoopRecord
      BY DEF In!TypeOK, In!LoopRecord
    <3> QED BY <2>5, <3>1, LoopMoves DEF In!ReadGone, In!TypeOK, In!fizzy, In!store
  <2>6. CASE In!Record
    <3> DEFINE c == loop.card
               theirs == In!ItemsOf(SubSeq(comments[c], 1, loop.seen))
    <3>1. handled' = [handled EXCEPT ![c] = @ \cup theirs] /\ loop' = In!AfterScan
      BY <2>6 DEF In!Record, In!Scanned
    <3>2. theirs \subseteq CardMentions
      BY <2>6, LoopMoves, ItemsOfStart DEF In!TypeOK, LoopKnows, In!Record, In!Scanned
    <3> DEFINE new == In!ItemsAt(comments[c], In!TrustedAt(c, In!Triggers(c)))
    <3>3. c \in Cards /\ comments[c] \in Seq(CardMentions) /\ queued[c] \in Seq(CardMentions)
      BY LoopMoves DEF In!TypeOK
    <3>4. In!TrustedAt(c, In!Triggers(c)) \in SUBSET (1..Len(comments[c]))
      <4>1. loop.seen <= Len(comments[c]) /\ loop.seen \in Nat /\ Len(comments[c]) \in Nat
        BY <2>6, <3>3, LoopMoves, LenProperties DEF LoopKnows, In!Record, In!Scanned
      <4> QED BY <4>1 DEF In!TrustedAt, In!Triggers
    <3>5. new \in Seq(CardMentions)
      BY <3>3, <3>4, ItemsAtIs
    <3>6. queued' = [queued EXCEPT ![c] = @ \o new]
      BY <2>6 DEF In!Record, In!Scanned
    <3> HIDE DEF c, theirs, new
    <3>7. queued' \in [Cards -> Seq(CardMentions)]
      <4>1. queued[c] \o new \in Seq(CardMentions)
        BY <3>3, <3>5, ConcatProperties
      <4> QED BY <3>6, <4>1 DEF In!TypeOK
    <3>8. handled' \in [Cards -> SUBSET CardMentions]
      BY <3>1, <3>2, <3>3 DEF In!TypeOK
    <3>9. UNCHANGED <<comments, gone, unread, events, needsScan, pendingScans, etag, todo,
                      stops>>
      BY <2>6 DEF In!Record, In!Scanned, In!fizzy
    <3> QED BY <3>1, <3>7, <3>8, <3>9, LoopMoves DEF In!TypeOK
  <2>7. CASE In!SetNeedsScan
    BY <2>7 DEF In!SetNeedsScan, In!MarkCard, In!TypeOK, In!LoopRecord, In!fizzy
  <2>8. CASE In!MarkRead
    <3>1. [loop EXCEPT !.at = "read", !.scan = "again"] \in In!LoopRecord
      BY DEF In!TypeOK, In!LoopRecord
    <3> QED BY <2>8, <3>1, LoopMoves DEF In!MarkRead, In!MarkedRead, In!Changed, In!TypeOK, In!store
  <2>9. CASE In!MarkReadUnanswered
    BY <2>9, LoopMoves DEF In!MarkReadUnanswered, In!MarkedRead, In!Changed, In!TypeOK,
                                 In!store
  <2>10. CASE In!ClearNeedsScan \/ In!StepFails
    BY <2>10, LoopMoves DEF In!ClearNeedsScan, In!StepFails, In!TypeOK, In!fizzy,
                            In!store
  <2> QED
    BY <1>3, <2>1, <2>2, <2>3, <2>4, <2>5, <2>6, <2>7, <2>8, <2>9, <2>10 DEF In!Step
<1>4. CASE In!Crash \/ In!Restart
  <2>1. CASE In!Crash
    <3>1. stops' \in 0..MaxStops
      BY <2>1, IntakeAssumption DEF In!Crash, In!TypeOK
    <3> QED BY <2>1, <3>1, LoopMoves DEF In!Crash, In!TypeOK, In!fizzy, In!store
  <2>2. CASE In!Restart
    BY <2>2, LoopMoves DEF In!Restart, In!ResumeMarks, In!TypeOK, In!fizzy, In!store
  <2> QED BY <1>4, <2>1, <2>2
<1>5. CASE UNCHANGED intakeVars
  BY <1>5 DEF intakeVars, In!TypeOK
<1> QED BY <1>1, <1>2, <1>3, <1>4, <1>5 DEF In!Next

\* What the loop knows stays true: a step of the loop establishes it for the
\* next step, and an event of Fizzy only adds a comment or an unread card.
LEMMA LoopKnowsStep ==
  ASSUME IntakeInv, [In!Next]_intakeVars
  PROVE  LoopKnows'
<1> USE DEF IntakeInv
<1>1. ASSUME NEW m \in CardMentions, In!Mention(m) PROVE LoopKnows'
  <2> DEFINE c == CardOf[m]
  <2>1. c \in Cards /\ comments[c] \in Seq(CardMentions)
    BY IntakeAssumption DEF In!TypeOK
  <2>2. /\ Len(comments'[c]) = Len(comments[c]) + 1 /\ Len(comments[c]) \in Nat
        /\ unread' = unread \cup {c} /\ gone' = gone
        /\ \A d \in Cards \ {c} : comments'[d] = comments[d]
    BY <1>1, <2>1, AppendProperties, LenProperties DEF In!Mention, In!TypeOK
  <2>3. loop' = loop /\ needsScan' = needsScan /\ handled' = handled
    BY <1>1 DEF In!Mention, In!store
  <2>4. CASE loop.card = c
    <3>1. loop.card \in unread' /\ loop.seen \in Nat
      BY <2>2, <2>4, LoopMoves
    <3> QED BY <2>1, <2>2, <2>3, <2>4, <3>1 DEF LoopKnows, Safe
  <2>5. CASE loop.card # c
    <3>1. comments'[loop.card] = comments[loop.card]
      BY <2>2, <2>5, LoopMoves
    <3> QED BY <2>2, <2>3, <3>1 DEF LoopKnows, Safe
  <2> QED BY <2>4, <2>5
<1>2. ASSUME NEW c \in Cards, In!Event(c) \/ In!Delete(c) PROVE LoopKnows'
  BY <1>2 DEF In!Event, In!Delete, LoopKnows, Safe, In!store, In!memory
<1>3. CASE In!Step
  <2>1. ASSUME NEW c \in Cards, In!NextCard(c) PROVE LoopKnows'
    BY <2>1 DEF In!NextCard, In!Loop, LoopKnows
  <2>2. CASE \/ In!Wake \/ In!RescansDone \/ In!Fetch
             \/ In!FetchNotModified \/ In!FetchFails \/ In!PassDone
    <3>1. CASE In!Wake \/ In!PassDone
      BY <3>1 DEF In!Wake, In!PassDone, In!Pass, In!Loop, LoopKnows
    <3>2. CASE In!RescansDone \/ In!Fetch \/ In!FetchNotModified \/ In!FetchFails
      <4>1. loop'.at \in {"fetch", "notices"}
        BY <3>2 DEF In!RescansDone, In!Fetch, In!FetchNotModified, In!FetchFails,
                    In!TypeOK, In!LoopRecord
      <4> QED BY <4>1 DEF LoopKnows
    <3> QED BY <2>2, <3>1, <3>2
  <2>3. CASE In!Read
    <3>1. loop'.at = "record" /\ loop'.card = loop.card /\ comments' = comments
      BY <2>3 DEF In!Read, In!TypeOK, In!LoopRecord, In!fizzy
    <3>2. loop'.seen = Len(comments[loop.card]) /\ loop'.seen \in Nat
      BY <2>3, LoopMoves, LenProperties DEF In!Read, In!TypeOK, In!LoopRecord
    <3> QED BY <3>1, <3>2 DEF LoopKnows
  <2>4. CASE In!ReadGone
    <3>1. /\ loop'.at \in {"drop", "setScan", "clearScan"} /\ loop'.card = loop.card
          /\ loop.card \in gone /\ gone' = gone
      BY <2>4 DEF In!ReadGone, In!AfterScan, In!TypeOK, In!LoopRecord, In!fizzy
    <3> QED BY <3>1 DEF LoopKnows, Safe
  <2>5. CASE In!Record
    <3> DEFINE c == loop.card
    <3>1. /\ loop'.at \in {"setScan", "clearScan"} /\ loop'.card = c
          /\ comments' = comments /\ unread' = unread /\ gone' = gone
      BY <2>5 DEF In!Record, In!Scanned, In!AfterScan, In!TypeOK, In!LoopRecord, In!fizzy
    <3>2. CASE loop.seen = Len(comments[c])
      <4>1. SubSeq(comments[c], 1, loop.seen) = comments[c]
        BY <3>2, LoopMoves, SubSeqFull DEF In!TypeOK
      <4>2. In!ItemsOf(comments'[c]) \subseteq handled'[c]
        BY <2>5, <3>1, <4>1, LoopMoves DEF In!Record, In!Scanned, In!TypeOK
      <4> QED BY <3>1, <4>2 DEF LoopKnows, Safe
    <3>3. CASE c \in unread \cup gone
      BY <3>1, <3>3 DEF LoopKnows, Safe
    <3> QED BY <2>5, <3>2, <3>3 DEF LoopKnows, In!Record, In!Scanned
  <2>6. CASE In!SetNeedsScan
    <3>1. loop'.at = "mark" /\ loop'.card = loop.card /\ loop.card \in needsScan'
      BY <2>6 DEF In!SetNeedsScan, In!MarkCard, In!TypeOK, In!LoopRecord
    <3> QED BY <3>1 DEF LoopKnows
  <2>7. CASE In!MarkRead \/ In!MarkReadUnanswered
    <3>1. CASE loop' \in {In!Back(loop.failed), In!Back(TRUE)}
      <4>1. loop'.at \in {"rescans", "notices"}
        BY <3>1 DEF In!Back, In!Pass, In!Loop
      <4> QED BY <4>1 DEF LoopKnows
    <3>2. CASE loop' = [loop EXCEPT !.at = "read", !.scan = "again"]
      <4>1. loop'.at = "read"
        BY <3>2 DEF In!TypeOK, In!LoopRecord
      <4> QED BY <4>1 DEF LoopKnows
    <3> QED BY <2>7, <3>1, <3>2 DEF In!MarkRead, In!MarkReadUnanswered
  <2>8. CASE In!ClearNeedsScan \/ In!StepFails
    <3>1. loop'.at \notin {"record", "mark", "drop", "clearScan"}
      BY <2>8 DEF In!ClearNeedsScan, In!StepFails, In!Back, In!Pass, In!Loop
    <3> QED BY <3>1 DEF LoopKnows
  <2> QED BY <1>3, <2>1, <2>2, <2>3, <2>4, <2>5, <2>6, <2>7, <2>8 DEF In!Step
<1>4. CASE In!Crash \/ In!Restart
  BY <1>4 DEF In!Crash, In!Restart, In!Pass, In!Loop, LoopKnows
<1>5. CASE UNCHANGED intakeVars
  BY <1>5 DEF intakeVars, LoopKnows, Safe
<1> QED BY <1>1, <1>2, <1>3, <1>4, <1>5 DEF In!Next

\* A step leaves no mention without a notification or a mark: a mention makes
\* its card unread; the notification goes only after the mark is set; and the
\* mark goes only when all mentions of the card are handled or unread again.
LEMMA NoMentionLostStep ==
  ASSUME IntakeInv, [In!Next]_intakeVars
  PROVE  In!NoMentionLost'
<1> USE DEF IntakeInv
<1> DEFINE Kept(c) == Safe(c) \/ c \in needsScan
<1>1. \A c \in Cards : Kept(c)
  BY DEF In!NoMentionLost, Safe
<1>2. SUFFICES ASSUME NEW c \in Cards PROVE Kept(c)'
  BY DEF In!NoMentionLost, Safe
<1>3. ASSUME NEW m \in CardMentions, In!Mention(m) PROVE Kept(c)'
  <2>1. /\ unread' = unread \cup {CardOf[m]} /\ gone' = gone
        /\ handled' = handled /\ needsScan' = needsScan
        /\ c # CardOf[m] => comments'[c] = comments[c]
    BY <1>3 DEF In!Mention, In!TypeOK, In!store
  <2> QED BY <1>1, <2>1 DEF Safe
<1>4. ASSUME NEW d \in Cards, In!Event(d) \/ In!Delete(d) PROVE Kept(c)'
  BY <1>1, <1>4 DEF In!Event, In!Delete, Safe, In!store
<1>5. CASE In!Step
  <2>1. CASE \/ \E d \in Cards : In!NextCard(d)
             \/ In!Wake \/ In!RescansDone \/ In!Fetch
             \/ In!FetchNotModified \/ In!FetchFails
             \/ In!PassDone \/ In!Read \/ In!ReadGone \/ In!StepFails
    <3>1. UNCHANGED <<comments, handled, unread, gone, needsScan>>
      BY <2>1 DEF In!NextCard, In!Wake, In!RescansDone, In!Fetch, In!FetchNotModified,
                  In!FetchFails, In!PassDone, In!Read, In!ReadGone, In!StepFails,
                  In!fizzy, In!store
    <3> QED BY <1>1, <3>1 DEF Safe
  <2>2. CASE In!Record
    <3>1. handled[c] \subseteq handled'[c]
      BY <2>2, LoopMoves DEF In!Record, In!Scanned, In!TypeOK
    <3>2. UNCHANGED <<comments, unread, gone, needsScan>>
      BY <2>2 DEF In!Record, In!Scanned, In!fizzy
    <3> QED BY <1>1, <3>1, <3>2 DEF Safe
  <2>3. CASE In!SetNeedsScan
    BY <1>1, <2>3 DEF In!SetNeedsScan, In!MarkCard, Safe, In!fizzy
  <2>4. CASE In!MarkRead \/ In!MarkReadUnanswered
    <3>1. /\ unread' = unread \ {loop.card} /\ loop.at \in {"mark", "drop"}
          /\ UNCHANGED <<comments, handled, gone, needsScan>>
      BY <2>4 DEF In!MarkRead, In!MarkReadUnanswered, In!MarkedRead, In!store
    <3>2. loop.card \in needsScan \cup gone
      BY <3>1 DEF LoopKnows
    <3> QED BY <1>1, <3>1, <3>2 DEF Safe
  <2>5. CASE In!ClearNeedsScan
    <3>1. Safe(loop.card)
      BY <2>5 DEF In!ClearNeedsScan, LoopKnows
    <3>2. /\ needsScan' = needsScan \ {loop.card}
          /\ UNCHANGED <<comments, handled, unread, gone>>
      BY <2>5 DEF In!ClearNeedsScan, In!fizzy
    <3> QED BY <1>1, <3>1, <3>2 DEF Safe
  <2> QED BY <1>5, <2>1, <2>2, <2>3, <2>4, <2>5 DEF In!Step
<1>6. CASE In!Crash \/ In!Restart
  BY <1>1, <1>6 DEF In!Crash, In!Restart, Safe, In!fizzy, In!store
<1>7. CASE UNCHANGED intakeVars
  BY <1>1, <1>7 DEF intakeVars, Safe
<1> QED BY <1>3, <1>4, <1>5, <1>6, <1>7 DEF In!Next

\* The list of Fizzy changes only together with the etag, so a current etag
\* stands for the unread cards of the last fetch; the pass takes a card from
\* this list only to handle it, and a card that it cannot handle makes the
\* pass one that failed.
LEMMA EtagKnowsStep ==
  ASSUME IntakeInv, [In!Next]_intakeVars
  PROVE  EtagKnows'
<1> USE DEF IntakeInv
<1>1. ASSUME NEW m \in CardMentions, In!Mention(m) PROVE EtagKnows'
  BY <1>1 DEF In!Mention, In!Changed, EtagKnows, StillToHandle
<1>2. ASSUME NEW c \in Cards, In!Event(c) \/ In!Delete(c) PROVE EtagKnows'
  BY <1>2 DEF In!Event, In!Delete, In!Changed, In!memory, EtagKnows, StillToHandle
<1>3. CASE In!Step
  <2>1. ASSUME NEW c \in Cards, In!NextCard(c) PROVE EtagKnows'
    BY <2>1 DEF In!NextCard, In!Loop, In!fizzy, EtagKnows, StillToHandle
  <2>2. CASE In!Wake \/ In!PassDone
    BY <2>2 DEF In!Wake, In!PassDone, In!EtagAfter, In!Pass, In!Loop, In!fizzy, EtagKnows,
                StillToHandle
  <2>3. CASE In!RescansDone \/ In!Fetch \/ In!FetchNotModified \/ In!FetchFails
    <3>1. loop.scan = "none" /\ loop'.scan = "none" /\ unread' = unread
      BY <2>3 DEF In!RescansDone, In!Fetch, In!FetchNotModified, In!FetchFails,
                  In!fizzy, In!TypeOK, In!LoopRecord, EtagKnows
    <3>2. CASE In!RescansDone
      BY <3>1, <3>2 DEF In!RescansDone, In!TypeOK, In!LoopRecord, EtagKnows, StillToHandle
    <3>3. CASE In!Fetch
      BY <3>1, <3>3 DEF In!Fetch, In!TypeOK, In!LoopRecord, EtagKnows, StillToHandle
    <3>4. CASE In!FetchNotModified
      BY <3>1, <3>4 DEF In!FetchNotModified, In!TypeOK, In!LoopRecord, EtagKnows,
                        StillToHandle
    <3>5. CASE In!FetchFails
      BY <3>1, <3>5 DEF In!FetchFails, In!TypeOK, In!LoopRecord, EtagKnows, StillToHandle
    <3> QED BY <2>3, <3>2, <3>3, <3>4, <3>5
  <2>4. CASE In!Read
    BY <2>4 DEF In!Read, In!fizzy, In!TypeOK, In!LoopRecord, EtagKnows, StillToHandle
  <2>5. CASE In!ReadGone
    BY <2>5 DEF In!ReadGone, In!AfterScan, In!fizzy, In!TypeOK, In!LoopRecord, EtagKnows,
                StillToHandle
  <2>6. CASE In!Record
    BY <2>6 DEF In!Record, In!Scanned, In!AfterScan, In!fizzy, In!TypeOK, In!LoopRecord, EtagKnows,
                StillToHandle
  <2>7. CASE In!SetNeedsScan
    BY <2>7 DEF In!SetNeedsScan, In!fizzy, In!TypeOK, In!LoopRecord, EtagKnows,
                StillToHandle
  <2>8. CASE In!MarkRead \/ In!MarkReadUnanswered
    <3>1. etag' # "current"
      BY <2>8 DEF In!MarkRead, In!MarkReadUnanswered, In!MarkedRead, In!Changed
    <3>2. \/ loop'.at \in {"rescans", "notices"} /\ loop'.scan = "none"
          \/ loop'.at = "read"
      <4>1. CASE loop' \in {In!Back(loop.failed), In!Back(TRUE)}
        BY <4>1 DEF In!Back, In!Pass, In!Loop
      <4>2. CASE loop' = [loop EXCEPT !.at = "read", !.scan = "again"]
        BY <4>2 DEF In!TypeOK, In!LoopRecord
      <4> QED BY <2>8, <4>1, <4>2 DEF In!MarkRead, In!MarkReadUnanswered
    <3> QED BY <3>1, <3>2 DEF EtagKnows
  <2>9. CASE In!ClearNeedsScan \/ In!StepFails
    BY <2>9 DEF In!ClearNeedsScan, In!StepFails, In!Back, In!Pass, In!Loop, In!fizzy,
                In!TypeOK, In!LoopRecord, EtagKnows, StillToHandle
  <2> QED BY <1>3, <2>1, <2>2, <2>3, <2>4, <2>5, <2>6, <2>7, <2>8, <2>9 DEF In!Step
<1>4. CASE In!Crash \/ In!Restart
  BY <1>4 DEF In!Crash, In!Restart, In!Pass, In!Loop, EtagKnows
<1>5. CASE UNCHANGED intakeVars
  BY <1>5 DEF intakeVars, EtagKnows, StillToHandle
<1> QED BY <1>1, <1>2, <1>3, <1>4, <1>5 DEF In!Next

\* A card stays as it is.
LEMMA QueueOkSame ==
  ASSUME NEW c \in Cards, QueueOk(c), comments'[c] = comments[c], handled'[c] = handled[c],
         queued'[c] = queued[c]
  PROVE  QueueOk(c)'
<1>1. PICK n \in 0..Len(comments[c]) : ReadUpTo(c, n)
  BY DEF QueueOk
<1>2. In!TrustedAt(c, 1..n)' = In!TrustedAt(c, 1..n)
  BY DEF In!TrustedAt
<1>3. ReadUpTo(c, n)'
  BY <1>1, <1>2 DEF ReadUpTo
<1> QED BY <1>1, <1>3 DEF QueueOk

\* A step leaves the queue of each card the list of the mentions that were read:
\* a scan adds those after the last that was read, as only these are not
\* handled.
LEMMA QueueKnowsStep ==
  ASSUME IntakeInv, [In!Next]_intakeVars
  PROVE  QueueKnows'
<1> USE DEF IntakeInv
<1>1. \A c \in Cards : /\ comments[c] \in Seq(CardMentions) /\ Len(comments[c]) \in Nat
                       /\ queued[c] \in Seq(CardMentions)
  BY LenProperties DEF In!TypeOK
<1>2. ASSUME NEW m \in CardMentions, In!Mention(m) PROVE QueueKnows'
  <2> DEFINE d == CardOf[m]
  <2>1. d \in Cards /\ m \notin In!ItemsOf(comments[d])
    BY <1>2, IntakeAssumption DEF In!Mention
  <2>2. /\ comments' = [comments EXCEPT ![d] = Append(@, m)]
        /\ handled' = handled /\ queued' = queued
    BY <1>2 DEF In!Mention, In!store
  <2> SUFFICES ASSUME NEW c \in Cards PROVE QueueOk(c)'
    BY DEF QueueKnows
  <2>3. CASE c # d
    <3>1. comments'[c] = comments[c]
      BY <2>2, <2>3 DEF In!TypeOK
    <3> QED BY <2>2, <3>1, QueueOkSame DEF QueueKnows
  <2>4. CASE c = d
    <3>1. PICK s, r : s = comments[c] /\ r = comments'[c]
      OBVIOUS
    <3>2. /\ s \in Seq(CardMentions) /\ r \in Seq(CardMentions) /\ Len(s) \in Nat
          /\ Len(r) = Len(s) + 1 /\ r[Len(s) + 1] = m
          /\ \A k \in 1..Len(s) : r[k] = s[k]
      <4>1. r = Append(s, m)
        BY <2>2, <2>4, <3>1 DEF In!TypeOK
      <4>2. s \in Seq(CardMentions) /\ Len(s) \in Nat
        BY <1>1, <3>1
      <4> QED BY <4>1, <4>2, AppendProperties
    <3>3. \A j, k \in 1..Len(s) : s[j] = s[k] => j = k
      BY <3>1 DEF QueueKnows, QueueOk
    <3>4. \A k \in 1..Len(s) : s[k] # m
      BY <2>1, <2>4, <3>1 DEF In!ItemsOf
    <3>5. \A j, k \in 1..Len(r) : r[j] = r[k] => j = k
      BY <3>2, <3>3, <3>4
    <3>6. PICK n \in 0..Len(s) : ReadUpTo(c, n)
      BY <3>1 DEF QueueKnows, QueueOk
    <3>7. n \in 0..Len(r) /\ \A k \in 1..n : r[k] = s[k]
      BY <3>2
    <3>8. In!TrustedAt(c, 1..n)' = In!TrustedAt(c, 1..n)
      BY <3>1, <3>7 DEF In!TrustedAt
    <3>9. In!TrustedAt(c, 1..n) \in SUBSET (1..Len(s))
      BY <3>2 DEF In!TrustedAt
    <3>10. In!ItemsAt(r, In!TrustedAt(c, 1..n)) = In!ItemsAt(s, In!TrustedAt(c, 1..n))
      BY <3>2, <3>9, ItemsAtLonger
    <3>11. ReadUpTo(c, n)'
      <4>1. {s[k] : k \in 1..n} = {r[k] : k \in 1..n}
        BY <3>7
      <4> QED BY <2>2, <3>1, <3>6, <3>8, <3>10, <4>1 DEF ReadUpTo
    <3> QED BY <3>1, <3>5, <3>7, <3>11 DEF QueueOk
  <2> QED BY <2>3, <2>4
<1>3. CASE In!Record
  <2> DEFINE d == loop.card
  <2>1. /\ d \in Cards /\ loop.seen \in 0..Len(comments[d]) /\ comments' = comments
    <3>1. d \in Cards /\ loop.seen \in Nat /\ loop.seen <= Len(comments[d])
      BY <1>3, LoopMoves DEF In!Record, In!Scanned, LoopKnows
    <3>2. Len(comments[d]) \in Nat
      BY <1>1, <3>1
    <3> QED BY <1>3, <3>1, <3>2 DEF In!Record, In!Scanned, In!fizzy
  <2>2. /\ handled' = [handled EXCEPT ![d] =
                         @ \cup In!ItemsOf(SubSeq(comments[d], 1, loop.seen))]
        /\ queued' = [queued EXCEPT ![d] =
                        @ \o In!ItemsAt(comments[d], In!TrustedAt(d, In!Triggers(d)))]
    BY <1>3 DEF In!Record, In!Scanned
  <2> SUFFICES ASSUME NEW c \in Cards PROVE QueueOk(c)'
    BY DEF QueueKnows
  <2>3. CASE c # d
    <3>1. handled'[c] = handled[c] /\ queued'[c] = queued[c]
      BY <2>2, <2>3 DEF In!TypeOK
    <3> QED BY <2>1, <3>1, QueueOkSame DEF QueueKnows
  <2>4. CASE c = d
    <3>1. PICK s, z : s = comments[c] /\ z = loop.seen
      OBVIOUS
    <3>2. s \in Seq(CardMentions) /\ Len(s) \in Nat /\ z \in 0..Len(s)
      BY <1>1, <2>1, <2>4, <3>1
    <3>3. \A j, k \in 1..Len(s) : s[j] = s[k] => j = k
      BY <3>1 DEF QueueKnows, QueueOk
    <3>4. PICK n \in 0..Len(s) : ReadUpTo(c, n)
      BY <3>1 DEF QueueKnows, QueueOk
    <3>5. In!ItemsOf(SubSeq(s, 1, z)) = {s[k] : k \in 1..z}
      BY <3>2, ItemsOfFirst
    <3>6. handled'[c] = {s[k] : k \in 1..n} \cup {s[k] : k \in 1..z}
      BY <2>2, <2>4, <3>1, <3>4, <3>5 DEF ReadUpTo, In!TypeOK
    <3>7. In!Triggers(c) = {k \in 1..z : k \notin 1..n}
      <4>1. \A k \in 1..z : s[k] \in handled[c] <=> k \in 1..n
        BY <3>1, <3>2, <3>3, <3>4 DEF ReadUpTo
      <4> QED BY <3>1, <4>1 DEF In!Triggers
    <3> DEFINE old == In!TrustedAt(c, 1..n)
               new == In!TrustedAt(c, In!Triggers(c))
    <3>8. /\ old \in SUBSET (1..Len(s)) /\ new \in SUBSET (1..Len(s))
          /\ \A j \in old, k \in new : j < k
      BY <3>2, <3>7 DEF In!TrustedAt
    <3>9. queued'[c] = In!ItemsAt(s, old) \o In!ItemsAt(s, new)
      BY <2>2, <2>4, <3>1, <3>4 DEF ReadUpTo, In!TypeOK
    <3>10. queued'[c] = In!ItemsAt(s, old \cup new)
      BY <3>2, <3>8, <3>9, ItemsAtBoth
    <3>11. PICK most \in 0..Len(s) : 1..most = (1..n) \cup (1..z)
      <4>1. CASE n <= z
        BY <3>2, <4>1
      <4>2. CASE z <= n
        BY <3>2, <4>2
      <4> QED BY <3>2, <4>1, <4>2
    <3>12. old \cup new = In!TrustedAt(c, 1..most)
      BY <3>7, <3>11 DEF In!TrustedAt
    <3>13. handled'[c] = {s[k] : k \in 1..most}
      BY <3>6, <3>11
    <3>14. In!TrustedAt(c, 1..most)' = In!TrustedAt(c, 1..most) /\ comments'[c] = s
      BY <2>1, <3>1 DEF In!TrustedAt
    <3>15. ReadUpTo(c, most)'
      BY <3>10, <3>12, <3>13, <3>14 DEF ReadUpTo
    <3> QED BY <3>3, <3>14, <3>15 DEF QueueOk
  <2> QED BY <2>3, <2>4
<1>4. CASE UNCHANGED <<comments, handled, queued>>
  BY <1>4, QueueOkSame DEF QueueKnows
<1>5. ASSUME NEW c \in Cards, In!Event(c) \/ In!Delete(c) \/ In!NextCard(c)
      PROVE  UNCHANGED <<comments, handled, queued>>
  BY <1>5 DEF In!Event, In!Delete, In!NextCard, In!fizzy, In!store
<1>6. CASE \/ In!Wake \/ In!RescansDone \/ In!Fetch \/ In!FetchNotModified \/ In!FetchFails
           \/ In!PassDone \/ In!Read \/ In!ReadGone \/ In!SetNeedsScan \/ In!MarkRead
           \/ In!MarkReadUnanswered \/ In!ClearNeedsScan \/ In!StepFails
           \/ In!Crash \/ In!Restart \/ UNCHANGED intakeVars
  BY <1>4, <1>6 DEF In!Wake, In!RescansDone, In!Fetch, In!FetchNotModified, In!FetchFails,
                    In!PassDone, In!Read, In!ReadGone, In!SetNeedsScan, In!MarkRead,
                    In!MarkReadUnanswered, In!MarkedRead, In!ClearNeedsScan, In!StepFails,
                    In!Crash, In!Restart, In!fizzy, In!store, intakeVars
<1> QED BY <1>2, <1>3, <1>4, <1>5, <1>6 DEF In!Next, In!Step

LEMMA IntakeAlways == PartsSpec => []IntakeInv
<1>1. PartsInit => IntakeInv
  BY IntakeInit DEF PartsInit
<1>2. IntakeInv /\ [PartsNext]_partsVars => IntakeInv'
  BY TypesStep, LoopKnowsStep, EtagKnowsStep, QueueKnowsStep, NoMentionLostStep
     DEF IntakeInv, PartsNext, partsVars
<1> QED BY <1>1, <1>2, PTL DEF PartsSpec

\* For all cards, mentions and numbers of crashes: as long as a mention on a
\* card that the bot can read is not handled, the card has an unread
\* notification or the durable mark of handleNotification, also in the middle
\* of a pass of the fetch loop, so a crash at any step loses no mention.
THEOREM MentionsKept == PartsSpec => []NoMentionLost
<1>1. IntakeInv => NoMentionLost
  BY DEF IntakeInv, NoMentionLost
<1> QED BY <1>1, IntakeAlways, PTL

\* For all cards, mentions, other events and failures: while fetchLoop waits
\* with an etag for which Fizzy answers "not modified", no card has an unread
\* notification, so a later fetch that stops at ErrNotModified leaves nothing
\* behind, also after a pass in which one of the cards failed.
THEOREM NothingBehindEtag == PartsSpec => []NotModifiedMissesNothing
<1>1. IntakeInv => NotModifiedMissesNothing
  BY DEF IntakeInv, EtagKnows, StillToHandle, NotModifiedMissesNothing,
         In!NotModifiedMissesNothing
<1> QED BY <1>1, IntakeAlways, PTL

\* The queue of each card is the list of the mentions by trusted people up to
\* some comment, each once and in the order of the card, for any number of scans
\* that repeat each other, fail, or are cut off by a crash: what a scan appends
\* is what comes after the comments that are handled (checkCard, findTriggers).
THEOREM QueueIsOfTheCard == PartsSpec => []QueuedOnceInOrder
<1>1. IntakeInv => QueuedOnceInOrder
  BY DEF IntakeInv, QueueKnows, QueueOk, ReadUpTo, QueuedOnceInOrder, In!QueuedOnceInOrder
<1> QED BY <1>1, IntakeAlways, PTL

\* Every step of the fetch loop and of Fizzy keeps the types of the intake; the
\* queues need that a scan records no more comments than the card has.
THEOREM IntakeTyped == PartsSpec => []In!TypeOK
<1>1. IntakeInv => In!TypeOK
  BY DEF IntakeInv
<1> QED BY <1>1, IntakeAlways, PTL

-----------------------------------------------------------------------------
(* The refinement of Mailbox *)

\* The places of card c that are handled: what the mapping gives for taken.
PlacesOf(s, S) == {k \in DOMAIN s : s[k] \in S}
Places(c) == PlacesOf(comments[c], handled[c])
AllPlaces == [c \in Cards |-> Places(c)]
mailVars == <<comments, AllPlaces, queued>>

\* The places of the first items are the first places.
LEMMA PlacesAre ==
  ASSUME NEW M, NEW s \in Seq(M), NEW n \in 0..Len(s),
         \A j, k \in 1..Len(s) : s[j] = s[k] => j = k
  PROVE  PlacesOf(s, {s[k] : k \in 1..n}) = 1..n
<1>1. DOMAIN s = 1..Len(s) /\ Len(s) \in Nat
  BY LenProperties
<1> DEFINE S == {s[k] : k \in 1..n}
<1>2. \A k \in 1..Len(s) : s[k] \in S <=> k \in 1..n
  BY <1>1
<1> QED BY <1>1, <1>2 DEF PlacesOf

LEMMA MailInit == In!Init => In!Promise!Init
<1> SUFFICES ASSUME In!Init PROVE In!Promise!Init
  OBVIOUS
<1>1. \A c \in Cards : Places(c) = {}
  BY EmptySeq DEF In!Init, Places, PlacesOf
<1> QED BY <1>1 DEF In!Init, In!Promise!Init, Places, PlacesOf

\* A mention that is written is not handled yet.
LEMMA MentionIsWrite ==
  ASSUME IntakeInv, NEW m \in CardMentions, In!Mention(m)
  PROVE  In!Promise!Write(m)
<1> DEFINE d == CardOf[m]
<1>0. PICK s : s = comments[d]
  OBVIOUS
<1>1. /\ d \in Cards /\ m \notin In!ItemsOf(s)
      /\ comments' = [comments EXCEPT ![d] = Append(@, m)]
      /\ handled' = handled /\ queued' = queued
  BY <1>0, IntakeAssumption DEF In!Mention, In!store
<1>2. s \in Seq(CardMentions) /\ comments \in [Cards -> Seq(CardMentions)]
  BY <1>0, <1>1 DEF IntakeInv, In!TypeOK
<1>3. /\ Len(s) \in Nat /\ DOMAIN s = 1..Len(s)
      /\ DOMAIN Append(s, m) = 1..Len(s) + 1
      /\ \A k \in 1..Len(s) : Append(s, m)[k] = s[k]
      /\ Append(s, m)[Len(s) + 1] = m
  BY <1>2, AppendProperties, LenProperties
<1>4. \A k \in DOMAIN s : s[k] # m
  BY <1>1, <1>3 DEF In!ItemsOf
<1>5. m \notin handled[d]
  <2>1. PICK n \in 0..Len(s) : ReadUpTo(d, n)
    BY <1>0, <1>1 DEF IntakeInv, QueueKnows, QueueOk
  <2>2. handled[d] = {s[k] : k \in 1..n} /\ 1..n \subseteq DOMAIN s
    BY <1>0, <1>3, <2>1 DEF ReadUpTo
  <2> QED BY <1>4, <2>2
<1>6. \A c \in Cards : Places(c)' = Places(c)
  <2> SUFFICES ASSUME NEW c \in Cards PROVE Places(c)' = Places(c)
    OBVIOUS
  <2>1. CASE c # d
    BY <1>1, <1>2, <2>1 DEF Places, PlacesOf
  <2>2. CASE c = d
    <3>1. comments'[c] = Append(s, m)
      BY <1>0, <1>1, <1>2, <2>2
    <3>2. ASSUME NEW k PROVE k \in Places(c)' <=> k \in Places(c)
      <4>1. k \in Places(c)' <=> k \in 1..Len(s) + 1 /\ Append(s, m)[k] \in handled[d]
        BY <1>1, <1>3, <2>2, <3>1 DEF Places, PlacesOf
      <4>2. k \in Places(c) <=> k \in 1..Len(s) /\ s[k] \in handled[d]
        BY <1>0, <1>3, <2>2 DEF Places, PlacesOf
      <4>3. CASE k = Len(s) + 1
        BY <1>3, <1>5, <4>1, <4>2, <4>3
      <4>4. CASE k # Len(s) + 1
        BY <1>3, <4>1, <4>2, <4>4
      <4> QED BY <4>3, <4>4
    <3> QED BY <3>2
  <2> QED BY <2>1, <2>2
<1>7. AllPlaces' = AllPlaces
  BY <1>6 DEF AllPlaces
<1> QED BY <1>0, <1>1, <1>4, <1>7 DEF In!Promise!Write, AllPlaces, Places, PlacesOf

\* A scan takes the comments that it read, or nothing new.
LEMMA RecordIsTake ==
  ASSUME IntakeInv, In!Record
  PROVE  \/ \E c \in Cards : \E n \in DOMAIN comments[c] : In!Promise!Take(c, n)
         \/ UNCHANGED mailVars
<1>0. PICK d, s, z : d = loop.card /\ s = comments[d] /\ z = loop.seen
  OBVIOUS
<1>1. /\ d \in Cards /\ z \in Nat /\ s \in Seq(CardMentions) /\ z \in 0..Len(s)
      /\ Len(s) \in Nat /\ DOMAIN s = 1..Len(s) /\ comments' = comments
      /\ queued[d] \in Seq(CardMentions)
  <2>1. d \in Cards /\ z \in Nat /\ z <= Len(s)
    BY <1>0, LoopMoves DEF IntakeInv, In!Record, In!Scanned, LoopKnows
  <2>2. s \in Seq(CardMentions) /\ queued[d] \in Seq(CardMentions)
    BY <1>0, <2>1 DEF IntakeInv, In!TypeOK
  <2> QED BY <2>1, <2>2, LenProperties DEF In!Record, In!Scanned, In!fizzy
<1>2. /\ handled' = [handled EXCEPT ![d] = @ \cup {s[k] : k \in 1..z}]
      /\ queued' = [queued EXCEPT ![d] =
                      @ \o In!ItemsAt(s, In!TrustedAt(d, In!Triggers(d)))]
  <2>1. In!ItemsOf(SubSeq(s, 1, z)) = {s[k] : k \in 1..z}
    BY <1>1, ItemsOfFirst
  <2> QED BY <1>0, <2>1 DEF In!Record, In!Scanned
<1>3. \A j, k \in 1..Len(s) : s[j] = s[k] => j = k
  BY <1>0, <1>1 DEF IntakeInv, QueueKnows, QueueOk
<1>4. PICK n \in 0..Len(s) : handled[d] = {s[k] : k \in 1..n}
  <2>1. QueueOk(d)
    BY <1>1 DEF IntakeInv, QueueKnows
  <2>2. PICK n \in 0..Len(s) : ReadUpTo(d, n)
    BY <1>0, <2>1 DEF QueueOk
  <2>3. handled[d] = {s[k] : k \in 1..n}
    BY <1>0, <2>2 DEF ReadUpTo
  <2> QED BY <2>3
<1>5. Places(d) = 1..n
  BY <1>0, <1>1, <1>3, <1>4, PlacesAre DEF Places
<1>6. handled'[d] = {s[k] : k \in 1..n} \cup {s[k] : k \in 1..z}
  BY <1>1, <1>2, <1>4 DEF IntakeInv, In!TypeOK
<1>7. \A c \in Cards : c # d => Places(c)' = Places(c)
  BY <1>1, <1>2 DEF Places, PlacesOf, IntakeInv, In!TypeOK
<1>8. In!Triggers(d) = (1..z) \ (1..n)
  <2>1. \A k \in 1..z : s[k] \in handled[d] <=> k \in 1..n
    BY <1>1, <1>3, <1>4
  <2> QED BY <1>0, <2>1 DEF In!Triggers
<1>9. CASE z <= n
  <2>1. handled'[d] = handled[d] /\ In!Triggers(d) = {}
    BY <1>1, <1>4, <1>6, <1>8, <1>9
  <2>2. handled' = handled
    BY <1>1, <1>2, <2>1 DEF IntakeInv, In!TypeOK
  <2>3. In!ItemsAt(s, In!TrustedAt(d, In!Triggers(d))) = <<>>
    BY <1>1, <2>1, NothingAt DEF In!TrustedAt
  <2>4. queued'[d] = queued[d]
    BY <1>1, <1>2, <2>3, ConcatEmptySeq DEF IntakeInv, In!TypeOK
  <2>5. queued' = queued
    BY <1>1, <1>2, <2>4 DEF IntakeInv, In!TypeOK
  <2> QED BY <1>1, <2>2, <2>5 DEF mailVars, AllPlaces, Places, PlacesOf
<1>10. CASE n < z
  <2>1. handled'[d] = {s[k] : k \in 1..z}
    BY <1>1, <1>4, <1>6, <1>10
  <2>2. Places(d)' = 1..z
    <3>1. comments'[d] = s
      BY <1>0, <1>1
    <3>2. PlacesOf(s, {s[k] : k \in 1..z}) = 1..z
      BY <1>1, <1>3, PlacesAre
    <3> QED BY <2>1, <3>1, <3>2 DEF Places
  <2>3. AllPlaces' = [AllPlaces EXCEPT ![d] = 1..z]
    <3>1. \A c \in Cards : Places(c)' = IF c = d THEN 1..z ELSE Places(c)
      BY <1>7, <2>2
    <3> QED BY <1>1, <3>1 DEF AllPlaces
  <2>4. z \in DOMAIN s /\ (1..z) \ (1..n) # {} /\ 1..n \subseteq 1..z
    <3>1. z \in (1..z) \ (1..n)
      BY <1>1, <1>4, <1>10
    <3>2. 1..n \subseteq 1..z
      BY <1>1, <1>4, <1>10
    <3>3. z \in DOMAIN s
      BY <1>1, <1>4, <1>10
    <3> QED BY <3>1, <3>2, <3>3
  <2>5. AllPlaces[d] = 1..n
    BY <1>1, <1>5 DEF AllPlaces
  <2> DEFINE new == {k \in (1..z) \ AllPlaces[d] : s[k] \in Trusted}
  <2>6. In!TrustedAt(d, In!Triggers(d)) = new
    BY <1>0, <1>8, <2>5 DEF In!TrustedAt
  <2>7. In!ItemsAt(s, new) = In!Promise!ItemsAt(s, new)
    <3>1. \A S : In!Cardinality(S) = In!Promise!Cardinality(S)
      BY DEF In!Cardinality, In!Promise!Cardinality
    <3>2. In!InOrder(new) = In!Promise!InOrder(new)
      BY <3>1 DEF In!InOrder, In!Promise!InOrder
    <3> HIDE DEF new
    <3> QED BY <3>1, <3>2 DEF In!ItemsAt, In!Promise!ItemsAt
  <2>8. queued' = [queued EXCEPT ![d] = @ \o In!Promise!ItemsAt(s, new)]
    BY <1>2, <2>6, <2>7
  <2>9. In!Promise!Take(d, z)
    BY <1>0, <1>1, <2>3, <2>4, <2>5, <2>8 DEF In!Promise!Take, AllPlaces, Places, PlacesOf
  <2>10. z \in DOMAIN comments[d]
    BY <1>0, <2>4
  <2> QED BY <1>1, <2>9, <2>10
<1> QED BY <1>1, <1>4, <1>9, <1>10

LEMMA MailStep ==
  ASSUME IntakeInv, [In!Next]_intakeVars
  PROVE  [In!Promise!Next]_(In!Promise!vars)
<1>1. ASSUME UNCHANGED mailVars PROVE UNCHANGED In!Promise!vars
  BY <1>1 DEF mailVars, In!Promise!vars, AllPlaces, Places, PlacesOf
<1>2. ASSUME NEW m \in CardMentions, In!Mention(m) PROVE In!Promise!Next
  BY <1>2, MentionIsWrite DEF In!Promise!Next
<1>3. CASE In!Record
  BY <1>1, <1>3, RecordIsTake DEF In!Promise!Next
<1>4. ASSUME UNCHANGED <<comments, handled, queued>> PROVE UNCHANGED mailVars
  BY <1>4 DEF mailVars, AllPlaces, Places, PlacesOf
<1>5. ASSUME NEW c \in Cards, In!Event(c) \/ In!Delete(c) \/ In!NextCard(c)
      PROVE  UNCHANGED <<comments, handled, queued>>
  BY <1>5 DEF In!Event, In!Delete, In!NextCard, In!fizzy, In!store
<1>6. CASE \/ In!Wake \/ In!RescansDone \/ In!Fetch \/ In!FetchNotModified
           \/ In!FetchFails \/ In!PassDone \/ In!Read \/ In!ReadGone
           \/ In!SetNeedsScan \/ In!MarkRead \/ In!MarkReadUnanswered
           \/ In!ClearNeedsScan \/ In!StepFails
           \/ In!Crash \/ In!Restart \/ UNCHANGED intakeVars
  <2>1. UNCHANGED <<comments, handled, queued>>
    BY <1>6 DEF In!Wake, In!RescansDone, In!Fetch, In!FetchNotModified, In!FetchFails,
                In!PassDone, In!Read, In!ReadGone, In!SetNeedsScan, In!MarkRead,
                In!MarkReadUnanswered, In!MarkedRead, In!ClearNeedsScan, In!StepFails,
                In!Crash, In!Restart, In!fizzy, In!store, intakeVars
  <2> QED BY <1>1, <1>4, <2>1
<1> QED BY <1>1, <1>2, <1>3, <1>4, <1>5, <1>6 DEF In!Next, In!Step

\* The fetch loop implements Mailbox: in every behaviour, with any failures and
\* crashes, each step writes a comment, takes what a card has up to some comment
\* (fetch, handleNotification, rescan and checkCard change nothing else of the
\* queue), or is a stutter.
THEOREM ImplementsMailbox == PartsSpec => MailKept
<1>1. PartsInit => In!Promise!Init
  BY MailInit DEF PartsInit
<1>2. IntakeInv /\ [PartsNext]_partsVars => [In!Promise!Next]_(In!Promise!vars)
  BY MailStep DEF PartsNext, partsVars
<1> QED BY <1>1, <1>2, IntakeAlways, PTL
       DEF PartsSpec, MailKept, In!KeepsPromise, In!Promise!Spec
===============================================================================
