--------------------------- MODULE ModelNodeProofs ---------------------------
(***************************************************************************)
(* The two sides of a turn of the model.  What goes out: whatever the      *)
(* history went through, the request made of it is one the providers       *)
(* accept, and while the conversation fits the window it shows the current *)
(* turn.  What comes in: however the fragments of a response's calls       *)
(* interleave, and however the provider labels them, each call is          *)
(* assembled from its own fragments.  Both for any number of messages,     *)
(* calls and fragments.                                                    *)
(***************************************************************************)
EXTENDS LlmContext, ModelStream, FiniteSetTheorems, SequenceTheorems, WellFoundedInduction, TLAPS

-----------------------------------------------------------------------------
(* The request: positions and parts of a list *)

\* A set of positions that is not empty has a least and a greatest.
LEMMA LeastPosition ==
    ASSUME NEW I \in SUBSET Nat, I # {}
    PROVE  Min(I) \in I /\ \A i \in I : Min(I) <= i
<1> DEFINE less == OpToRel(<, Nat)
<1>1. IsWellFoundedOn(less, Nat)
  BY NatLessThanWellFounded
<1>0. \A x, y \in Nat : x < y => <<x, y>> \in less
  BY DEF OpToRel
<1> HIDE DEF less
<1>2. PICK x \in I : \A y \in I : ~(<<y, x>> \in less)
  BY <1>1, WFMin
<1>3. ASSUME NEW y \in I PROVE x <= y
  <2>1. x \in Nat /\ y \in Nat /\ ~(<<y, x>> \in less)
    BY <1>2
  <2>2. ~(y < x)
    BY <1>0, <2>1
  <2> QED BY <2>1, <2>2
<1> QED BY <1>2, <1>3 DEF Min

\* And a set of positions of a list has a greatest.
LEMMA GreatestPosition ==
    ASSUME NEW n \in Nat, NEW I \in SUBSET (1..n), I # {}
    PROVE  Max(I) \in I /\ \A i \in I : Max(I) >= i
<1> DEFINE J == {j \in 0..n : n - j \in I}
<1>1. J \in SUBSET Nat /\ J # {}
  <2>1. PICK i \in I : TRUE
    OBVIOUS
  <2>2. i \in 1..n
    BY <2>1
  <2>3. n - i \in 0..n /\ n - (n - i) = i
    BY <2>2
  <2>4. n - i \in J
    BY <2>1, <2>3
  <2>5. \A j \in J : j \in Nat
    OBVIOUS
  <2> QED BY <2>4, <2>5
<1> HIDE DEF J
<1>2. Min(J) \in J /\ \A j \in J : Min(J) <= j
  BY <1>1, LeastPosition
<1>3. \A i \in I : n - i \in J
  BY DEF J
<1>4. n - Min(J) \in I /\ \A i \in I : n - Min(J) >= i
  BY <1>2, <1>3 DEF J
<1> QED BY <1>4 DEF Max

\* Element n of r is the one at position g[n] of s, and g lists I in order.
Lists(r, s, I, g) ==
    /\ g \in [DOMAIN r -> I]
    /\ \A n \in DOMAIN r : r[n] = s[g[n]]
    /\ \A m, n \in DOMAIN r : m < n => g[m] < g[n]
    /\ \A i \in I : \E n \in DOMAIN r : g[n] = i

\* The n-th element of a picked list comes from the n-th of the positions.
LEMMA PickedFacts ==
    ASSUME NEW T, NEW s \in Seq(T), NEW I \in SUBSET (1..Len(s)), NEW r, r = Picked(s, I)
    PROVE  /\ r \in Seq(T)
           /\ Len(r) = Cardinality(I)
           /\ Cardinality(I) \in Nat
           /\ \E g : Lists(r, s, I, g)
<1> DEFINE c == Cardinality(I)
           upto(i) == {j \in I : j <= i}
           rank == [i \in I |-> Rank(I, i)]
           g == [n \in 1..c |-> CHOOSE i \in I : Rank(I, i) = n]
<1>1. Len(s) \in Nat /\ IsFiniteSet(I) /\ c \in Nat
  <2>1. Len(s) \in Nat
    BY LenProperties
  <2>2. IsFiniteSet(1..Len(s))
    BY <2>1, FS_Interval
  <2> QED BY <2>1, <2>2, FS_Subset, FS_CardinalityType
<1>2. ASSUME NEW i \in I PROVE IsFiniteSet(upto(i)) /\ Cardinality(upto(i)) \in Nat
                              /\ Cardinality(upto(i)) <= c /\ Cardinality(upto(i)) # 0
  <2>1. upto(i) \in SUBSET I
    OBVIOUS
  <2>2. IsFiniteSet(upto(i)) /\ Cardinality(upto(i)) <= c
    BY <1>1, <2>1, FS_Subset
  <2>3. i \in upto(i)
    BY <1>1
  <2> QED BY <2>2, <2>3, FS_CardinalityType, FS_EmptySet
<1>3. ASSUME NEW i \in I, NEW j \in I, i < j PROVE Rank(I, i) < Rank(I, j)
  <2>1. upto(i) \in SUBSET upto(j)
    <3>1. I \subseteq Int
      BY <1>1
    <3>2. ASSUME NEW k \in I, k <= i PROVE k <= j
      <4>1. k \in Int /\ i \in Int /\ j \in Int
        BY <3>1
      <4> QED BY <1>3, <3>2, <4>1
    <3> QED BY <3>2
  <2>2. j \in upto(j) /\ j \notin upto(i)
    BY <1>1, <1>3
  <2>3. Cardinality(upto(i)) <= Cardinality(upto(j)) /\ Cardinality(upto(i)) # Cardinality(upto(j))
    BY <1>2, <2>1, <2>2, FS_Subset
  <2> QED BY <1>2, <2>3 DEF Rank
<1>4. rank \in [I -> 1..c]
  BY <1>1, <1>2 DEF Rank
<1>5. rank \in Injection(I, 1..c)
  <2>1. ASSUME NEW i \in I, NEW j \in I, rank[i] = rank[j] PROVE i = j
    <3>1. i \in Int /\ j \in Int /\ Rank(I, i) = Rank(I, j) /\ Rank(I, i) \in Int
      BY <1>1, <1>4, <2>1
    <3> QED BY <1>3, <3>1
  <2> QED BY <1>4, <2>1 DEF Injection, IsInjective
<1>6. rank \in Surjection(I, 1..c)
  <2>1. IsFiniteSet(1..c) /\ Cardinality(1..c) = c
    BY <1>1, FS_Interval
  <2> QED BY <1>5, <2>1, FS_Injection
<1>7. ASSUME NEW n \in 1..c PROVE g[n] \in I /\ Rank(I, g[n]) = n
  <2>1. \E i \in I : Rank(I, i) = n
    BY <1>6 DEF Surjection
  <2> QED BY <2>1
<1>8. g \in [1..c -> I]
  BY <1>7
<1>9. \A n \in 1..c : r[n] = s[g[n]]
  BY DEF Picked
<1>10. ASSUME NEW m \in 1..c, NEW n \in 1..c, m < n PROVE g[m] < g[n]
  <2> HIDE DEF g
  <2>1. /\ g[m] \in I /\ g[n] \in I /\ Rank(I, g[m]) = m /\ Rank(I, g[n]) = n
        /\ g[m] \in Int /\ g[n] \in Int
    <3>1. I \subseteq Int
      BY <1>1
    <3> QED BY <1>7, <3>1
  <2>2. ~(g[n] < g[m])
    BY <1>3, <1>10, <2>1
  <2>3. g[n] # g[m]
    BY <1>10, <2>1
  <2> QED BY <2>1, <2>2, <2>3
<1>11. ASSUME NEW i \in I PROVE \E n \in 1..c : g[n] = i
  <2>1. Rank(I, i) \in 1..c
    BY <1>4
  <2>2. g[Rank(I, i)] \in I /\ Rank(I, g[Rank(I, i)]) = Rank(I, i)
    BY <1>7, <2>1
  <2> HIDE DEF g
  <2>3. g[Rank(I, i)] = i
    <3> DEFINE j == g[Rank(I, i)]
    <3>0. I \subseteq Int /\ j \in I /\ Rank(I, j) = Rank(I, i)
      BY <1>1, <2>2
    <3> HIDE DEF j
    <3>1. j \in I /\ Rank(I, j) = Rank(I, i) /\ j \in Int /\ i \in Int /\ Rank(I, i) \in Int
      BY <1>1, <2>1, <3>0
    <3>2. j = i
      BY <1>3, <3>1
    <3> QED BY <3>2 DEF j
  <2> QED BY <2>1, <2>3
<1>12. r \in Seq(T) /\ Len(r) = c
  <2>1. ASSUME NEW n \in 1..c PROVE s[g[n]] \in T
    <3>1. g[n] \in 1..Len(s)
      BY <1>7
    <3> HIDE DEF g
    <3> QED BY <3>1
  <2>2. r = [n \in 1..c |-> s[g[n]]]
    BY DEF Picked
  <2> HIDE DEF g, c
  <2> QED BY <1>1, <2>1, <2>2, IsASeq
<1>13. DOMAIN r = 1..c
  BY <1>1, <1>12
<1> HIDE DEF g, c
<1>14. Lists(r, s, I, g)
  BY <1>8, <1>9, <1>10, <1>11, <1>13 DEF Lists
<1> QED BY <1>1, <1>12, <1>14 DEF c

-----------------------------------------------------------------------------
(* The inductive invariant *)

Message == [role : {"user", "assistant", "tool", "system"}, tool_calls : Seq(Nat),
            tool_call_id : Nat, reasoning_content : BOOLEAN, at : Nat]

\* A message knows its place, and only the assistant calls.
HistoryHolds ==
    /\ history \in Seq(Message)
    /\ \A i \in DOMAIN history :
          /\ history[i].at = i
          /\ history[i].role # "assistant" => history[i].tool_calls = <<>>

Answers(i, id) == IsTool(history[i]) /\ history[i].tool_call_id = id

\* Ids are given to one call each, and a call is answered once; one that is pending
\* not yet.
IdsGiven(n) ==
    /\ UNION {CallIds(history[i]) : i \in DOMAIN history} = 1..n
    /\ \A i \in DOMAIN history : \A id \in Nat : Answers(i, id) => id \in 1..n
    /\ pendingCalls \in Seq(1..n)

CallsApart ==
    \A i, j \in DOMAIN history : CallIds(history[i]) \cap CallIds(history[j]) # {} => i = j

AnswersApart ==
    \A i, j \in DOMAIN history : \A id \in Nat : Answers(i, id) /\ Answers(j, id) => i = j

PendingUnanswered ==
    \A k \in DOMAIN pendingCalls :
       /\ \A i \in DOMAIN history : ~Answers(i, pendingCalls[k])
       /\ \A l \in DOMAIN pendingCalls : pendingCalls[k] = pendingCalls[l] => k = l

CallsHold ==
    /\ \E n \in Nat : IdsGiven(n)
    /\ CallsApart
    /\ AnswersApart
    /\ PendingUnanswered

\* Between a call and its answer there are only answers and what users said while
\* the gate was waiting for them.
OnlyAnswers(i, j) == \A k \in i + 1..j : IsTool(history[k]) \/ IsUser(history[k])

AnswersInOrder ==
    \A i, j \in DOMAIN history :
       IsTool(history[j]) /\ history[j].tool_call_id \in CallIds(history[i]) => OnlyAnswers(i, j)

PendingInOrder ==
    pendingCalls # <<>> =>
       \E i \in DOMAIN history :
          ToSet(pendingCalls) \subseteq CallIds(history[i]) /\ OnlyAnswers(i, Len(history))

\* Only the gate runs with calls pending, and memory is recalled for a user's message.
NodeHolds ==
    /\ node \in {"memory_prepare", "model", "verification"} => pendingCalls = <<>>
    /\ recalled => \E i \in DOMAIN history : IsUser(history[i])

ContextInv ==
    /\ HistoryHolds
    /\ CallsHold
    /\ AnswersInOrder
    /\ PendingInOrder
    /\ NodeHolds
    /\ provider \in {"rejects", "thinks", "unknown"}
    /\ recalled \in BOOLEAN
    /\ node \in {"idle", "gate", "memory_prepare", "model", "verification"}
    /\ RequestWellFormed

-----------------------------------------------------------------------------
(* Lists drawn from the history *)

\* The message is one of the history, or one made for the request.
Drawn(m) ==
    IF m.at = 0 THEN m = Plain("system", 0) ELSE m.at \in DOMAIN history /\ m = history[m.at]

\* The list has no message of the history twice.
DrawnList(msgs) ==
    /\ msgs \in Seq(Message)
    /\ \A n \in DOMAIN msgs : Drawn(msgs[n])
    /\ \A m, n \in DOMAIN msgs : msgs[m].at = msgs[n].at /\ msgs[m].at # 0 => m = n

Apart(s, t) ==
    \A m \in DOMAIN s, n \in DOMAIN t : s[m].at = t[n].at => s[m].at = 0

\* Picking positions keeps a list drawn.
LEMMA DrawnPicked ==
    ASSUME NEW s, DrawnList(s), NEW I \in SUBSET (DOMAIN s), NEW r, r = Picked(s, I)
    PROVE  /\ DrawnList(r)
           /\ \A n \in DOMAIN r : \E i \in I : r[n] = s[i]
<1>1. s \in Seq(Message) /\ Len(s) \in Nat /\ DOMAIN s = 1..Len(s)
  BY DEF DrawnList
<1>2. r \in Seq(Message)
  BY <1>1, PickedFacts
<1>3. PICK g : Lists(r, s, I, g)
  BY <1>1, PickedFacts
<1>4. DOMAIN r = 1..Len(r) /\ Len(r) \in Nat
  BY <1>2
<1>5. \A n \in DOMAIN r : g[n] \in I /\ g[n] \in DOMAIN s /\ r[n] = s[g[n]]
  BY <1>3 DEF Lists
<1>6. ASSUME NEW m \in DOMAIN r, NEW n \in DOMAIN r, r[m].at = r[n].at, r[m].at # 0 PROVE m = n
  <2>1. g[m] = g[n]
    BY <1>5, <1>6 DEF DrawnList
  <2>2. m \in Int /\ n \in Int /\ g[m] \in Int /\ g[n] \in Int
    BY <1>1, <1>4, <1>5
  <2>3. ~(m < n) /\ ~(n < m)
    BY <1>3, <2>1, <2>2 DEF Lists
  <2> QED BY <2>2, <2>3
<1>7. \A n \in DOMAIN r : Drawn(r[n])
  BY <1>5 DEF DrawnList
<1> QED BY <1>2, <1>5, <1>6, <1>7 DEF DrawnList

IsPart(r, s, a, b) == r = SubSeq(s, a, b)

\* So does taking a part of it.
LEMMA DrawnPart ==
    ASSUME NEW s, DrawnList(s), NEW a \in Nat, NEW b \in Nat, NEW r,
           1 <= a, a <= b + 1, b <= Len(s), IsPart(r, s, a, b)
    PROVE  /\ DrawnList(r)
           /\ Len(r) = b - a + 1
           /\ \A n \in DOMAIN r : a + n - 1 \in DOMAIN s /\ r[n] = s[a + n - 1]
<1>1. s \in Seq(Message) /\ Len(s) \in Nat /\ DOMAIN s = 1..Len(s)
  BY DEF DrawnList
<1>2. /\ r \in Seq(Message) /\ Len(r) = b - a + 1
      /\ \A n \in 1..b - a + 1 : r[n] = s[a + n - 1]
  <2>1. a \in 1..Len(s) + 1 /\ b \in a - 1..Len(s)
    BY <1>1
  <2> QED BY <1>1, <2>1, SubSeqProperties DEF IsPart
<1>3. DOMAIN r = 1..b - a + 1
  BY <1>2
<1>4. ASSUME NEW n \in DOMAIN r PROVE n \in Int /\ a + n - 1 \in DOMAIN s /\ r[n] = s[a + n - 1]
  <2>1. n \in 1..b - a + 1
    BY <1>3
  <2>2. a + n - 1 \in 1..Len(s)
    BY <1>1, <2>1
  <2> QED BY <1>1, <1>2, <2>1, <2>2
<1>5. ASSUME NEW m \in DOMAIN r, NEW n \in DOMAIN r, r[m].at = r[n].at, r[m].at # 0 PROVE m = n
  <2>1. a + m - 1 = a + n - 1
    BY <1>4, <1>5 DEF DrawnList
  <2>2. m \in Int /\ n \in Int /\ a \in Int
    BY <1>4
  <2> QED BY <2>1, <2>2
<1>6. \A n \in DOMAIN r : Drawn(r[n])
  BY <1>4 DEF DrawnList
<1> QED BY <1>2, <1>4, <1>5, <1>6 DEF DrawnList

\* So does joining two that have no message of the history in common.
LEMMA DrawnJoin ==
    ASSUME NEW s, NEW t, NEW r, DrawnList(s), DrawnList(t), Apart(s, t), r = s \o t
    PROVE  /\ DrawnList(r)
           /\ Len(r) = Len(s) + Len(t)
           /\ \A n \in DOMAIN s : n \in DOMAIN r /\ r[n] = s[n]
           /\ \A n \in DOMAIN t : Len(s) + n \in DOMAIN r /\ r[Len(s) + n] = t[n]
           /\ \A k \in DOMAIN r :
                 \/ k \in DOMAIN s
                 \/ k - Len(s) \in DOMAIN t /\ r[k] = t[k - Len(s)]
<1>1. /\ s \in Seq(Message) /\ Len(s) \in Nat /\ DOMAIN s = 1..Len(s)
      /\ t \in Seq(Message) /\ Len(t) \in Nat /\ DOMAIN t = 1..Len(t)
  BY DEF DrawnList
<1>2. /\ r \in Seq(Message) /\ Len(r) = Len(s) + Len(t)
      /\ \A n \in 1..Len(s) + Len(t) : r[n] = IF n <= Len(s) THEN s[n] ELSE t[n - Len(s)]
  BY <1>1, ConcatProperties
<1>3. DOMAIN r = 1..Len(s) + Len(t)
  BY <1>2
<1>4. /\ \A n \in DOMAIN s : n \in DOMAIN r /\ r[n] = s[n]
      /\ \A n \in DOMAIN t : Len(s) + n \in DOMAIN r /\ r[Len(s) + n] = t[n]
  <2>1. ASSUME NEW n \in DOMAIN t PROVE Len(s) + n \in DOMAIN r /\ r[Len(s) + n] = t[n]
    <3>1. n \in 1..Len(t)
      BY <1>1
    <3>2. Len(s) + n \in 1..Len(s) + Len(t) /\ ~(Len(s) + n <= Len(s)) /\ (Len(s) + n) - Len(s) = n
      BY <1>1, <3>1
    <3> QED BY <1>2, <1>3, <3>2
  <2> QED BY <1>1, <1>2, <1>3, <2>1
<1>5. \A k \in DOMAIN r :
         \/ k \in DOMAIN s /\ r[k] = s[k]
         \/ k - Len(s) \in DOMAIN t /\ r[k] = t[k - Len(s)]
  BY <1>1, <1>2, <1>3
<1>6. \A n \in DOMAIN r : Drawn(r[n])
  BY <1>5 DEF DrawnList
<1>7. ASSUME NEW m \in DOMAIN r, NEW n \in DOMAIN r, r[m].at = r[n].at, r[m].at # 0 PROVE m = n
  <2>1. m \in Int /\ n \in Int /\ Len(s) \in Int
    BY <1>1, <1>3
  <2>2. CASE m \in DOMAIN s /\ r[m] = s[m]
    <3>1. CASE n \in DOMAIN s /\ r[n] = s[n]
      BY <1>7, <2>2, <3>1 DEF DrawnList
    <3>2. CASE n - Len(s) \in DOMAIN t /\ r[n] = t[n - Len(s)]
      BY <1>7, <2>2, <3>2 DEF Apart
    <3> QED BY <1>5, <3>1, <3>2
  <2>3. CASE m - Len(s) \in DOMAIN t /\ r[m] = t[m - Len(s)]
    <3>1. CASE n \in DOMAIN s /\ r[n] = s[n]
      BY <1>7, <2>3, <3>1 DEF Apart
    <3>2. CASE n - Len(s) \in DOMAIN t /\ r[n] = t[n - Len(s)]
      <4>1. m - Len(s) = n - Len(s)
        BY <1>7, <2>3, <3>2 DEF DrawnList
      <4> QED BY <2>1, <4>1
    <3> QED BY <1>5, <3>1, <3>2
  <2> QED BY <1>5, <2>2, <2>3
<1> QED BY <1>2, <1>4, <1>5, <1>6, <1>7 DEF DrawnList

\* The message made for a request, alone.
LEMMA DrawnMade ==
    /\ DrawnList(<<MemoryMessage>>)
    /\ \A s : Apart(s, <<MemoryMessage>>) /\ Apart(<<MemoryMessage>>, s)
<1>1. MemoryMessage \in Message /\ MemoryMessage.at = 0 /\ MemoryMessage = Plain("system", 0)
  BY DEF MemoryMessage, Plain, Make, Message
<1> HIDE DEF MemoryMessage
<1>2. /\ <<MemoryMessage>> \in Seq(Message)
      /\ DOMAIN <<MemoryMessage>> = {1}
      /\ <<MemoryMessage>>[1] = MemoryMessage
  BY <1>1
<1>3. Drawn(MemoryMessage)
  BY <1>1 DEF Drawn
<1> QED BY <1>1, <1>2, <1>3 DEF DrawnList, Apart

\* The history is drawn from itself.
LEMMA DrawnHistory ==
    ASSUME HistoryHolds
    PROVE  DrawnList(history)
<1>1. /\ history \in Seq(Message) /\ DOMAIN history \subseteq Nat \ {0}
      /\ \A i \in DOMAIN history : history[i].at = i
  BY DEF HistoryHolds
<1> QED BY <1>1 DEF DrawnList, Drawn

\* The end of a list, and what is left of one without its leading answers.
LEMMA DrawnLast ==
    ASSUME NEW s, DrawnList(s), NEW n \in Nat, NEW r, r = LastN(s, n)
    PROVE  /\ DrawnList(r)
           /\ Len(r) = IF n >= Len(s) THEN Len(s) ELSE n
           /\ \A k \in DOMAIN r : Len(s) - Len(r) + k \in DOMAIN s /\ r[k] = s[Len(s) - Len(r) + k]
<1>1. s \in Seq(Message) /\ Len(s) \in Nat /\ DOMAIN s = 1..Len(s)
  BY DEF DrawnList
<1>2. CASE n >= Len(s)
  BY <1>1, <1>2 DEF LastN
<1>3. CASE ~(n >= Len(s))
  <2>0. PICK a : a = Len(s) - n + 1
    OBVIOUS
  <2>1. a \in Nat /\ 1 <= a /\ a <= Len(s) + 1 /\ Len(s) <= Len(s) /\ Len(s) - a + 1 = n
    BY <1>1, <1>3, <2>0
  <2>2. IsPart(r, s, a, Len(s))
    BY <1>3, <2>0 DEF LastN, IsPart
  <2>3. /\ DrawnList(r) /\ Len(r) = Len(s) - a + 1
        /\ \A k \in DOMAIN r : a + k - 1 \in DOMAIN s /\ r[k] = s[a + k - 1]
    BY <1>1, <2>1, <2>2, DrawnPart
  <2>4. DOMAIN r = 1..n
    BY <2>1, <2>3 DEF DrawnList
  <2>5. \A k \in DOMAIN r : a + k - 1 = Len(s) - Len(r) + k
    BY <1>1, <2>0, <2>1, <2>3, <2>4
  <2> QED BY <1>1, <1>3, <2>1, <2>3, <2>5
<1> QED BY <1>1, <1>2, <1>3

\* DropLeadingOrphanTools returns an end of the list.
LEMMA DrawnTrimmed ==
    ASSUME NEW s, DrawnList(s), NEW r, r = DropLeadingOrphanTools(s)
    PROVE  /\ DrawnList(r)
           /\ \A k \in DOMAIN r : \E n \in DOMAIN s : r[k] = s[n]
<1> DEFINE I == {i \in 1..Len(s) : ~IsTool(s[i])}
<1>1. s \in Seq(Message) /\ Len(s) \in Nat /\ DOMAIN s = 1..Len(s)
  BY DEF DrawnList
<1>2. CASE I = {}
  <2>1. r = <<>>
    BY <1>2 DEF DropLeadingOrphanTools, SelectInSeq
  <2>2. DrawnList(<<>>) /\ DOMAIN <<>> = {}
    BY DEF DrawnList
  <2> QED BY <2>1, <2>2
<1>3. CASE I # {}
  <2>1. r = IF Min(I) = 0 THEN <<>> ELSE SubSeq(s, Min(I), Len(s))
    BY <1>3 DEF DropLeadingOrphanTools, SelectInSeq
  <2>2. I \in SUBSET Nat
    BY <1>1
  <2>3. Min(I) \in I
    BY <1>3, <2>2, LeastPosition
  <2>4. Min(I) \in 1..Len(s)
    BY <2>3
  <2> HIDE DEF I
  <2>5. PICK a : a = Min(I)
    OBVIOUS
  <2>6. /\ a \in Nat /\ 1 <= a /\ a <= Len(s) + 1 /\ Len(s) <= Len(s)
        /\ IsPart(r, s, a, Len(s))
    BY <1>1, <2>1, <2>4, <2>5 DEF IsPart
  <2>7. DrawnList(r) /\ \A k \in DOMAIN r : a + k - 1 \in DOMAIN s /\ r[k] = s[a + k - 1]
    BY <1>1, <2>6, DrawnPart
  <2> QED BY <2>7
<1> QED BY <1>2, <1>3

\* The place of the last message of a user, 0 if there is none.
LEMMA LastUserFacts ==
    ASSUME NEW s, s \in Seq(Message)
    PROVE  /\ LastUser(s) \in 0..Len(s)
           /\ LastUser(s) # 0 => IsUser(s[LastUser(s)])
           /\ \A i \in DOMAIN s : IsUser(s[i]) => i <= LastUser(s)
<1> DEFINE I == {i \in 1..Len(s) : IsUser(s[i])}
<1>1. Len(s) \in Nat /\ DOMAIN s = 1..Len(s)
  BY LenProperties
<1>2. LastUser(s) = IF I # {} THEN Max(I) ELSE 0
  BY DEF LastUser, SelectLastInSeq
<1>3. CASE I = {}
  BY <1>1, <1>2, <1>3
<1>4. CASE I # {}
  <2>1. I \in SUBSET (1..Len(s))
    OBVIOUS
  <2>2. Max(I) \in I /\ \A i \in I : Max(I) >= i
    BY <1>1, <1>4, <2>1, GreatestPosition
  <2>3. Max(I) \in 1..Len(s)
    BY <2>2
  <2>4. IsUser(s[Max(I)])
    BY <2>2
  <2>5. \A i \in DOMAIN s : IsUser(s[i]) => i <= Max(I)
    <3>1. \A i \in DOMAIN s : IsUser(s[i]) => i \in I
      BY <1>1
    <3> HIDE DEF I
    <3> QED BY <1>1, <2>2, <2>3, <3>1
  <2> HIDE DEF I
  <2> QED BY <1>1, <1>2, <1>4, <2>3, <2>4, <2>5
<1> QED BY <1>3, <1>4

\* A list with one more message at place i.
LEMMA InsertedFacts ==
    ASSUME NEW s, DrawnList(s), NEW i \in 1..Len(s), NEW all,
           all = InsertAt(s, i, MemoryMessage)
    PROVE  /\ DrawnList(all)
           /\ Len(all) = Len(s) + 1
           /\ all[i] = MemoryMessage
           /\ \A n \in 1..i - 1 : all[n] = s[n]
           /\ \A n \in i..Len(s) : all[n + 1] = s[n]
<1>0. PICK front, end, made, half :
         /\ front = SubSeq(s, 1, i - 1) /\ end = SubSeq(s, i, Len(s))
         /\ made = <<MemoryMessage>> /\ half = front \o made
  OBVIOUS
<1>1. s \in Seq(Message) /\ Len(s) \in Nat /\ DOMAIN s = 1..Len(s)
  BY DEF DrawnList
<1>2. /\ DrawnList(front) /\ Len(front) = i - 1
      /\ \A n \in DOMAIN front : n \in DOMAIN s /\ front[n] = s[n]
  <2>0. PICK b : b = i - 1
    OBVIOUS
  <2>1. b \in Nat /\ 1 <= b + 1 /\ b <= Len(s) /\ b - 1 + 1 = i - 1 /\ IsPart(front, s, 1, b)
    BY <1>0, <1>1, <2>0 DEF IsPart
  <2>2. /\ DrawnList(front) /\ Len(front) = b - 1 + 1
        /\ \A n \in DOMAIN front : 1 + n - 1 \in DOMAIN s /\ front[n] = s[1 + n - 1]
    BY <2>1, DrawnPart
  <2>3. DOMAIN front \subseteq Int
    BY <2>2 DEF DrawnList
  <2>4. \A n \in DOMAIN front : 1 + n - 1 = n
    BY <2>3
  <2> QED BY <2>1, <2>2, <2>4
<1>3. /\ DrawnList(end) /\ Len(end) = Len(s) - i + 1
      /\ \A n \in DOMAIN end : i + n - 1 \in DOMAIN s /\ end[n] = s[i + n - 1]
  <2>1. /\ i \in Nat /\ 1 <= i /\ i <= Len(s) + 1 /\ Len(s) <= Len(s)
        /\ IsPart(end, s, i, Len(s))
    BY <1>0, <1>1 DEF IsPart
  <2> QED BY <1>1, <2>1, DrawnPart
<1>4. DrawnList(made) /\ Len(made) = 1 /\ made[1] = MemoryMessage
  BY <1>0, DrawnMade
<1>5. all = half \o end
  BY <1>0 DEF InsertAt
<1>6. Apart(front, made) /\ Apart(half, end)
  <2>1. Apart(front, made)
    BY <1>0, DrawnMade
  <2>2. \A k \in DOMAIN half : (k \in DOMAIN front /\ half[k] = front[k]) \/ half[k].at = 0
    <3>1. \A k \in DOMAIN half :
             \/ k \in DOMAIN front
             \/ k - Len(front) \in DOMAIN made /\ half[k] = made[k - Len(front)]
      BY <1>0, <1>2, <1>4, <2>1, DrawnJoin
    <3>2. \A k \in DOMAIN front : half[k] = front[k]
      BY <1>0, <1>2, <1>4, <2>1, DrawnJoin
    <3>3. \A k \in DOMAIN made : made[k].at = 0
      <4>1. DOMAIN made = {1}
        BY <1>0
      <4> QED BY <1>4, <4>1 DEF MemoryMessage, Plain, Make
    <3> QED BY <3>1, <3>2, <3>3
  <2>3. \A m \in DOMAIN front, n \in DOMAIN end : front[m].at = end[n].at => front[m].at = 0
    <3>1. ASSUME NEW m \in DOMAIN front, NEW n \in DOMAIN end, front[m].at = end[n].at,
                 front[m].at # 0
          PROVE  FALSE
      <4>1. m = i + n - 1
        BY <1>2, <1>3, <3>1 DEF DrawnList
      <4>2. m \in 1..i - 1 /\ n \in 1..Len(s) - i + 1
        BY <1>2, <1>3 DEF DrawnList
      <4> QED BY <1>1, <4>1, <4>2
    <3> QED BY <3>1
  <2> QED BY <2>1, <2>2, <2>3 DEF Apart
<1>7. /\ DrawnList(half) /\ Len(half) = i
      /\ \A n \in 1..i - 1 : half[n] = s[n]
      /\ half[i] = MemoryMessage
  <2>1. /\ DrawnList(half) /\ Len(half) = Len(front) + Len(made)
        /\ \A n \in DOMAIN front : n \in DOMAIN half /\ half[n] = front[n]
        /\ \A n \in DOMAIN made : Len(front) + n \in DOMAIN half /\ half[Len(front) + n] = made[n]
    <3>1. DrawnList(front) /\ DrawnList(made) /\ Apart(front, made) /\ half = front \o made
      BY <1>0, <1>2, <1>4, <1>6
    <3>2. DrawnList(half)
      BY <3>1, DrawnJoin
    <3>3. Len(half) = Len(front) + Len(made)
      BY <3>1, DrawnJoin
    <3>4. \A n \in DOMAIN front : n \in DOMAIN half /\ half[n] = front[n]
      BY <3>1, DrawnJoin
    <3>5. \A n \in DOMAIN made : Len(front) + n \in DOMAIN half /\ half[Len(front) + n] = made[n]
      BY <3>1, DrawnJoin
    <3> QED BY <3>2, <3>3, <3>4, <3>5
  <2>2. DOMAIN front = 1..i - 1 /\ 1 \in DOMAIN made
    BY <1>2, <1>4 DEF DrawnList
  <2>3. (i - 1) + 1 = i
    OBVIOUS
  <2> QED BY <1>2, <1>4, <2>1, <2>2, <2>3
<1>8. /\ DrawnList(all) /\ Len(all) = Len(s) + 1
      /\ \A n \in DOMAIN half : all[n] = half[n]
      /\ \A n \in DOMAIN end : all[i + n] = end[n]
  <2>1. /\ DrawnList(all) /\ Len(all) = Len(half) + Len(end)
        /\ \A n \in DOMAIN half : n \in DOMAIN all /\ all[n] = half[n]
        /\ \A n \in DOMAIN end : Len(half) + n \in DOMAIN all /\ all[Len(half) + n] = end[n]
    <3>1. DrawnList(half) /\ DrawnList(end) /\ Apart(half, end)
      BY <1>3, <1>6, <1>7
    <3>2. DrawnList(all)
      BY <1>5, <3>1, DrawnJoin
    <3>3. Len(all) = Len(half) + Len(end)
      BY <1>5, <3>1, DrawnJoin
    <3>4. \A n \in DOMAIN half : n \in DOMAIN all /\ all[n] = half[n]
      BY <1>5, <3>1, DrawnJoin
    <3>5. \A n \in DOMAIN end : Len(half) + n \in DOMAIN all /\ all[Len(half) + n] = end[n]
      BY <1>5, <3>1, DrawnJoin
    <3> QED BY <3>2, <3>3, <3>4, <3>5
  <2>2. i + (Len(s) - i + 1) = Len(s) + 1
    BY <1>1
  <2>3. Len(half) = i /\ Len(end) = Len(s) - i + 1
    BY <1>3, <1>7
  <2> QED BY <2>1, <2>2, <2>3
<1>9. DOMAIN half = 1..i /\ DOMAIN end = 1..Len(s) - i + 1
  BY <1>3, <1>7 DEF DrawnList
<1>10. all[i] = MemoryMessage /\ \A n \in 1..i - 1 : all[n] = s[n]
  BY <1>7, <1>8, <1>9
<1>11. ASSUME NEW n \in i..Len(s) PROVE all[n + 1] = s[n]
  <2>1. n - i + 1 \in DOMAIN end /\ i + (n - i + 1) = n + 1 /\ i + (n - i + 1) - 1 = n
    BY <1>1, <1>9
  <2> QED BY <1>3, <1>8, <2>1
<1> QED BY <1>8, <1>10, <1>11

\* The memory message does not double a message.
LEMMA InjectedList ==
    ASSUME HistoryHolds
    PROVE  DrawnList(InjectMemory(history))
<1>1. DrawnList(history) /\ history \in Seq(Message) /\ Len(history) \in Nat
  BY DrawnHistory DEF DrawnList
<1>2. CASE recalled /\ history # <<>>
  <2> DEFINE i == IF LastUser(history) = 0 THEN 1 ELSE LastUser(history)
  <2>1. i \in 1..Len(history)
    <3>1. LastUser(history) \in 0..Len(history) /\ Len(history) # 0
      BY <1>1, <1>2, LastUserFacts, EmptySeq
    <3> QED BY <1>1, <3>1
  <2>2. InjectMemory(history) = InsertAt(history, i, MemoryMessage)
    BY <1>2 DEF InjectMemory
  <2> HIDE DEF i
  <2> QED BY <1>1, <2>1, <2>2, InsertedFacts
<1>3. CASE ~(recalled /\ history # <<>>)
  BY <1>1, <1>3 DEF InjectMemory
<1> QED BY <1>2, <1>3

\* The window doubles no message either, although it puts the first user message
\* in front of the part it keeps: it does so only when that part begins later.
LEMMA WindowedList ==
    ASSUME NEW msgs, DrawnList(msgs)
    PROVE  DrawnList(WindowMessages(msgs))
<1>0. PICK systemAt, system, rest, first, reserved, budget, tail, cut, part, trimmed, kept :
         /\ systemAt = {i \in DOMAIN msgs : IsSystem(msgs[i])}
         /\ system = Picked(msgs, systemAt)
         /\ rest = Picked(msgs, DOMAIN msgs \ systemAt)
         /\ first = SelectInSeq(rest, IsUser)
         /\ reserved = Len(system) + (IF first = 0 THEN 0 ELSE 1)
         /\ budget = Window - reserved
         /\ tail = LastN(rest, budget)
         /\ cut = Len(rest) - Len(tail)
         /\ part = IF first # 0 /\ first <= cut THEN SubSeq(tail, 1, budget - 1) ELSE tail
         /\ trimmed = DropLeadingOrphanTools(part)
         /\ kept = IF first # 0 /\ first <= cut THEN <<rest[first]>> \o trimmed ELSE trimmed
  OBVIOUS
<1>1. WindowMessages(msgs) =
        IF Fits(msgs) THEN msgs
        ELSE LastN(system \o (IF reserved >= Window THEN rest ELSE kept), Window)
  BY <1>0 DEF WindowMessages
<1>2. /\ msgs \in Seq(Message) /\ Len(msgs) \in Nat /\ DOMAIN msgs = 1..Len(msgs)
      /\ Window \in Nat
  BY ContextConstants DEF DrawnList
<1>3. /\ DrawnList(system)
      /\ \A n \in DOMAIN system : \E i \in systemAt : system[n] = msgs[i]
  <2>1. systemAt \in SUBSET (DOMAIN msgs)
    BY <1>0
  <2>2. system = Picked(msgs, systemAt)
    BY <1>0
  <2> QED BY <2>1, <2>2, DrawnPicked
<1>4. /\ DrawnList(rest)
      /\ \A n \in DOMAIN rest : \E i \in DOMAIN msgs \ systemAt : rest[n] = msgs[i]
  <2>1. DOMAIN msgs \ systemAt \in SUBSET (DOMAIN msgs)
    OBVIOUS
  <2>2. rest = Picked(msgs, DOMAIN msgs \ systemAt)
    BY <1>0
  <2> QED BY <2>1, <2>2, DrawnPicked
<1>5. /\ rest \in Seq(Message) /\ Len(rest) \in Nat /\ DOMAIN rest = 1..Len(rest)
      /\ Len(system) \in Nat
  BY <1>3, <1>4 DEF DrawnList
<1>6. ASSUME NEW t, DrawnList(t), \A n \in DOMAIN t : \E k \in DOMAIN rest : t[n] = rest[k]
      PROVE  DrawnList(LastN(system \o t, Window))
  <2>1. ASSUME NEW m \in DOMAIN system, NEW n \in DOMAIN t, system[m].at = t[n].at
        PROVE  system[m].at = 0
    <3>1. PICK i \in systemAt : system[m] = msgs[i]
      BY <1>3
    <3>2. PICK k \in DOMAIN rest : t[n] = rest[k]
      BY <1>6
    <3>3. PICK j \in DOMAIN msgs \ systemAt : rest[k] = msgs[j]
      BY <1>4
    <3>4. i \in DOMAIN msgs /\ i # j
      BY <1>0
    <3>5. msgs[i].at = msgs[j].at
      BY <2>1, <3>1, <3>2, <3>3
    <3>6. msgs[i].at = 0
      BY <3>4, <3>5 DEF DrawnList
    <3> QED BY <3>1, <3>6
  <2>2. Apart(system, t)
    BY <2>1 DEF Apart
  <2>3. PICK whole : whole = system \o t
    OBVIOUS
  <2>4. DrawnList(whole)
    BY <1>3, <1>6, <2>2, <2>3, DrawnJoin
  <2> QED BY <1>2, <2>3, <2>4, DrawnLast
<1>7. CASE Fits(msgs)
  BY <1>1, <1>7
<1>8. CASE ~Fits(msgs) /\ reserved >= Window
  <2>1. DrawnList(LastN(system \o rest, Window))
    BY <1>4, <1>6
  <2> QED BY <1>1, <1>8, <2>1
<1>9. first \in 0..Len(rest)
  <2> DEFINE I == {i \in 1..Len(rest) : IsUser(rest[i])}
  <2>1. first = IF I # {} THEN Min(I) ELSE 0
    BY <1>0 DEF SelectInSeq
  <2>2. I \in SUBSET Nat /\ I \subseteq 1..Len(rest)
    BY <1>5
  <2> HIDE DEF I
  <2>3. I # {} => Min(I) \in 1..Len(rest)
    BY <2>2, LeastPosition
  <2> QED BY <1>5, <2>1, <2>3
<1>10. CASE ~Fits(msgs) /\ ~(reserved >= Window)
  <2>1. budget \in Nat /\ budget > 0
    <3>1. reserved \in Nat
      BY <1>0, <1>5
    <3> QED BY <1>0, <1>2, <1>10, <3>1
  <2>2. /\ DrawnList(tail)
        /\ Len(tail) = IF budget >= Len(rest) THEN Len(rest) ELSE budget
        /\ \A k \in DOMAIN tail : cut + k \in DOMAIN rest /\ tail[k] = rest[cut + k]
    <3>1. tail = LastN(rest, budget)
      BY <1>0
    <3>2. DrawnList(tail)
      BY <1>4, <2>1, <3>1, DrawnLast
    <3>3. Len(tail) = IF budget >= Len(rest) THEN Len(rest) ELSE budget
      BY <1>4, <2>1, <3>1, DrawnLast
    <3>4. \A k \in DOMAIN tail : Len(rest) - Len(tail) + k \in DOMAIN rest
                                /\ tail[k] = rest[Len(rest) - Len(tail) + k]
      BY <1>4, <2>1, <3>1, DrawnLast
    <3>5. cut = Len(rest) - Len(tail)
      BY <1>0
    <3> QED BY <3>2, <3>3, <3>4, <3>5
  <2>3. /\ Len(tail) \in Nat /\ DOMAIN tail = 1..Len(tail) /\ cut \in Nat
        /\ cut # 0 => Len(tail) = budget
    <3>1. tail \in Seq(Message)
      BY <2>2 DEF DrawnList
    <3>2. Len(tail) \in Nat /\ DOMAIN tail = 1..Len(tail)
      BY <3>1
    <3> QED BY <1>0, <1>5, <2>1, <2>2, <3>2
  <2>4. CASE first # 0 /\ first <= cut
    <3>1. PICK front : front = <<rest[first]>>
      OBVIOUS
    <3>2. part = SubSeq(tail, 1, budget - 1) /\ kept = front \o trimmed
      BY <1>0, <2>4, <3>1
    <3>3. first \in DOMAIN rest /\ Len(tail) = budget
      BY <1>5, <1>9, <2>3, <2>4
    <3>4. /\ DrawnList(part)
          /\ \A n \in DOMAIN part : 1 + n - 1 \in DOMAIN tail /\ part[n] = tail[1 + n - 1]
      <4>1. PICK b : b = budget - 1
        OBVIOUS
      <4>2. b \in Nat /\ 1 <= b + 1 /\ b <= Len(tail) /\ IsPart(part, tail, 1, b)
        BY <2>1, <3>2, <3>3, <4>1 DEF IsPart
      <4> QED BY <2>2, <4>2, DrawnPart
    <3>5. /\ DrawnList(trimmed)
          /\ \A k \in DOMAIN trimmed : \E n \in DOMAIN part : trimmed[k] = part[n]
      <4>1. trimmed = DropLeadingOrphanTools(part)
        BY <1>0
      <4> QED BY <3>4, <4>1, DrawnTrimmed
    <3>6. \A k \in DOMAIN trimmed : \E n \in DOMAIN tail : trimmed[k] = rest[cut + n]
      BY <2>2, <3>4, <3>5
    <3>7. /\ DrawnList(front) /\ DOMAIN front = {1} /\ front[1] = rest[first]
      <4>1. rest[first] \in Message /\ Drawn(rest[first])
        BY <1>4, <1>5, <3>3 DEF DrawnList
      <4>2. front \in Seq(Message) /\ DOMAIN front = {1} /\ front[1] = rest[first]
        BY <3>1, <4>1
      <4> QED BY <4>1, <4>2 DEF DrawnList
    <3>8. Apart(front, trimmed)
      <4>1. ASSUME NEW k \in DOMAIN trimmed, rest[first].at = trimmed[k].at, rest[first].at # 0
            PROVE  FALSE
        <5>1. PICK n \in DOMAIN tail : trimmed[k] = rest[cut + n]
          BY <3>6
        <5>2. cut + n \in DOMAIN rest /\ n \in 1..Len(tail)
          BY <2>2, <2>3
        <5>3. first = cut + n
          BY <1>4, <3>3, <4>1, <5>1, <5>2 DEF DrawnList
        <5> QED BY <2>3, <2>4, <5>2, <5>3
      <4> QED BY <3>7, <4>1 DEF Apart
    <3>9. DrawnList(kept)
      BY <3>2, <3>5, <3>7, <3>8, DrawnJoin
    <3>10. \A n \in DOMAIN kept : \E k \in DOMAIN rest : kept[n] = rest[k]
      <4>1. \A n \in DOMAIN kept :
               \/ n \in DOMAIN front
               \/ n - Len(front) \in DOMAIN trimmed /\ kept[n] = trimmed[n - Len(front)]
        <5>1. kept = front \o trimmed /\ DrawnList(front) /\ DrawnList(trimmed)
          BY <3>2, <3>5, <3>7
        <5> QED BY <3>8, <5>1, DrawnJoin
      <4>2. \A n \in DOMAIN front : kept[n] = front[n]
        BY <3>2, <3>5, <3>7, <3>8, DrawnJoin
      <4> QED BY <2>2, <3>3, <3>6, <3>7, <4>1, <4>2
    <3> QED BY <1>1, <1>6, <1>10, <3>9, <3>10
  <2>5. CASE ~(first # 0 /\ first <= cut)
    <3>1. kept = DropLeadingOrphanTools(tail)
      BY <1>0, <2>5
    <3>2. /\ DrawnList(kept)
          /\ \A k \in DOMAIN kept : \E n \in DOMAIN tail : kept[k] = tail[n]
      BY <2>2, <3>1, DrawnTrimmed
    <3>3. \A k \in DOMAIN kept : \E n \in DOMAIN rest : kept[k] = rest[n]
      BY <2>2, <3>2
    <3> QED BY <1>1, <1>6, <1>10, <3>2, <3>3
  <2> QED BY <2>4, <2>5
<1> QED BY <1>7, <1>8, <1>10

\* So the list that is repaired is drawn from the history.
LEMMA PreparedList ==
    ASSUME HistoryHolds
    PROVE  DrawnList(PrepareMessagesWithSystemPrompt(WindowMessages(InjectMemory(history))))
<1>1. PICK msgs : msgs = WindowMessages(InjectMemory(history))
  OBVIOUS
<1>2. DrawnList(msgs)
  BY <1>1, InjectedList, WindowedList
<1>3. PICK made, whole : made = <<MemoryMessage>> /\ whole = made \o msgs
  OBVIOUS
<1>4. DrawnList(whole)
  BY <1>2, <1>3, DrawnMade, DrawnJoin
<1>5. PrepareMessagesWithSystemPrompt(msgs) \in {msgs, whole}
  BY <1>3 DEF PrepareMessagesWithSystemPrompt, MemoryMessage
<1> QED BY <1>1, <1>2, <1>4, <1>5

-----------------------------------------------------------------------------
(* The repair of unanswered calls *)

Seen(msgs, i) == ValidToolCallIds(msgs) \cap UNION {CallIds(msgs[j]) : j \in 1..i - 1}

Kept(msgs) == {i \in DOMAIN msgs : IsTool(msgs[i]) => msgs[i].tool_call_id \in Seen(msgs, i)}

\* The message m without its invalid calls.
Cleaned(new, m, valid) ==
    /\ new.role = m.role
    /\ new.tool_call_id = m.tool_call_id
    /\ new.at = m.at
    /\ new.reasoning_content = m.reasoning_content
    /\ new.tool_calls = <<>> \/ m.tool_calls # <<>>
    /\ CallIds(new) = CallIds(m) \cap valid

\* Message n of r is message g[n] of msgs without its invalid calls.
Repairs(r, msgs, g) ==
    /\ r \in Seq(Message)
    /\ g \in [DOMAIN r -> Kept(msgs)]
    /\ \A m, n \in DOMAIN r : m < n => g[m] < g[n]
    /\ \A i \in Kept(msgs) : \E n \in DOMAIN r : g[n] = i
    /\ \A n \in DOMAIN r : Cleaned(r[n], msgs[g[n]], ValidToolCallIds(msgs))

\* A message keeps its valid calls.
LEMMA ValidCallsFacts ==
    ASSUME NEW calls \in Seq(Nat), NEW valid, NEW r, NEW I \in SUBSET (DOMAIN calls),
           \A n \in DOMAIN calls : n \in I <=> calls[n] \in valid,
           r = Picked(calls, I)
    PROVE  /\ r \in Seq(Nat)
           /\ ToSet(r) = ToSet(calls) \cap valid
           /\ calls = <<>> => r = <<>>
<1>1. Len(calls) \in Nat /\ DOMAIN calls = 1..Len(calls)
  OBVIOUS
<1>2. I \in SUBSET (1..Len(calls)) /\ r = Picked(calls, I)
  BY <1>1
<1>3. r \in Seq(Nat) /\ Len(r) = Cardinality(I)
  BY <1>2, PickedFacts
<1>4. PICK g : Lists(r, calls, I, g)
  BY <1>2, PickedFacts
<1>5. ASSUME NEW id \in ToSet(r) PROVE id \in ToSet(calls) \cap valid
  <2>1. PICK n \in DOMAIN r : id = r[n]
    BY DEF ToSet
  <2>2. g[n] \in I /\ id = calls[g[n]]
    BY <1>4, <2>1 DEF Lists
  <2>3. g[n] \in DOMAIN calls /\ id \in valid
    BY <2>2
  <2> QED BY <2>2, <2>3 DEF ToSet
<1>6. ASSUME NEW id \in ToSet(calls) \cap valid PROVE id \in ToSet(r)
  <2>1. PICK k \in DOMAIN calls : id = calls[k]
    BY DEF ToSet
  <2>2. k \in I
    BY <2>1
  <2>3. PICK n \in DOMAIN r : g[n] = k
    BY <1>4, <2>2 DEF Lists
  <2>4. r[n] = id
    BY <1>4, <2>1, <2>3 DEF Lists
  <2> QED BY <2>4 DEF ToSet
<1>7. ASSUME calls = <<>> PROVE r = <<>>
  <2>1. I = {}
    BY <1>7
  <2>2. Cardinality(I) = 0
    BY <2>1, FS_EmptySet
  <2> QED BY <1>3, <2>2
<1> QED BY <1>3, <1>5, <1>6, <1>7

\* SanitizeMessages is such a repair.
LEMMA Repaired ==
    ASSUME NEW msgs \in Seq(Message), NEW r, r = SanitizeMessages(msgs)
    PROVE  \E g : Repairs(r, msgs, g)
<1>0. PICK valid : valid = ValidToolCallIds(msgs)
  OBVIOUS
<1> DEFINE ValidCalls(calls) == Picked(calls, {n \in DOMAIN calls : calls[n] \in valid})
           cleaned == [i \in DOMAIN msgs |-> [msgs[i] EXCEPT !.tool_calls = ValidCalls(@)]]
           kept == {i \in DOMAIN msgs : IsTool(msgs[i]) => msgs[i].tool_call_id \in Seen(msgs, i)}
<1>1. r = Picked(cleaned, kept) /\ kept = Kept(msgs)
  BY <1>0 DEF SanitizeMessages, Seen, Kept
<1>2. Len(msgs) \in Nat /\ DOMAIN msgs = 1..Len(msgs)
  OBVIOUS
<1>3. kept \in SUBSET (1..Len(msgs))
  BY <1>2
<1>4. ASSUME NEW i \in DOMAIN msgs
      PROVE  cleaned[i] \in Message /\ Cleaned(cleaned[i], msgs[i], valid)
  <2>1. msgs[i] \in Message
    BY <1>2
  <2>2. PICK calls : calls = msgs[i].tool_calls
    OBVIOUS
  <2>3. calls \in Seq(Nat)
    BY <2>1, <2>2 DEF Message
  <2>0. PICK I, new : I = {n \in DOMAIN calls : calls[n] \in valid} /\ new = Picked(calls, I)
    OBVIOUS
  <2>4. I \in SUBSET (DOMAIN calls) /\ \A n \in DOMAIN calls : n \in I <=> calls[n] \in valid
    BY <2>0
  <2>5. new \in Seq(Nat) /\ ToSet(new) = ToSet(calls) \cap valid /\ (calls = <<>> => new = <<>>)
    BY <2>0, <2>3, <2>4, ValidCallsFacts
  <2>6. cleaned[i] = [msgs[i] EXCEPT !.tool_calls = new]
    BY <2>0, <2>2
  <2> HIDE DEF cleaned
  <2>7. cleaned[i] \in Message /\ cleaned[i].tool_calls = new
    BY <2>1, <2>5, <2>6 DEF Message
  <2>8. /\ cleaned[i].role = msgs[i].role
        /\ cleaned[i].tool_call_id = msgs[i].tool_call_id
        /\ cleaned[i].at = msgs[i].at
        /\ cleaned[i].reasoning_content = msgs[i].reasoning_content
    BY <2>1, <2>6 DEF Message
  <2> QED BY <2>2, <2>5, <2>7, <2>8 DEF CallIds, Cleaned
<1>5. DOMAIN cleaned = DOMAIN msgs /\ cleaned \in [1..Len(msgs) -> Message]
  <2>1. cleaned = [i \in 1..Len(msgs) |-> cleaned[i]]
    BY <1>2
  <2> HIDE DEF cleaned
  <2> QED BY <1>2, <1>4, <2>1
<1> HIDE DEF cleaned, kept, ValidCalls
<1>6. cleaned \in Seq(Message) /\ Len(cleaned) = Len(msgs)
  BY <1>2, <1>5
<1>7. r \in Seq(Message)
  BY <1>1, <1>3, <1>6, PickedFacts
<1>8. PICK g : Lists(r, cleaned, kept, g)
  BY <1>1, <1>3, <1>6, PickedFacts
<1>9. \A n \in DOMAIN r : g[n] \in DOMAIN msgs /\ r[n] = cleaned[g[n]]
  BY <1>2, <1>3, <1>8 DEF Lists
<1>10. \A n \in DOMAIN r : Cleaned(r[n], msgs[g[n]], ValidToolCallIds(msgs))
  BY <1>0, <1>4, <1>9
<1>11. /\ g \in [DOMAIN r -> Kept(msgs)]
       /\ \A m, n \in DOMAIN r : m < n => g[m] < g[n]
       /\ \A i \in Kept(msgs) : \E n \in DOMAIN r : g[n] = i
  BY <1>1, <1>8 DEF Lists
<1>12. Repairs(r, msgs, g)
  BY <1>7, <1>10, <1>11 DEF Repairs
<1> QED BY <1>12

\* In a list drawn from the history a call is made once and answered once.
LEMMA CalledOnce ==
    ASSUME NEW msgs, DrawnList(msgs), HistoryHolds, CallsHold
    PROVE  /\ \A i, j \in DOMAIN msgs : CallIds(msgs[i]) \cap CallIds(msgs[j]) # {} => i = j
           /\ \A i, j \in DOMAIN msgs :
                 IsTool(msgs[i]) /\ IsTool(msgs[j])
                 /\ msgs[i].tool_call_id = msgs[j].tool_call_id => i = j
           /\ \A i \in DOMAIN msgs : IsTool(msgs[i]) => CallIds(msgs[i]) = {}
<1>1. ASSUME NEW i \in DOMAIN msgs, CallIds(msgs[i]) # {} \/ IsTool(msgs[i])
      PROVE  /\ msgs[i].at # 0
             /\ msgs[i].at \in DOMAIN history
             /\ msgs[i] = history[msgs[i].at]
  <2>1. Drawn(msgs[i])
    BY DEF DrawnList
  <2>2. msgs[i] # Plain("system", 0)
    <3>1. CallIds(Plain("system", 0)) = {} /\ ~IsTool(Plain("system", 0))
      BY DEF Plain, Make, CallIds, ToSet, IsTool
    <3> QED BY <1>1, <3>1
  <2> QED BY <2>1, <2>2 DEF Drawn
<1>2. ASSUME NEW i \in DOMAIN msgs, NEW j \in DOMAIN msgs,
             CallIds(msgs[i]) \cap CallIds(msgs[j]) # {}
      PROVE  i = j
  <2>1. msgs[i].at = msgs[j].at
    BY <1>1, <1>2 DEF CallsHold, CallsApart
  <2> QED BY <1>1, <1>2, <2>1 DEF DrawnList
<1>3. ASSUME NEW i \in DOMAIN msgs, NEW j \in DOMAIN msgs, IsTool(msgs[i]), IsTool(msgs[j]),
             msgs[i].tool_call_id = msgs[j].tool_call_id
      PROVE  i = j
  <2>1. msgs[i].tool_call_id \in Nat
    <3>1. msgs[i] \in Message
      BY DEF DrawnList
    <3> QED BY <3>1 DEF Message
  <2>2. msgs[i].at = msgs[j].at
    BY <1>1, <1>3, <2>1 DEF CallsHold, AnswersApart, Answers
  <2> QED BY <1>1, <1>3, <2>2 DEF DrawnList
<1>4. ASSUME NEW i \in DOMAIN msgs, IsTool(msgs[i]) PROVE CallIds(msgs[i]) = {}
  <2>1. msgs[i].tool_calls = <<>>
    BY <1>1, <1>4 DEF HistoryHolds, IsTool
  <2> QED BY <2>1 DEF CallIds, ToSet
<1> QED BY <1>2, <1>3, <1>4

\* A run of answers stays one.
LEMMA AnswersStayTogether ==
    ASSUME NEW r, NEW msgs \in Seq(Message), NEW g, Repairs(r, msgs, g),
           NEW m \in DOMAIN r, NEW n \in DOMAIN r,
           \A k \in g[m] + 1..g[n] : IsTool(msgs[k])
    PROVE  \A k \in m + 1..n : k \in DOMAIN r /\ IsTool(r[k])
<1>1. DOMAIN r = 1..Len(r) /\ Len(r) \in Nat
  BY DEF Repairs
<1>2. \A k \in DOMAIN r : g[k] \in DOMAIN msgs /\ g[k] \in Int
  BY DEF Repairs, Kept
<1>3. ASSUME NEW k \in m + 1..n PROVE k \in DOMAIN r /\ IsTool(r[k])
  <2>1. k \in DOMAIN r /\ m < k /\ (k < n \/ k = n)
    BY <1>1
  <2>2. g[m] < g[k] /\ (g[k] < g[n] \/ g[k] = g[n])
    BY <2>1 DEF Repairs
  <2>3. g[k] \in g[m] + 1..g[n]
    BY <1>2, <2>1, <2>2
  <2>4. IsTool(msgs[g[k]])
    BY <2>3
  <2> QED BY <2>1, <2>4 DEF Repairs, Cleaned, IsTool
<1> QED BY <1>3

EachAnswered(r) == \A i \in DOMAIN r : CallIds(r[i]) \subseteq AnswersAfter(r, i)

EachCalled(r) ==
    \A i \in DOMAIN r : IsTool(r[i]) =>
       \E j \in 1..i - 1 :
          /\ r[i].tool_call_id \in CallIds(r[j])
          /\ \A k \in j + 1..i : IsTool(r[k])

OneReasoning(r) ==
    HasReasoning(r) => \A i \in DOMAIN r : r[i].role = "assistant" => r[i].reasoning_content

\* A call is valid when its answer stands in the run of answers behind it.
LEMMA ValidCallFacts ==
    ASSUME NEW msgs \in Seq(Message), NEW id
    PROVE  id \in ValidToolCallIds(msgs) <=>
             \E i, j \in DOMAIN msgs :
                /\ id \in CallIds(msgs[i])
                /\ i < j
                /\ msgs[j].tool_call_id = id
                /\ \A k \in i + 1..j : IsTool(msgs[k])
<1>1. DOMAIN msgs = 1..Len(msgs) /\ Len(msgs) \in Nat
  OBVIOUS
<1>2. ASSUME id \in ValidToolCallIds(msgs)
      PROVE  \E i, j \in DOMAIN msgs :
                /\ id \in CallIds(msgs[i])
                /\ i < j
                /\ msgs[j].tool_call_id = id
                /\ \A k \in i + 1..j : IsTool(msgs[k])
  <2>1. PICK i \in DOMAIN msgs : id \in CallIds(msgs[i]) /\ id \in AnswersAfter(msgs, i)
    BY <1>2 DEF ValidToolCallIds
  <2>2. PICK j \in i + 1..Len(msgs) :
          msgs[j].tool_call_id = id /\ \A k \in i + 1..j : IsTool(msgs[k])
    BY <2>1 DEF AnswersAfter
  <2>3. j \in DOMAIN msgs /\ i < j
    BY <1>1, <2>1, <2>2
  <2> QED BY <2>1, <2>2, <2>3
<1>3. ASSUME NEW i \in DOMAIN msgs, NEW j \in DOMAIN msgs, id \in CallIds(msgs[i]), i < j,
             msgs[j].tool_call_id = id, \A k \in i + 1..j : IsTool(msgs[k])
      PROVE  id \in ValidToolCallIds(msgs)
  <2>1. j \in i + 1..Len(msgs)
    BY <1>1, <1>3
  <2>2. id \in AnswersAfter(msgs, i)
    BY <1>3, <2>1 DEF AnswersAfter
  <2> QED BY <1>3, <2>2 DEF ValidToolCallIds
<1> QED BY <1>2, <1>3

\* The repair leaves calls with their answers right behind them and no other answers.
LEMMA RepairedPairs ==
    ASSUME NEW msgs, DrawnList(msgs), HistoryHolds, CallsHold, NEW r, NEW g, Repairs(r, msgs, g)
    PROVE  EachAnswered(r) /\ EachCalled(r)
<1>1. msgs \in Seq(Message) /\ DOMAIN msgs = 1..Len(msgs) /\ Len(msgs) \in Nat
  BY DEF DrawnList
<1>2. r \in Seq(Message) /\ DOMAIN r = 1..Len(r) /\ Len(r) \in Nat
  BY DEF Repairs
<1>3. \A n \in DOMAIN r : g[n] \in Kept(msgs) /\ g[n] \in DOMAIN msgs /\ g[n] \in Int
  BY <1>1 DEF Repairs, Kept
<1>4. \A m, n \in DOMAIN r : g[m] < g[n] => m < n
  <2>1. ASSUME NEW m \in DOMAIN r, NEW n \in DOMAIN r, g[m] < g[n], ~(m < n) PROVE FALSE
    <3>1. n < m \/ n = m
      BY <1>2, <2>1
    <3>2. g[n] < g[m] \/ g[n] = g[m]
      BY <3>1 DEF Repairs
    <3> QED BY <1>3, <2>1, <3>2
  <2> QED BY <2>1
<1>5. ASSUME NEW m \in DOMAIN r, NEW id \in CallIds(r[m]) PROVE id \in AnswersAfter(r, m)
  <2>1. id \in CallIds(msgs[g[m]]) /\ id \in ValidToolCallIds(msgs)
    BY DEF Repairs, Cleaned
  <2>2. PICK i, j \in DOMAIN msgs :
          /\ id \in CallIds(msgs[i])
          /\ i < j
          /\ msgs[j].tool_call_id = id
          /\ \A k \in i + 1..j : IsTool(msgs[k])
    BY <1>1, <2>1, ValidCallFacts
  <2>3. i = g[m]
    <3>1. CallIds(msgs[i]) \cap CallIds(msgs[g[m]]) # {}
      BY <2>1, <2>2
    <3> QED BY <1>3, <3>1, CalledOnce
  <2>4. j \in Kept(msgs)
    <3>1. i \in 1..j - 1
      BY <1>1, <2>2
    <3>2. id \in Seen(msgs, j)
      BY <2>1, <2>2, <3>1 DEF Seen
    <3> QED BY <2>2, <3>2 DEF Kept
  <2>5. PICK n \in DOMAIN r : g[n] = j
    BY <2>4 DEF Repairs
  <2>6. m < n
    BY <1>4, <2>2, <2>3, <2>5
  <2>7. \A k \in m + 1..n : k \in DOMAIN r /\ IsTool(r[k])
    <3>1. \A k \in g[m] + 1..g[n] : IsTool(msgs[k])
      BY <2>2, <2>3, <2>5
    <3> QED BY <1>1, <3>1, AnswersStayTogether
  <2>8. r[n].tool_call_id = id
    BY <2>2, <2>5 DEF Repairs, Cleaned
  <2>9. n \in m + 1..Len(r)
    BY <1>2, <2>6
  <2> QED BY <2>7, <2>8, <2>9 DEF AnswersAfter
<1>6. ASSUME NEW n \in DOMAIN r, IsTool(r[n])
      PROVE  \E m \in 1..n - 1 :
                /\ r[n].tool_call_id \in CallIds(r[m])
                /\ \A k \in m + 1..n : IsTool(r[k])
  <2>0. PICK id : id = r[n].tool_call_id
    OBVIOUS
  <2>1. IsTool(msgs[g[n]]) /\ msgs[g[n]].tool_call_id = id
    BY <1>6, <2>0 DEF Repairs, Cleaned, IsTool
  <2>2. id \in Seen(msgs, g[n])
    BY <1>3, <2>1 DEF Kept
  <2>3. PICK i, j \in DOMAIN msgs :
          /\ id \in CallIds(msgs[i])
          /\ i < j
          /\ msgs[j].tool_call_id = id
          /\ \A k \in i + 1..j : IsTool(msgs[k])
    BY <1>1, <2>2, ValidCallFacts DEF Seen
  <2>4. j = g[n]
    <3>1. j \in i + 1..j
      BY <1>1, <2>3
    <3>2. IsTool(msgs[j])
      BY <2>3, <3>1
    <3> QED BY <1>3, <2>1, <2>3, <3>2, CalledOnce
  <2>5. i \in Kept(msgs)
    BY <2>3, CalledOnce DEF Kept
  <2>6. PICK m \in DOMAIN r : g[m] = i
    BY <2>5 DEF Repairs
  <2>7. m < n
    BY <1>4, <2>3, <2>4, <2>6
  <2>8. id \in CallIds(r[m])
    BY <2>2, <2>3, <2>6 DEF Repairs, Cleaned, Seen
  <2>9. \A k \in m + 1..n : k \in DOMAIN r /\ IsTool(r[k])
    <3>1. \A k \in g[m] + 1..g[n] : IsTool(msgs[k])
      BY <2>3, <2>4, <2>6
    <3> QED BY <1>1, <3>1, AnswersStayTogether
  <2>10. m \in 1..n - 1
    BY <1>2, <2>7
  <2> QED BY <2>0, <2>8, <2>9, <2>10
<1> QED BY <1>5, <1>6 DEF EachAnswered, EachCalled

\* The reasoning fields change nothing else.
Alike(r, s) ==
    /\ s \in Seq(Message)
    /\ DOMAIN s = DOMAIN r
    /\ Len(s) = Len(r)
    /\ \A i \in DOMAIN r :
          /\ s[i].role = r[i].role
          /\ s[i].tool_calls = r[i].tool_calls
          /\ s[i].tool_call_id = r[i].tool_call_id
          /\ s[i].at = r[i].at
          /\ r[i].role # "assistant" => s[i] = r[i]

\* SetReasoning gives all assistant messages the same field.
LEMMA SetReasoningFacts ==
    ASSUME NEW r \in Seq(Message), NEW value \in BOOLEAN, NEW s, s = SetReasoning(r, value)
    PROVE  /\ Alike(r, s)
           /\ \A i \in DOMAIN s : s[i].role = "assistant" => s[i].reasoning_content = value
<1>1. DOMAIN r = 1..Len(r) /\ Len(r) \in Nat
  OBVIOUS
<1>2. DOMAIN s = DOMAIN r
  BY DEF SetReasoning
<1>3. ASSUME NEW i \in DOMAIN r
      PROVE  /\ s[i] \in Message
             /\ s[i].role = r[i].role
             /\ s[i].tool_calls = r[i].tool_calls
             /\ s[i].tool_call_id = r[i].tool_call_id
             /\ s[i].at = r[i].at
             /\ r[i].role # "assistant" => s[i] = r[i]
             /\ s[i].role = "assistant" => s[i].reasoning_content = value
  <2>1. r[i] \in Message
    OBVIOUS
  <2>2. s[i] = IF r[i].role = "assistant" THEN [r[i] EXCEPT !.reasoning_content = value] ELSE r[i]
    BY DEF SetReasoning
  <2> QED BY <2>1, <2>2 DEF Message
<1>4. s \in Seq(Message) /\ Len(s) = Len(r)
  <2>1. s = [i \in 1..Len(r) |-> s[i]]
    BY <1>1 DEF SetReasoning
  <2> QED BY <1>1, <1>3, <2>1, IsASeq
<1> QED BY <1>2, <1>3, <1>4 DEF Alike

\* Whatever the provider, the field is then on all assistant messages or on none
\* (_ensure_reasoning_content).
LEMMA ReasonedFacts ==
    ASSUME NEW r \in Seq(Message), NEW s, s = Reasoned(r)
    PROVE  Alike(r, s) /\ OneReasoning(s)
<1>1. CASE s = SetReasoning(r, FALSE)
  BY <1>1, SetReasoningFacts DEF OneReasoning, HasReasoning
<1>2. CASE s = SetReasoning(r, TRUE)
  BY <1>2, SetReasoningFacts DEF OneReasoning
<1>3. CASE s = r /\ ~HasReasoning(r)
  BY <1>3 DEF OneReasoning, Alike
<1> QED BY <1>1, <1>2, <1>3 DEF Reasoned

\* So calls stay with their answers.
LEMMA AlikePairs ==
    ASSUME NEW r \in Seq(Message), NEW s, Alike(r, s), EachAnswered(r), EachCalled(r)
    PROVE  EachAnswered(s) /\ EachCalled(s)
<1>1. DOMAIN r = 1..Len(r) /\ Len(r) \in Nat
  OBVIOUS
<1>2. \A i \in DOMAIN r : CallIds(s[i]) = CallIds(r[i]) /\ (IsTool(s[i]) <=> IsTool(r[i]))
  BY DEF Alike, CallIds, IsTool
<1>3. ASSUME NEW i \in DOMAIN r, NEW id \in CallIds(r[i]) PROVE id \in AnswersAfter(s, i)
  <2>1. id \in AnswersAfter(r, i)
    BY DEF EachAnswered
  <2>2. PICK j \in i + 1..Len(r) : r[j].tool_call_id = id /\ \A k \in i + 1..j : IsTool(r[k])
    BY <2>1 DEF AnswersAfter
  <2>3. j \in DOMAIN r /\ \A k \in i + 1..j : k \in DOMAIN r
    BY <1>1, <2>2
  <2>4. s[j].tool_call_id = id /\ \A k \in i + 1..j : IsTool(s[k])
    BY <1>2, <2>2, <2>3 DEF Alike
  <2>5. j \in i + 1..Len(s)
    BY <2>2 DEF Alike
  <2> QED BY <2>4, <2>5 DEF AnswersAfter
<1>4. ASSUME NEW i \in DOMAIN r, IsTool(r[i])
      PROVE  \E j \in 1..i - 1 :
                /\ s[i].tool_call_id \in CallIds(s[j])
                /\ \A k \in j + 1..i : IsTool(s[k])
  <2>1. PICK j \in 1..i - 1 :
          /\ r[i].tool_call_id \in CallIds(r[j])
          /\ \A k \in j + 1..i : IsTool(r[k])
    BY <1>4 DEF EachCalled
  <2>2. j \in DOMAIN r /\ \A k \in j + 1..i : k \in DOMAIN r
    BY <1>1, <2>1
  <2> QED BY <1>2, <2>1, <2>2 DEF Alike
<1> QED BY <1>2, <1>3, <1>4 DEF EachAnswered, EachCalled, Alike

\* What the model node sends is well-formed.
LEMMA PreparedWellFormed ==
    ASSUME HistoryHolds, CallsHold
    PROVE  EachAnswered(Prepared) /\ EachCalled(Prepared) /\ OneReasoning(Prepared)
<1>1. PICK msgs, r, s :
        /\ msgs = PrepareMessagesWithSystemPrompt(WindowMessages(InjectMemory(history)))
        /\ r = SanitizeMessages(msgs)
        /\ s = Reasoned(r)
  OBVIOUS
<1>2. s = Prepared
  BY <1>1 DEF Prepared
<1>3. DrawnList(msgs) /\ msgs \in Seq(Message)
  BY <1>1, PreparedList DEF DrawnList
<1>4. PICK g : Repairs(r, msgs, g)
  BY <1>1, <1>3, Repaired
<1>5. EachAnswered(r) /\ EachCalled(r) /\ r \in Seq(Message)
  BY <1>3, <1>4, RepairedPairs DEF Repairs
<1>6. Alike(r, s) /\ OneReasoning(s)
  BY <1>1, <1>5, ReasonedFacts
<1>7. EachAnswered(s) /\ EachCalled(s)
  BY <1>5, <1>6, AlikePairs
<1> QED BY <1>2, <1>6, <1>7

-----------------------------------------------------------------------------
(* The steps *)

\* The history has one more message.
LEMMA Appended ==
    ASSUME HistoryHolds, NEW m \in Message, AppendMessage(m),
           m.role # "assistant" => m.tool_calls = <<>>
    PROVE  LET n == Len(history)
           IN  /\ HistoryHolds'
               /\ n \in Nat /\ DOMAIN history = 1..n
               /\ Len(history') = n + 1 /\ DOMAIN history' = 1..n + 1
               /\ \A i \in 1..n : history'[i] = history[i]
               /\ history'[n + 1].role = m.role
               /\ history'[n + 1].tool_calls = m.tool_calls
               /\ history'[n + 1].tool_call_id = m.tool_call_id
<1>0. PICK n, new : n = Len(history) /\ new = [m EXCEPT !.at = n + 1]
  OBVIOUS
<1>1. history \in Seq(Message) /\ n \in Nat /\ DOMAIN history = 1..n
  BY <1>0 DEF HistoryHolds
<1>2. /\ new \in Message /\ new.at = n + 1
      /\ new.role = m.role /\ new.tool_calls = m.tool_calls
      /\ new.tool_call_id = m.tool_call_id
  <2>1. new = [role |-> m.role, tool_calls |-> m.tool_calls, tool_call_id |-> m.tool_call_id,
               reasoning_content |-> m.reasoning_content, at |-> n + 1]
    BY <1>0 DEF Message
  <2>2. /\ m.role \in {"user", "assistant", "tool", "system"} /\ m.tool_calls \in Seq(Nat)
        /\ m.tool_call_id \in Nat /\ m.reasoning_content \in BOOLEAN /\ n + 1 \in Nat
    BY <1>1 DEF Message
  <2> QED BY <2>1, <2>2 DEF Message
<1>3. history' = Append(history, new)
  BY <1>0 DEF AppendMessage
<1>4. /\ history' \in Seq(Message) /\ Len(history') = n + 1
      /\ \A i \in 1..n : history'[i] = history[i]
      /\ history'[n + 1] = new
  BY <1>0, <1>1, <1>2, <1>3, AppendProperties
<1>5. DOMAIN history' = 1..n + 1
  BY <1>4
<1>6. \A i \in 1..n + 1 : i \in 1..n \/ i = n + 1
  BY <1>1
<1>7. ASSUME NEW i \in DOMAIN history'
      PROVE  /\ history'[i].at = i
             /\ history'[i].role # "assistant" => history'[i].tool_calls = <<>>
  <2>1. CASE i \in 1..n
    BY <1>1, <1>4, <2>1 DEF HistoryHolds
  <2>2. CASE i = n + 1
    BY <1>2, <1>4, <2>2
  <2> QED BY <1>5, <1>6, <2>1, <2>2
<1> QED BY <1>0, <1>1, <1>2, <1>4, <1>5, <1>7 DEF HistoryHolds

\* A message without calls that is no answer leaves the calls as they are.
LEMMA PlainStep ==
    ASSUME HistoryHolds, CallsHold, AnswersInOrder, NEW role \in {"user", "assistant", "system"},
           AppendMessage(Plain(role, 0)), pendingCalls' = <<>> \/ pendingCalls' = pendingCalls
    PROVE  /\ HistoryHolds'
           /\ CallsHold'
           /\ AnswersInOrder'
           /\ Len(history) \in Nat /\ DOMAIN history = 1..Len(history)
           /\ Len(history') = Len(history) + 1 /\ DOMAIN history' = 1..Len(history) + 1
           /\ \A i \in 1..Len(history) : history'[i] = history[i]
           /\ history'[Len(history) + 1].role = role
<1>0. PICK n : n = Len(history)
  OBVIOUS
<1>1. /\ Plain(role, 0) \in Message
      /\ Plain(role, 0).role = role
      /\ Plain(role, 0).tool_calls = <<>>
  BY DEF Plain, Make, Message
<1>2. /\ HistoryHolds'
      /\ n \in Nat /\ DOMAIN history = 1..n
      /\ Len(history') = n + 1 /\ DOMAIN history' = 1..n + 1
      /\ \A i \in 1..n : history'[i] = history[i]
      /\ history'[n + 1].role = role
      /\ history'[n + 1].tool_calls = <<>>
  BY <1>0, <1>1, Appended
<1>3. /\ CallIds(history'[n + 1]) = {}
      /\ ~IsTool(history'[n + 1])
  BY <1>2 DEF CallIds, ToSet, IsTool
<1>4. \A i \in 1..n + 1 : i \in 1..n \/ i = n + 1
  BY <1>2
<1>5. \A i \in 1..n : i \in 1..n + 1
  BY <1>2
<1>6. AnswersInOrder'
  <2>1. ASSUME NEW i \in 1..n + 1, NEW j \in 1..n + 1, IsTool(history'[j]),
               history'[j].tool_call_id \in CallIds(history'[i])
        PROVE  OnlyAnswers(i, j)'
    <3>1. i \in 1..n /\ j \in 1..n
      BY <1>3, <1>4, <2>1
    <3>2. OnlyAnswers(i, j)
      BY <1>2, <2>1, <3>1 DEF AnswersInOrder
    <3>3. \A k \in i + 1..j : k \in 1..n
      BY <1>2, <3>1
    <3> QED BY <1>2, <3>2, <3>3 DEF OnlyAnswers
  <2> QED BY <1>2, <2>1 DEF AnswersInOrder
<1>7. UNION {CallIds(history'[i]) : i \in DOMAIN history'}
        = UNION {CallIds(history[i]) : i \in DOMAIN history}
  BY <1>2, <1>3, <1>4, <1>5
<1>8. \A i \in 1..n + 1 : \A id \in Nat : Answers(i, id)' => i \in 1..n /\ Answers(i, id)
  BY <1>2, <1>3, <1>4 DEF Answers
<1>9. PICK top \in Nat : IdsGiven(top)
  BY DEF CallsHold
<1>10. IdsGiven(top)'
  <2>1. \A i \in DOMAIN history' : \A id \in Nat : Answers(i, id)' => id \in 1..top
    BY <1>2, <1>8, <1>9 DEF IdsGiven
  <2>2. pendingCalls' \in Seq(1..top)
    <3>1. pendingCalls \in Seq(1..top) /\ <<>> \in Seq(1..top)
      BY <1>9 DEF IdsGiven
    <3> QED BY <3>1
  <2> QED BY <1>7, <1>9, <2>1, <2>2 DEF IdsGiven
<1>11. CallsApart'
  BY <1>2, <1>3, <1>4 DEF CallsHold, CallsApart
<1>12. AnswersApart'
  BY <1>2, <1>8 DEF CallsHold, AnswersApart
<1>13. PendingUnanswered'
  <2>1. CASE pendingCalls' = <<>>
    BY <2>1 DEF PendingUnanswered
  <2>2. CASE pendingCalls' = pendingCalls
    <3>1. \A k \in DOMAIN pendingCalls : pendingCalls[k] \in Nat
      <4>1. pendingCalls \in Seq(Nat)
        BY <1>9 DEF IdsGiven
      <4> QED BY <4>1
    <3>2. \A k \in DOMAIN pendingCalls : \A i \in DOMAIN history' : ~Answers(i, pendingCalls[k])'
      <4>1. ASSUME NEW k \in DOMAIN pendingCalls, NEW i \in DOMAIN history',
                   Answers(i, pendingCalls[k])'
            PROVE  FALSE
        <5>1. PICK id \in Nat : id = pendingCalls[k]
          BY <3>1
        <5>2. Answers(i, id)'
          BY <2>2, <4>1, <5>1 DEF Answers
        <5>3. i \in DOMAIN history /\ Answers(i, id)
          BY <1>2, <1>8, <5>2
        <5> QED BY <5>1, <5>3 DEF CallsHold, PendingUnanswered
      <4> QED BY <4>1
    <3> QED BY <2>2, <3>2 DEF CallsHold, PendingUnanswered, Answers
  <2> QED BY <2>1, <2>2
<1>14. CallsHold'
  BY <1>10, <1>11, <1>12, <1>13 DEF CallsHold
<1> QED BY <1>0, <1>2, <1>6, <1>14

\* The next id is one above those given.
LEMMA NextIdFacts ==
    ASSUME NEW top \in Nat, IdsGiven(top)
    PROVE  NextId = top + 1
<1>1. Cardinality(1..top) = top
  BY FS_Interval
<1>2. PICK ids : ids = UNION {CallIds(history[i]) : i \in DOMAIN history}
  OBVIOUS
<1>3. ids = 1..top
  BY <1>2 DEF IdsGiven
<1>4. NextId = 1 + Cardinality(ids)
  BY <1>2 DEF NextId
<1> QED BY <1>1, <1>3, <1>4

\* The calls of a model's turn have ids of their own, and those the gate is to
\* run are among them.
LEMMA CallsStep ==
    ASSUME HistoryHolds, CallsHold, AnswersInOrder, NEW n \in Nat, NEW calls,
           NEW reasoning \in BOOLEAN, NEW known \in SUBSET (DOMAIN calls),
           calls = [i \in 1..n |-> NextId + i - 1],
           AppendMessage(Make("assistant", calls, 0, reasoning, 0)),
           pendingCalls' = Picked(calls, known)
    PROVE  HistoryHolds' /\ CallsHold' /\ AnswersInOrder' /\ PendingInOrder'
<1>1. PICK top \in Nat : IdsGiven(top)
  BY DEF CallsHold
<1>2. calls = [i \in 1..n |-> top + i]
  <2>1. \A i \in 1..n : NextId + i - 1 = top + i
    BY <1>1, NextIdFacts
  <2> QED BY <2>1
<1>3. /\ calls \in Seq(1..top + n) /\ Len(calls) = n /\ DOMAIN calls = 1..n
      /\ calls \in Seq(Nat)
      /\ \A i \in 1..n : calls[i] = top + i
  <2>1. \A i \in 1..n : top + i \in 1..top + n /\ top + i \in Nat
    BY <1>1
  <2>2. calls \in [1..n -> 1..top + n] /\ calls \in [1..n -> Nat]
    BY <1>2, <2>1
  <2>3. calls \in Seq(1..top + n) /\ Len(calls) = n
    BY <2>2
  <2>4. calls \in Seq(Nat)
    BY <2>2
  <2> QED BY <1>2, <2>3, <2>4
<1>4. PICK m : m = Make("assistant", calls, 0, reasoning, 0)
  OBVIOUS
<1>5. /\ m \in Message /\ m.role = "assistant"
      /\ m.tool_calls = calls /\ m.tool_call_id = 0
  BY <1>3, <1>4 DEF Make, Message
<1>6. PICK last : last = Len(history) + 1
  OBVIOUS
<1>7. /\ HistoryHolds'
      /\ Len(history) \in Nat /\ DOMAIN history = 1..Len(history)
      /\ Len(history') = last /\ DOMAIN history' = 1..last
      /\ \A i \in 1..Len(history) : history'[i] = history[i]
      /\ history'[last].role = "assistant"
      /\ history'[last].tool_calls = calls
  BY <1>4, <1>5, <1>6, Appended
<1>8. /\ \A i \in DOMAIN history' : (i \in DOMAIN history /\ history'[i] = history[i]) \/ i = last
      /\ DOMAIN history \subseteq DOMAIN history'
      /\ last \in DOMAIN history' /\ last \notin DOMAIN history
  BY <1>6, <1>7
<1>9. ~IsTool(history'[last])
  BY <1>7 DEF IsTool
<1>10. CallIds(history'[last]) = top + 1..top + n
  <2>1. CallIds(history'[last]) = {calls[i] : i \in 1..n}
    BY <1>3, <1>7 DEF CallIds, ToSet
  <2>2. ASSUME NEW id \in top + 1..top + n PROVE id \in {calls[i] : i \in 1..n}
    <3>1. id - top \in 1..n /\ top + (id - top) = id
      BY <1>1
    <3>2. calls[id - top] = id
      BY <1>3, <3>1
    <3> QED BY <3>1, <3>2
  <2>3. ASSUME NEW i \in 1..n PROVE calls[i] \in top + 1..top + n
    BY <1>1, <1>3
  <2> QED BY <2>1, <2>2, <2>3
<1>11. \A i \in DOMAIN history : CallIds(history[i]) \subseteq 1..top
  BY <1>1 DEF IdsGiven
<1>12. \A i \in DOMAIN history' : \A id \in Nat :
          Answers(i, id)' => i \in DOMAIN history /\ Answers(i, id) /\ id \in 1..top
  BY <1>1, <1>8, <1>9 DEF Answers, IdsGiven
<1>13. pendingCalls' \in Seq(1..top + n) /\ known \in SUBSET (1..Len(calls))
  BY <1>3, PickedFacts
<1>14. PICK g : Lists(pendingCalls', calls, known, g)
  BY <1>3, <1>13, PickedFacts
<1>15. \A k \in DOMAIN pendingCalls' : /\ g[k] \in 1..n
                                      /\ pendingCalls'[k] = top + g[k]
  BY <1>3, <1>14 DEF Lists
<1>16. IdsGiven(top + n)'
  <2>1. UNION {CallIds(history'[i]) : i \in DOMAIN history'} = 1..top + n
    <3>1. UNION {CallIds(history'[i]) : i \in DOMAIN history'} = (1..top) \cup (top + 1..top + n)
      <4>1. UNION {CallIds(history[i]) : i \in DOMAIN history} = 1..top
        BY <1>1 DEF IdsGiven
      <4>2. \A i \in DOMAIN history : CallIds(history'[i]) = CallIds(history[i])
        BY <1>7
      <4> QED BY <1>8, <1>10, <4>1, <4>2
    <3>2. (1..top) \cup (top + 1..top + n) = 1..top + n
      BY <1>1
    <3> QED BY <3>1, <3>2
  <2>2. \A i \in DOMAIN history' : \A id \in Nat : Answers(i, id)' => id \in 1..top + n
    <3>1. \A id \in 1..top : id \in 1..top + n
      BY <1>1
    <3> QED BY <1>12, <3>1
  <2> QED BY <1>13, <2>1, <2>2 DEF IdsGiven
<1>17. CallsApart'
  <2>1. ASSUME NEW i \in DOMAIN history PROVE CallIds(history[i]) \cap CallIds(history'[last]) = {}
    <3>1. \A id \in 1..top : id \notin top + 1..top + n
      BY <1>1
    <3> QED BY <1>10, <1>11, <3>1
  <2> QED BY <1>8, <2>1 DEF CallsHold, CallsApart
<1>18. AnswersApart'
  BY <1>12 DEF CallsHold, AnswersApart
<1>19. PendingUnanswered'
  <2>1. ASSUME NEW k \in DOMAIN pendingCalls', NEW i \in DOMAIN history',
               IsTool(history'[i]), history'[i].tool_call_id = pendingCalls'[k]
        PROVE  FALSE
    <3>1. PICK id : id = pendingCalls'[k] /\ id = top + g[k]
      BY <1>15
    <3>2. id \in Nat /\ id \notin 1..top
      BY <1>1, <1>15, <3>1
    <3>3. Answers(i, id)'
      BY <2>1, <3>1 DEF Answers
    <3> QED BY <1>12, <3>2, <3>3
  <2>2. ASSUME NEW k \in DOMAIN pendingCalls', NEW l \in DOMAIN pendingCalls',
               pendingCalls'[k] = pendingCalls'[l]
        PROVE  k = l
    <3>1. g[k] = g[l] /\ g[k] \in Int
      BY <1>1, <1>15, <2>2
    <3>2. ~(k < l) /\ ~(l < k)
      BY <1>14, <1>15, <3>1 DEF Lists
    <3>3. k \in Int /\ l \in Int
      BY <1>13
    <3> QED BY <3>2, <3>3
  <2> QED BY <2>1, <2>2 DEF PendingUnanswered, Answers
<1>20. AnswersInOrder'
  <2>1. ASSUME NEW i \in DOMAIN history', NEW j \in DOMAIN history', IsTool(history'[j]),
               history'[j].tool_call_id \in CallIds(history'[i])
        PROVE  OnlyAnswers(i, j)'
    <3>1. j \in DOMAIN history /\ history'[j] = history[j]
      BY <1>8, <1>9, <2>1
    <3>2. PICK id : id = history[j].tool_call_id
      OBVIOUS
    <3>3. id \in 1..top
      <4>1. id \in Nat
        <5>1. history[j] \in Message
          BY <3>1 DEF HistoryHolds
        <5> QED BY <3>2, <5>1 DEF Message
      <4>2. Answers(j, id)'
        BY <2>1, <3>1, <3>2 DEF Answers
      <4> QED BY <1>12, <4>1, <4>2
    <3>4. i \in DOMAIN history /\ history'[i] = history[i]
      <4>1. id \notin top + 1..top + n
        BY <1>1, <3>3
      <4> QED BY <1>8, <1>10, <2>1, <3>1, <3>2, <4>1
    <3>5. OnlyAnswers(i, j)
      BY <2>1, <3>1, <3>4 DEF AnswersInOrder
    <3>6. \A k \in i + 1..j : history'[k] = history[k]
      BY <1>7, <3>1, <3>4
    <3> QED BY <3>5, <3>6 DEF OnlyAnswers
  <2> QED BY <2>1 DEF AnswersInOrder
<1>21. PendingInOrder'
  <2>1. ToSet(pendingCalls') \subseteq CallIds(history'[last])
    <3>1. ASSUME NEW id \in ToSet(pendingCalls') PROVE id \in top + 1..top + n
      <4>1. PICK k \in DOMAIN pendingCalls' : id = pendingCalls'[k]
        BY DEF ToSet
      <4>2. id = top + g[k] /\ g[k] \in 1..n
        BY <1>15, <4>1
      <4> QED BY <1>1, <4>2
    <3> QED BY <1>10, <3>1
  <2>2. OnlyAnswers(last, Len(history))'
    BY <1>6, <1>7 DEF OnlyAnswers
  <2> QED BY <1>8, <2>1, <2>2 DEF PendingInOrder
<1> QED BY <1>7, <1>16, <1>17, <1>18, <1>19, <1>20, <1>21 DEF CallsHold

GateAnswersFirst(n) ==
    /\ history' = history \o [i \in 1..n |-> Answer(pendingCalls[i], Len(history) + i)]
    /\ pendingCalls' = SubSeq(pendingCalls, n + 1, Len(pendingCalls))

\* The gate answers calls that nobody answered, each one right behind its message
\* or behind other answers and what users said meanwhile.
LEMMA GateStep ==
    ASSUME HistoryHolds, CallsHold, AnswersInOrder, PendingInOrder,
           NEW n \in 0..Len(pendingCalls), GateAnswersFirst(n)
    PROVE  /\ HistoryHolds'
           /\ CallsHold'
           /\ AnswersInOrder'
           /\ PendingInOrder'
           /\ n = Len(pendingCalls) => pendingCalls' = <<>>
           /\ \A i \in DOMAIN history : i \in DOMAIN history' /\ history'[i] = history[i]
<1>1. PICK top \in Nat : IdsGiven(top)
  BY DEF CallsHold
<1>2. PICK len, wait, answers :
        /\ len = Len(history) /\ wait = Len(pendingCalls)
        /\ answers = [i \in 1..n |-> Answer(pendingCalls[i], len + i)]
  OBVIOUS
<1>3. /\ len \in Nat /\ history \in Seq(Message) /\ DOMAIN history = 1..len
      /\ wait \in Nat /\ pendingCalls \in Seq(1..top) /\ DOMAIN pendingCalls = 1..wait
      /\ n \in Nat /\ n <= wait
      /\ \A i \in 1..wait : pendingCalls[i] \in 1..top /\ pendingCalls[i] \in Nat
  <2>1. len \in Nat /\ history \in Seq(Message) /\ DOMAIN history = 1..len
    BY <1>2 DEF HistoryHolds
  <2>2. wait \in Nat /\ pendingCalls \in Seq(1..top) /\ DOMAIN pendingCalls = 1..wait
    BY <1>1, <1>2 DEF IdsGiven
  <2>3. \A i \in 1..wait : pendingCalls[i] \in 1..top
    BY <2>2
  <2> QED BY <1>2, <2>1, <2>2, <2>3
<1>4. ASSUME NEW i \in 1..n
      PROVE  /\ answers[i] \in Message
             /\ answers[i].role = "tool"
             /\ answers[i].tool_calls = <<>>
             /\ answers[i].tool_call_id = pendingCalls[i]
             /\ answers[i].at = len + i
  <2>1. pendingCalls[i] \in Nat /\ len + i \in Nat
    BY <1>3
  <2>2. answers[i] = [role |-> "tool", tool_calls |-> <<>>, tool_call_id |-> pendingCalls[i],
                      reasoning_content |-> FALSE, at |-> len + i]
    BY <1>2 DEF Answer, Make
  <2> QED BY <2>1, <2>2 DEF Message
<1>5. answers \in Seq(Message) /\ Len(answers) = n /\ DOMAIN answers = 1..n
  <2>1. answers \in [1..n -> Message]
    BY <1>2, <1>4
  <2> QED BY <1>3, <2>1
<1>6. history' = history \o answers
  BY <1>2 DEF GateAnswersFirst
<1>7. /\ history' \in Seq(Message) /\ Len(history') = len + n
      /\ \A i \in 1..len + n : history'[i] = IF i <= len THEN history[i] ELSE answers[i - len]
  BY <1>2, <1>3, <1>5, <1>6, ConcatProperties
<1>8. DOMAIN history' = 1..len + n
  BY <1>3, <1>7
<1>9. \A i \in 1..len : i \in 1..len + n /\ history'[i] = history[i]
  BY <1>3, <1>7
<1>10. ASSUME NEW i \in len + 1..len + n
       PROVE  /\ i - len \in 1..n
              /\ history'[i].role = "tool"
              /\ history'[i].tool_calls = <<>>
              /\ history'[i].tool_call_id = pendingCalls[i - len]
              /\ history'[i].at = i
  <2>1. i - len \in 1..n /\ i \in 1..len + n /\ ~(i <= len) /\ len + (i - len) = i
    BY <1>3
  <2>2. history'[i] = answers[i - len]
    BY <1>7, <2>1
  <2> QED BY <1>4, <2>1, <2>2
<1>11. \A i \in DOMAIN history' : i \in 1..len \/ i \in len + 1..len + n
  BY <1>3, <1>8
<1>12. ASSUME NEW i \in len + 1..len + n PROVE CallIds(history'[i]) = {}
  <2>1. history'[i].tool_calls = <<>>
    BY <1>10
  <2> QED BY <2>1 DEF CallIds, ToSet
<1>13. HistoryHolds'
  <2>1. ASSUME NEW i \in DOMAIN history'
        PROVE  /\ history'[i].at = i
               /\ history'[i].role # "assistant" => history'[i].tool_calls = <<>>
    <3>1. CASE i \in 1..len
      BY <1>3, <1>9, <3>1 DEF HistoryHolds
    <3>2. CASE i \in len + 1..len + n
      BY <1>10, <3>2
    <3> QED BY <1>11, <3>1, <3>2
  <2> QED BY <1>7, <2>1 DEF HistoryHolds
<1>14. /\ pendingCalls' \in Seq(1..top) /\ Len(pendingCalls') = wait - n
       /\ DOMAIN pendingCalls' = 1..wait - n
       /\ \A k \in 1..wait - n : n + k \in 1..wait /\ pendingCalls'[k] = pendingCalls[n + k]
  <2>1. n + 1 \in 1..wait + 1 /\ wait \in (n + 1) - 1..wait /\ wait - (n + 1) + 1 = wait - n
    BY <1>3
  <2>2. /\ pendingCalls' \in Seq(1..top) /\ Len(pendingCalls') = wait - (n + 1) + 1
        /\ \A k \in 1..wait - (n + 1) + 1 : pendingCalls'[k] = pendingCalls[(n + 1) + k - 1]
    BY <1>2, <1>3, <2>1, SubSeqProperties DEF GateAnswersFirst
  <2>3. \A k \in 1..wait - n : n + k \in 1..wait /\ (n + 1) + k - 1 = n + k
    BY <1>3
  <2>4. DOMAIN pendingCalls' = 1..wait - n
    BY <2>1, <2>2
  <2> QED BY <2>1, <2>2, <2>3, <2>4
<1>15. \A i, j \in 1..wait : pendingCalls[i] = pendingCalls[j] => i = j
  BY <1>3 DEF CallsHold, PendingUnanswered
<1>16. \A i \in 1..len : \A j \in 1..wait : ~Answers(i, pendingCalls[j])
  BY <1>3 DEF CallsHold, PendingUnanswered
<1>17. ASSUME NEW i \in DOMAIN history', NEW id \in Nat, Answers(i, id)'
       PROVE  \/ i \in 1..len /\ Answers(i, id)
              \/ i - len \in 1..n /\ id = pendingCalls[i - len]
  <2>1. IsTool(history'[i]) /\ history'[i].tool_call_id = id
    BY <1>17 DEF Answers
  <2> QED BY <1>9, <1>10, <1>11, <2>1 DEF Answers
<1>18. IdsGiven(top)'
  <2>1. UNION {CallIds(history'[i]) : i \in DOMAIN history'}
          = UNION {CallIds(history[i]) : i \in DOMAIN history}
    <3>1. \A i \in DOMAIN history :
             i \in DOMAIN history' /\ CallIds(history'[i]) = CallIds(history[i])
      BY <1>3, <1>8, <1>9
    <3>2. \A i \in DOMAIN history' : i \in DOMAIN history \/ CallIds(history'[i]) = {}
      BY <1>3, <1>11, <1>12
    <3> QED BY <3>1, <3>2
  <2>2. ASSUME NEW i \in DOMAIN history', NEW id \in Nat, Answers(i, id)' PROVE id \in 1..top
    <3>1. CASE i \in 1..len /\ Answers(i, id)
      BY <1>1, <1>3, <3>1 DEF IdsGiven
    <3>2. CASE i - len \in 1..n /\ id = pendingCalls[i - len]
      <4>1. i - len \in 1..wait
        BY <1>3, <3>2
      <4> QED BY <1>3, <3>2, <4>1
    <3> QED BY <1>17, <2>2, <3>1, <3>2
  <2> QED BY <1>1, <1>14, <2>1, <2>2 DEF IdsGiven
<1>19. CallsApart'
  BY <1>3, <1>9, <1>11, <1>12 DEF CallsHold, CallsApart
<1>20. AnswersApart'
  <2>1. ASSUME NEW i \in DOMAIN history', NEW j \in DOMAIN history', NEW id \in Nat,
               Answers(i, id)', Answers(j, id)'
        PROVE  i = j
    <3>1. \A k \in 1..n : k \in 1..wait
      BY <1>3
    <3>2. \/ i \in 1..len /\ Answers(i, id)
          \/ i - len \in 1..n /\ id = pendingCalls[i - len]
      BY <1>17, <2>1
    <3>3. \/ j \in 1..len /\ Answers(j, id)
          \/ j - len \in 1..n /\ id = pendingCalls[j - len]
      BY <1>17, <2>1
    <3>4. CASE i \in 1..len /\ Answers(i, id)
      <4>1. j \in 1..len /\ Answers(j, id)
        BY <1>16, <3>1, <3>3, <3>4
      <4> QED BY <1>3, <3>4, <4>1 DEF CallsHold, AnswersApart
    <3>5. CASE i - len \in 1..n /\ id = pendingCalls[i - len]
      <4>1. j - len \in 1..n /\ id = pendingCalls[j - len]
        BY <1>16, <3>1, <3>3, <3>5
      <4>2. i - len = j - len
        BY <1>15, <3>1, <3>5, <4>1
      <4>3. i \in Int /\ j \in Int
        BY <1>8
      <4> QED BY <1>3, <4>2, <4>3
    <3> QED BY <3>2, <3>4, <3>5
  <2> QED BY <2>1 DEF AnswersApart
<1>21. PendingUnanswered'
  <2>1. ASSUME NEW k \in 1..wait - n, NEW i \in DOMAIN history',
               IsTool(history'[i]), history'[i].tool_call_id = pendingCalls'[k]
        PROVE  FALSE
    <3>1. PICK id : id = pendingCalls[n + k] /\ id = pendingCalls'[k]
      BY <1>14
    <3>2. id \in Nat /\ n + k \in 1..wait
      BY <1>3, <1>14, <3>1
    <3>3. Answers(i, id)'
      BY <2>1, <3>1 DEF Answers
    <3>4. i - len \in 1..n /\ id = pendingCalls[i - len]
      BY <1>16, <1>17, <3>1, <3>2, <3>3
    <3>5. i - len \in 1..wait
      BY <1>3, <3>4
    <3>6. i - len = n + k
      BY <1>15, <3>1, <3>2, <3>4, <3>5
    <3> QED BY <1>3, <3>4, <3>6
  <2>2. ASSUME NEW k \in 1..wait - n, NEW l \in 1..wait - n, pendingCalls'[k] = pendingCalls'[l]
        PROVE  k = l
    <3>1. n + k = n + l
      BY <1>14, <1>15, <2>2
    <3> QED BY <1>3, <3>1
  <2> QED BY <1>14, <2>1, <2>2 DEF PendingUnanswered, Answers
<1>22. ASSUME NEW i \in 1..len, OnlyAnswers(i, len), NEW j \in 1..len + n
       PROVE  OnlyAnswers(i, j)'
  <2>1. ASSUME NEW k \in i + 1..j PROVE IsTool(history'[k]) \/ IsUser(history'[k])
    <3>1. k \in i + 1..len \/ k \in len + 1..len + n
      BY <1>3
    <3>2. CASE k \in i + 1..len
      <4>1. k \in 1..len
        BY <1>3, <3>2
      <4> QED BY <1>9, <1>22, <3>2, <4>1 DEF OnlyAnswers
    <3>3. CASE k \in len + 1..len + n
      BY <1>10, <3>3 DEF IsTool
    <3> QED BY <3>1, <3>2, <3>3
  <2> QED BY <2>1 DEF OnlyAnswers
<1>23. AnswersInOrder'
  <2>1. ASSUME NEW i \in DOMAIN history', NEW j \in DOMAIN history', IsTool(history'[j]),
               history'[j].tool_call_id \in CallIds(history'[i])
        PROVE  OnlyAnswers(i, j)'
    <3>1. i \in 1..len /\ history'[i] = history[i]
      BY <1>9, <1>11, <1>12, <2>1
    <3>2. CASE j \in 1..len
      <4>1. OnlyAnswers(i, j)
        BY <1>3, <1>9, <2>1, <3>1, <3>2 DEF AnswersInOrder
      <4>2. \A k \in i + 1..j : history'[k] = history[k]
        BY <1>3, <1>9, <3>1, <3>2
      <4> QED BY <4>1, <4>2 DEF OnlyAnswers
    <3>3. CASE j \in len + 1..len + n
      <4>1. j - len \in 1..wait
        BY <1>3, <1>10, <3>3
      <4>2. pendingCalls[j - len] \in CallIds(history[i])
        BY <1>10, <2>1, <3>1, <3>3
      <4>3. pendingCalls # <<>>
        BY <1>3, <4>1
      <4>4. PICK c \in DOMAIN history :
              ToSet(pendingCalls) \subseteq CallIds(history[c]) /\ OnlyAnswers(c, len)
        BY <1>2, <4>3 DEF PendingInOrder
      <4>5. pendingCalls[j - len] \in CallIds(history[c])
        BY <1>3, <4>1, <4>4 DEF ToSet
      <4>6. c = i
        BY <1>3, <3>1, <4>2, <4>4, <4>5 DEF CallsHold, CallsApart
      <4> QED BY <1>8, <1>22, <3>1, <4>4, <4>6
    <3> QED BY <1>11, <3>2, <3>3
  <2> QED BY <2>1 DEF AnswersInOrder
<1>24. PendingInOrder'
  <2>1. ASSUME pendingCalls' # <<>>
        PROVE  \E i \in DOMAIN history' :
                  /\ ToSet(pendingCalls') \subseteq CallIds(history'[i])
                  /\ OnlyAnswers(i, Len(history))'
    <3>1. wait # 0
      BY <1>3, <1>14, <2>1
    <3>2. PICK c \in DOMAIN history :
            ToSet(pendingCalls) \subseteq CallIds(history[c]) /\ OnlyAnswers(c, len)
      BY <1>2, <3>1, EmptySeq DEF PendingInOrder
    <3>3. ToSet(pendingCalls') \subseteq ToSet(pendingCalls)
      BY <1>3, <1>14 DEF ToSet
    <3>4. c \in 1..len /\ len + n \in 1..len + n /\ len + n = Len(history')
      BY <1>3, <1>7, <3>2
    <3>5. OnlyAnswers(c, Len(history))'
      <4>1. PICK j : j = len + n
        OBVIOUS
      <4>2. OnlyAnswers(c, j)'
        BY <1>22, <3>2, <3>4, <4>1
      <4> QED BY <3>4, <4>1, <4>2 DEF OnlyAnswers
    <3> QED BY <1>8, <1>9, <3>2, <3>3, <3>4, <3>5
  <2> QED BY <2>1 DEF PendingInOrder
<1>25. n = Len(pendingCalls) => pendingCalls' = <<>>
  <2>1. n = wait => Len(pendingCalls') = 0
    BY <1>3, <1>14
  <2> QED BY <1>2, <1>14, <2>1
<1> QED BY <1>3, <1>8, <1>9, <1>13, <1>18, <1>19, <1>20, <1>21, <1>23, <1>24, <1>25 DEF CallsHold

-----------------------------------------------------------------------------
(* The theorems *)

\* A step that leaves the messages and the pending calls alone keeps what holds of
\* them.
LEMMA SameMessages ==
    ASSUME ContextInv, UNCHANGED <<history, pendingCalls>>
    PROVE  HistoryHolds' /\ CallsHold' /\ AnswersInOrder' /\ PendingInOrder'
<1>1. history' = history /\ pendingCalls' = pendingCalls
  OBVIOUS
<1>2. HistoryHolds'
  BY <1>1 DEF ContextInv, HistoryHolds
<1>3. CallsHold'
  <2>1. PICK top \in Nat : IdsGiven(top)
    BY DEF ContextInv, CallsHold
  <2>2. IdsGiven(top)'
    BY <1>1, <2>1 DEF IdsGiven, Answers
  <2>3. CallsApart' /\ AnswersApart' /\ PendingUnanswered'
    BY <1>1 DEF ContextInv, CallsHold, CallsApart, AnswersApart, PendingUnanswered, Answers
  <2> QED BY <2>2, <2>3 DEF CallsHold
<1>4. AnswersInOrder' /\ PendingInOrder'
  BY <1>1 DEF ContextInv, AnswersInOrder, PendingInOrder, OnlyAnswers
<1> QED BY <1>2, <1>3, <1>4

\* A request is the last one or the one the model node prepares.
LEMMA RequestKept ==
    ASSUME ContextInv, request' = request \/ request' = Prepared
    PROVE  RequestWellFormed'
<1>1. CASE request' = request
  BY <1>1 DEF ContextInv, RequestWellFormed
<1>2. CASE request' = Prepared
  <2>1. EachAnswered(request') /\ EachCalled(request') /\ OneReasoning(request')
    BY <1>2, PreparedWellFormed DEF ContextInv
  <2> QED BY <2>1 DEF RequestWellFormed, EachAnswered, EachCalled, OneReasoning
<1> QED BY <1>1, <1>2

\* It holds of an empty conversation.
LEMMA ContextInitInv == ContextInit => ContextInv
<1> SUFFICES ASSUME ContextInit PROVE ContextInv
  OBVIOUS
<1>1. /\ history = <<>> /\ pendingCalls = <<>> /\ request = <<>>
      /\ DOMAIN history = {} /\ DOMAIN pendingCalls = {} /\ DOMAIN request = {}
  BY DEF ContextInit
<1>2. HistoryHolds
  BY <1>1 DEF HistoryHolds
<1>3. IdsGiven(0)
  <2>1. UNION {CallIds(history[i]) : i \in DOMAIN history} = {}
    BY <1>1
  <2>2. 1..0 = {} /\ pendingCalls \in Seq(1..0)
    BY <1>1
  <2> QED BY <1>1, <2>1, <2>2 DEF IdsGiven
<1>4. CallsHold
  BY <1>1, <1>3 DEF CallsHold, CallsApart, AnswersApart, PendingUnanswered
<1>5. AnswersInOrder /\ PendingInOrder
  BY <1>1 DEF AnswersInOrder, PendingInOrder
<1>6. NodeHolds
  BY DEF ContextInit, NodeHolds
<1>7. RequestWellFormed
  BY <1>1 DEF RequestWellFormed, HasReasoning
<1> QED BY <1>2, <1>4, <1>5, <1>6, <1>7 DEF ContextInit, ContextInv

\* A plain message of role keeps what holds of the history, if users add it or
\* no call is pending behind it.
LEMMA PlainKeeps ==
    ASSUME ContextInv, NEW role \in {"user", "assistant", "system"}, AppendMessage(Plain(role, 0)),
           pendingCalls' = <<>> \/ (pendingCalls' = pendingCalls /\ role = "user")
    PROVE  /\ HistoryHolds' /\ CallsHold' /\ AnswersInOrder' /\ PendingInOrder'
           /\ (\E i \in DOMAIN history : IsUser(history[i]))
                => \E i \in DOMAIN history' : IsUser(history'[i])
<1>0. PICK n : n = Len(history)
  OBVIOUS
<1>1. /\ HistoryHolds' /\ CallsHold' /\ AnswersInOrder'
      /\ n \in Nat /\ DOMAIN history = 1..n
      /\ Len(history') = n + 1 /\ DOMAIN history' = 1..n + 1
      /\ \A i \in 1..n : history'[i] = history[i]
      /\ history'[n + 1].role = role
  BY <1>0, PlainStep DEF ContextInv
<1>2. \A i \in DOMAIN history : i \in DOMAIN history' /\ history'[i] = history[i]
  BY <1>1
<1>3. PendingInOrder'
  <2>1. CASE pendingCalls' = <<>>
    BY <2>1 DEF PendingInOrder
  <2>2. CASE pendingCalls' = pendingCalls /\ role = "user" /\ pendingCalls # <<>>
    <3>1. PICK i \in DOMAIN history :
            ToSet(pendingCalls) \subseteq CallIds(history[i]) /\ OnlyAnswers(i, n)
      BY <1>0, <2>2 DEF ContextInv, PendingInOrder
    <3>2. ASSUME NEW k \in i + 1..n + 1 PROVE IsTool(history'[k]) \/ IsUser(history'[k])
      <4>1. CASE k = n + 1
        BY <1>1, <2>2, <4>1 DEF IsUser
      <4>2. CASE k # n + 1
        <5>1. k \in i + 1..n /\ k \in 1..n
          BY <1>1, <4>2
        <5> QED BY <1>1, <3>1, <5>1 DEF OnlyAnswers
      <4> QED BY <4>1, <4>2
    <3>3. OnlyAnswers(i, Len(history))'
      BY <1>1, <3>2 DEF OnlyAnswers
    <3> QED BY <1>2, <2>2, <3>1, <3>3 DEF PendingInOrder
  <2> QED BY <2>1, <2>2
<1>4. (\E i \in DOMAIN history : IsUser(history[i]))
        => \E i \in DOMAIN history' : IsUser(history'[i])
  BY <1>2
<1> QED BY <1>1, <1>3, <1>4

\* Every node, and everything between the nodes, keeps the invariant.
LEMMA ContextNextInv == ContextInv /\ [ContextNext]_contextVars => ContextInv'
<1> SUFFICES ASSUME ContextInv, [ContextNext]_contextVars PROVE ContextInv'
  OBVIOUS
<1> DEFINE ListsHold == HistoryHolds /\ CallsHold /\ AnswersInOrder /\ PendingInOrder
           RestHolds == /\ NodeHolds
                        /\ provider \in {"rejects", "thinks", "unknown"}
                        /\ recalled \in BOOLEAN
                        /\ node \in {"idle", "gate", "memory_prepare", "model", "verification"}
<1>1. CASE ChatAdds
  <2>1. ListsHold'
    <3>1. AppendMessage(Plain("user", 0)) /\ pendingCalls' = pendingCalls
      BY <1>1 DEF ChatAdds
    <3> QED BY <3>1, PlainKeeps
  <2>2. RestHolds'
    BY <1>1 DEF ContextInv, NodeHolds, ChatAdds, RouteFromEntry
  <2>3. RequestWellFormed'
    BY <1>1, RequestKept DEF ChatAdds
  <2> QED BY <2>1, <2>2, <2>3 DEF ContextInv
<1>2. CASE ApprovalResumes
  <2>1. ListsHold'
    BY <1>2, SameMessages DEF ApprovalResumes
  <2>2. RestHolds'
    BY <1>2 DEF ContextInv, NodeHolds, ApprovalResumes, RouteFromEntry
  <2>3. RequestWellFormed'
    BY <1>2, RequestKept DEF ApprovalResumes
  <2> QED BY <2>1, <2>2, <2>3 DEF ContextInv
<1>3. CASE PrepareMemory
  <2>1. ListsHold'
    BY <1>3, SameMessages DEF PrepareMemory
  <2>2. RestHolds'
    <3>1. recalled' => \E i \in DOMAIN history : IsUser(history[i])
      <4>1. history \in Seq(Message)
        BY DEF ContextInv, HistoryHolds
      <4>2. LastUser(history) # 0 =>
              LastUser(history) \in DOMAIN history /\ IsUser(history[LastUser(history)])
        BY <4>1, LastUserFacts
      <4> QED BY <1>3, <4>2 DEF PrepareMemory
    <3>2. recalled' \in BOOLEAN
      BY <1>3 DEF PrepareMemory
    <3> QED BY <1>3, <3>1, <3>2 DEF ContextInv, NodeHolds, PrepareMemory
  <2>3. RequestWellFormed'
    BY <1>3, RequestKept DEF PrepareMemory
  <2> QED BY <2>1, <2>2, <2>3 DEF ContextInv
<1>4. CASE ModelAnswers
  <2>0. PICK n \in 0..Batch, reasoning \in BOOLEAN :
          \E calls :
             /\ calls = [i \in 1..n |-> NextId + i - 1]
             /\ AppendMessage(Make("assistant", calls, 0, reasoning, 0))
             /\ \E known \in SUBSET DOMAIN calls : pendingCalls' = Picked(calls, known)
    BY <1>4 DEF ModelAnswers
  <2>1. PICK calls :
          /\ calls = [i \in 1..n |-> NextId + i - 1]
          /\ AppendMessage(Make("assistant", calls, 0, reasoning, 0))
          /\ \E known \in SUBSET DOMAIN calls : pendingCalls' = Picked(calls, known)
    BY <2>0
  <2>2. ListsHold'
    <3>1. PICK known \in SUBSET (DOMAIN calls) : pendingCalls' = Picked(calls, known)
      BY <2>1
    <3>2. n \in Nat
      BY ContextConstants
    <3> QED BY <2>1, <3>1, <3>2, CallsStep DEF ContextInv
  <2>3. RestHolds'
    <3>1. recalled' => \E i \in DOMAIN history' : IsUser(history'[i])
      <4>1. PICK m : m = Make("assistant", calls, 0, reasoning, 0)
        OBVIOUS
      <4>2. PICK new : history' = Append(history, new)
        BY <2>1 DEF AppendMessage
      <4>3. history \in Seq(Message)
        BY DEF ContextInv, HistoryHolds
      <4>4. \A i \in DOMAIN history : i \in DOMAIN history' /\ history'[i] = history[i]
        BY <4>2, <4>3
      <4> QED BY <1>4, <4>4 DEF ContextInv, NodeHolds, ModelAnswers
    <3> QED BY <1>4, <3>1 DEF ContextInv, NodeHolds, ModelAnswers, AfterModel
  <2>4. RequestWellFormed'
    BY <1>4, RequestKept DEF ModelAnswers
  <2> QED BY <2>2, <2>3, <2>4 DEF ContextInv
<1>5. CASE ModelLeavesNoCalls
  <2>1. pendingCalls' = <<>> /\ pendingCalls = <<>>
    BY <1>5 DEF ModelLeavesNoCalls, ContextInv, NodeHolds
  <2>2. /\ ListsHold'
        /\ (\E i \in DOMAIN history : IsUser(history[i]))
             => \E i \in DOMAIN history' : IsUser(history'[i])
    <3>1. CASE AppendMessage(Plain("assistant", 0))
      BY <2>1, <3>1, PlainKeeps
    <3>2. CASE UNCHANGED history
      BY <2>1, <3>2, SameMessages
    <3> QED BY <1>5, <3>1, <3>2 DEF ModelLeavesNoCalls
  <2>3. RestHolds'
    BY <1>5, <2>1, <2>2 DEF ContextInv, NodeHolds, ModelLeavesNoCalls, AfterModel
  <2>4. RequestWellFormed'
    BY <1>5, RequestKept DEF ModelLeavesNoCalls
  <2> QED BY <2>2, <2>3, <2>4 DEF ContextInv
<1>6. CASE GateAnswers
  <2>1. PICK n \in 0..Len(pendingCalls) :
          /\ GateAnswersFirst(n)
          /\ node' = IF n < Len(pendingCalls) THEN "idle"
                     ELSE IF unverified' THEN "verification" ELSE "model"
    BY <1>6 DEF GateAnswers, GateAnswersFirst
  <2>2. /\ ListsHold'
        /\ n = Len(pendingCalls) => pendingCalls' = <<>>
        /\ \A i \in DOMAIN history : i \in DOMAIN history' /\ history'[i] = history[i]
    BY <2>1, GateStep DEF ContextInv
  <2>3. node' # "idle" => n = Len(pendingCalls)
    <3>1. Len(pendingCalls) \in Nat
      <4>1. PICK top \in Nat : pendingCalls \in Seq(1..top)
        BY DEF ContextInv, CallsHold, IdsGiven
      <4> QED BY <4>1
    <3> QED BY <2>1, <3>1
  <2>4. RestHolds'
    <3>1. node' \in {"idle", "verification", "model"}
      BY <2>1
    <3>2. node' \in {"memory_prepare", "model", "verification"} => pendingCalls' = <<>>
      BY <2>2, <2>3
    <3>3. recalled' => \E i \in DOMAIN history' : IsUser(history'[i])
      BY <1>6, <2>2 DEF ContextInv, NodeHolds, GateAnswers
    <3> QED BY <1>6, <3>1, <3>2, <3>3 DEF ContextInv, NodeHolds, GateAnswers
  <2>5. RequestWellFormed'
    BY <1>6, RequestKept DEF GateAnswers
  <2> QED BY <2>2, <2>4, <2>5 DEF ContextInv
<1>7. CASE GateGivesUp
  <2>1. /\ ListsHold'
        /\ (\E i \in DOMAIN history : IsUser(history[i]))
             => \E i \in DOMAIN history' : IsUser(history'[i])
    <3>1. AppendMessage(Plain("assistant", 0)) /\ pendingCalls' = <<>>
      BY <1>7 DEF GateGivesUp
    <3> QED BY <3>1, PlainKeeps
  <2>2. RestHolds'
    BY <1>7, <2>1 DEF ContextInv, NodeHolds, GateGivesUp
  <2>3. RequestWellFormed'
    BY <1>7, RequestKept DEF GateGivesUp
  <2> QED BY <2>1, <2>2, <2>3 DEF ContextInv
<1>8. CASE VerificationPasses
  <2>1. /\ ListsHold'
        /\ (\E i \in DOMAIN history : IsUser(history[i]))
             => \E i \in DOMAIN history' : IsUser(history'[i])
    <3>1. AppendMessage(Plain("system", 0)) /\ pendingCalls' = <<>>
      BY <1>8 DEF VerificationPasses, ContextInv, NodeHolds
    <3> QED BY <3>1, PlainKeeps
  <2>2. RestHolds'
    BY <1>8, <2>1 DEF ContextInv, NodeHolds, VerificationPasses
  <2>3. RequestWellFormed'
    BY <1>8, RequestKept DEF VerificationPasses
  <2> QED BY <2>1, <2>2, <2>3 DEF ContextInv
<1>9. CASE VerificationBlocks
  <2>1. /\ ListsHold'
        /\ (\E i \in DOMAIN history : IsUser(history[i]))
             => \E i \in DOMAIN history' : IsUser(history'[i])
    <3>1. AppendMessage(Plain("assistant", 0)) /\ pendingCalls' = <<>>
      BY <1>9 DEF VerificationBlocks, ContextInv, NodeHolds
    <3> QED BY <3>1, PlainKeeps
  <2>2. RestHolds'
    BY <1>9, <2>1 DEF ContextInv, NodeHolds, VerificationBlocks
  <2>3. RequestWellFormed'
    BY <1>9, RequestKept DEF VerificationBlocks
  <2> QED BY <2>1, <2>2, <2>3 DEF ContextInv
<1>10. CASE Interrupt
  <2>1. ListsHold'
    BY <1>10, SameMessages DEF Interrupt
  <2>2. RestHolds'
    BY <1>10 DEF ContextInv, NodeHolds, Interrupt
  <2>3. RequestWellFormed'
    BY <1>10, RequestKept DEF Interrupt
  <2> QED BY <2>1, <2>2, <2>3 DEF ContextInv
<1>11. CASE UNCHANGED contextVars
  <2>1. ListsHold'
    BY <1>11, SameMessages DEF contextVars
  <2>2. RestHolds'
    BY <1>11 DEF ContextInv, NodeHolds, contextVars
  <2>3. RequestWellFormed'
    BY <1>11, RequestKept DEF contextVars
  <2> QED BY <2>1, <2>2, <2>3 DEF ContextInv
<1> QED BY <1>1, <1>2, <1>3, <1>4, <1>5, <1>6, <1>7, <1>8, <1>9, <1>10, <1>11 DEF ContextNext

\* The inductive invariant of the conversation's messages holds.
THEOREM ContextInvariant == ContextSpec => []ContextInv
<1> QED BY ContextInitInv, ContextNextInv, PTL DEF ContextSpec

\* Whatever pauses, new messages, failures and the window did to the history, every
\* request the model node sends has each call with its answers right behind it, no
\* other tool messages, and reasoning_content on all assistant messages or on none
\* (sanitize_messages_for_openai, _ensure_reasoning_content).
THEOREM RequestsAreWellFormed == ContextSpec => []RequestWellFormed
<1>1. ContextInv => RequestWellFormed
  BY DEF ContextInv
<1> QED BY <1>1, ContextInvariant, PTL

-----------------------------------------------------------------------------
(* The current turn *)

\* From the user's last message on, msgs shows the history, c places further on,
\* and the memory context before it.
ShowsTurn(msgs, c) ==
    /\ c \in Nat
    /\ \A i \in DOMAIN history : i >= LastUser(history) =>
          i + c \in DOMAIN msgs /\ msgs[i + c] = history[i]
    /\ recalled => /\ LastUser(history) + c - 1 \in DOMAIN msgs
                   /\ msgs[LastUser(history) + c - 1] = MemoryMessage

\* InjectMemory puts the memory context right before the user's last message.
LEMMA InjectedShowsTurn ==
    ASSUME ContextInv
    PROVE  \E c : ShowsTurn(InjectMemory(history), c)
<1>0. PICK last, len : last = LastUser(history) /\ len = Len(history)
  OBVIOUS
<1>1. /\ DrawnList(history) /\ history \in Seq(Message)
      /\ len \in Nat /\ DOMAIN history = 1..len
      /\ last \in 0..len
      /\ \A i \in DOMAIN history : IsUser(history[i]) => i <= last
  <2>1. DrawnList(history) /\ history \in Seq(Message)
    BY DrawnHistory DEF ContextInv, DrawnList
  <2>2. len \in Nat /\ DOMAIN history = 1..len
    BY <1>0, <2>1
  <2> QED BY <1>0, <2>1, <2>2, LastUserFacts
<1>2. CASE recalled
  <2>1. last \in 1..len
    <3>1. \E i \in DOMAIN history : IsUser(history[i])
      BY <1>2 DEF ContextInv, NodeHolds
    <3> QED BY <1>1, <3>1
  <2>2. PICK all : all = InjectMemory(history)
    OBVIOUS
  <2>3. all = InsertAt(history, last, MemoryMessage)
    <3>1. history # <<>>
      BY <1>1, <2>1
    <3> QED BY <1>0, <1>2, <2>1, <2>2, <3>1 DEF InjectMemory
  <2>4. /\ DrawnList(all) /\ Len(all) = len + 1
        /\ all[last] = MemoryMessage
        /\ \A n \in last..len : all[n + 1] = history[n]
    BY <1>0, <1>1, <2>1, <2>3, InsertedFacts
  <2>5. DOMAIN all = 1..len + 1
    BY <2>4 DEF DrawnList
  <2>6. ShowsTurn(all, 1)
    <3>1. last + 1 - 1 = last /\ last \in DOMAIN all
      BY <1>1, <2>1, <2>5
    <3>2. ASSUME NEW i \in DOMAIN history, i >= last
          PROVE  i + 1 \in DOMAIN all /\ all[i + 1] = history[i]
      <4>1. i \in last..len /\ i + 1 \in 1..len + 1
        BY <1>1, <2>1, <3>2
      <4> QED BY <2>4, <2>5, <4>1
    <3> QED BY <1>0, <2>4, <3>1, <3>2 DEF ShowsTurn
  <2> QED BY <2>2, <2>6
<1>3. CASE ~recalled
  <2>1. InjectMemory(history) = history
    BY <1>3 DEF InjectMemory
  <2>2. \A i \in DOMAIN history : i + 0 = i
    BY <1>1
  <2>3. ShowsTurn(history, 0)
    BY <1>3, <2>2 DEF ShowsTurn
  <2> QED BY <2>1, <2>3
<1> QED BY <1>2, <1>3

\* While it fits the window, the list that is repaired shows the turn.
LEMMA PreparedShowsTurn ==
    ASSUME ContextInv, Len(InjectMemory(history)) <= Window
    PROVE  \E c : ShowsTurn(
                   PrepareMessagesWithSystemPrompt(WindowMessages(InjectMemory(history))), c)
<1>1. PICK msgs : msgs = InjectMemory(history)
  OBVIOUS
<1>2. WindowMessages(msgs) = msgs
  BY <1>1 DEF WindowMessages, Fits
<1>3. DrawnList(msgs)
  BY <1>1, InjectedList DEF ContextInv
<1>4. PICK c : ShowsTurn(msgs, c)
  BY <1>1, InjectedShowsTurn
<1>5. PICK made, whole : made = <<MemoryMessage>> /\ whole = made \o msgs
  OBVIOUS
<1>6. PrepareMessagesWithSystemPrompt(msgs) \in {msgs, whole}
  BY <1>5 DEF PrepareMessagesWithSystemPrompt, MemoryMessage
<1>7. ShowsTurn(whole, c + 1)
  <2>1. DrawnList(made) /\ Len(made) = 1 /\ Apart(made, msgs)
    BY <1>5, DrawnMade
  <2>2. \A n \in DOMAIN msgs : Len(made) + n \in DOMAIN whole /\ whole[Len(made) + n] = msgs[n]
    BY <1>3, <1>5, <2>1, DrawnJoin
  <2>3. /\ DOMAIN msgs \subseteq Int /\ DOMAIN history \subseteq Int
        /\ c \in Nat /\ LastUser(history) \in Int
    <3>1. history \in Seq(Message) /\ msgs \in Seq(Message)
      BY <1>3 DEF ContextInv, HistoryHolds, DrawnList
    <3>2. LastUser(history) \in 0..Len(history) /\ Len(history) \in Nat
      BY <3>1, LastUserFacts
    <3> QED BY <1>4, <3>1, <3>2 DEF ShowsTurn
  <2>4. \A n \in DOMAIN msgs : n + 1 \in DOMAIN whole /\ whole[n + 1] = msgs[n]
    <3>1. \A n \in DOMAIN msgs : Len(made) + n = n + 1
      BY <2>1, <2>3
    <3> QED BY <2>2, <3>1
  <2>5. ASSUME NEW i \in DOMAIN history, i >= LastUser(history)
        PROVE  i + (c + 1) \in DOMAIN whole /\ whole[i + (c + 1)] = history[i]
    <3>1. i + c \in DOMAIN msgs /\ msgs[i + c] = history[i]
      BY <1>4, <2>5 DEF ShowsTurn
    <3>2. i + (c + 1) = (i + c) + 1
      BY <2>3
    <3> QED BY <2>4, <3>1, <3>2
  <2>6. ASSUME recalled
        PROVE  /\ LastUser(history) + (c + 1) - 1 \in DOMAIN whole
               /\ whole[LastUser(history) + (c + 1) - 1] = MemoryMessage
    <3>1. /\ LastUser(history) + c - 1 \in DOMAIN msgs
          /\ msgs[LastUser(history) + c - 1] = MemoryMessage
      BY <1>4, <2>6 DEF ShowsTurn
    <3>2. LastUser(history) + (c + 1) - 1 = (LastUser(history) + c - 1) + 1
      BY <2>3
    <3> QED BY <2>4, <3>1, <3>2
  <2>7. c + 1 \in Nat
    BY <2>3
  <2> QED BY <2>5, <2>6, <2>7 DEF ShowsTurn
<1> QED BY <1>1, <1>2, <1>4, <1>6, <1>7

\* No message comes to stand between two that were neighbours.
LEMMA NeighboursStay ==
    ASSUME NEW r, NEW msgs \in Seq(Message), NEW g, Repairs(r, msgs, g),
           NEW m \in DOMAIN r, NEW n \in DOMAIN r, g[m] = g[n] - 1
    PROVE  m = n - 1
<1>1. DOMAIN r = 1..Len(r) /\ Len(r) \in Nat
  BY DEF Repairs
<1>2. \A k \in DOMAIN r : g[k] \in Int
  BY DEF Repairs, Kept
<1>3. m < n
  <2>1. ASSUME n < m \/ n = m PROVE FALSE
    <3>1. g[n] < g[m] \/ g[n] = g[m]
      BY <2>1 DEF Repairs
    <3> QED BY <1>2, <3>1
  <2> QED BY <1>1, <2>1
<1>4. ASSUME m < n - 1 PROVE FALSE
  <2>1. m + 1 \in DOMAIN r /\ m < m + 1 /\ m + 1 < n
    BY <1>1, <1>4
  <2>2. g[m] < g[m + 1] /\ g[m + 1] < g[n]
    BY <2>1 DEF Repairs
  <2> QED BY <1>2, <2>1, <2>2
<1> QED BY <1>1, <1>3, <1>4

\* A message the repair keeps is sent with its place in the history.
LEMMA KeptIsSent ==
    ASSUME NEW msgs, NEW r, NEW g, NEW s, Repairs(r, msgs, g), Alike(r, s), NEW i \in Kept(msgs)
    PROVE  \E n \in DOMAIN s : n \in DOMAIN r /\ g[n] = i /\ s[n].at = msgs[i].at
<1>1. PICK n \in DOMAIN r : g[n] = i
  BY DEF Repairs
<1>2. n \in DOMAIN s /\ s[n].at = msgs[i].at
  BY <1>1 DEF Repairs, Cleaned, Alike
<1> QED BY <1>1, <1>2

\* The turn is all in the request: repair and reasoning fields drop none of it.
LEMMA TurnSent ==
    ASSUME ContextInv, Len(InjectMemory(history)) <= Window, NEW s, s = Prepared
    PROVE  LET last == LastUser(history)
               sent(i) == {k \in DOMAIN s : s[k].at = i}
           IN  /\ \A k \in sent(last) : recalled => s[k - 1] = MemoryMessage
               /\ last # 0 => sent(last) # {}
               /\ \A i \in last + 1..Len(history) :
                     IsTool(history[i])
                     /\ (\E j \in last + 1..i : history[i].tool_call_id \in CallIds(history[j]))
                     => sent(i) # {}
<1>0. PICK last, len : last = LastUser(history) /\ len = Len(history)
  OBVIOUS
<1>1. /\ history \in Seq(Message) /\ len \in Nat /\ DOMAIN history = 1..len
      /\ last \in 0..len
      /\ last # 0 => IsUser(history[last])
      /\ \A i \in DOMAIN history : IsUser(history[i]) => i <= last
      /\ \A i \in DOMAIN history : history[i].at = i
  <2>1. /\ history \in Seq(Message)
        /\ \A i \in DOMAIN history : history[i].at = i
    BY DEF ContextInv, HistoryHolds
  <2>2. len \in Nat /\ DOMAIN history = 1..len
    BY <1>0, <2>1
  <2> QED BY <1>0, <2>1, <2>2, LastUserFacts
<1>2. PICK msgs, r :
        /\ msgs = PrepareMessagesWithSystemPrompt(WindowMessages(InjectMemory(history)))
        /\ r = SanitizeMessages(msgs)
        /\ s = Reasoned(r)
  BY DEF Prepared
<1>3. /\ DrawnList(msgs) /\ msgs \in Seq(Message)
      /\ DOMAIN msgs = 1..Len(msgs) /\ Len(msgs) \in Nat
  <2>1. DrawnList(msgs) /\ msgs \in Seq(Message)
    BY <1>2, PreparedList DEF ContextInv, DrawnList
  <2> QED BY <2>1
<1>4. PICK c : ShowsTurn(msgs, c)
  BY <1>2, PreparedShowsTurn
<1>5. PICK g : Repairs(r, msgs, g)
  BY <1>2, <1>3, Repaired
<1>6. Alike(r, s) /\ r \in Seq(Message)
  BY <1>2, <1>5, ReasonedFacts DEF Repairs
<1>7. /\ c \in Nat
      /\ \A i \in DOMAIN history : i >= last => i + c \in DOMAIN msgs /\ msgs[i + c] = history[i]
  BY <1>0, <1>4 DEF ShowsTurn
<1>8. ASSUME last # 0 PROVE last + c \in Kept(msgs) /\ msgs[last + c].at = last
  <2>1. last \in DOMAIN history /\ last >= last
    BY <1>1, <1>8
  <2>2. last + c \in DOMAIN msgs /\ msgs[last + c] = history[last]
    BY <1>7, <2>1
  <2>3. ~IsTool(msgs[last + c])
    BY <1>1, <1>8, <2>2 DEF IsUser, IsTool
  <2> QED BY <1>1, <2>1, <2>2, <2>3 DEF Kept
<1>9. ASSUME last # 0 PROVE \E n \in DOMAIN s : s[n].at = last
  BY <1>5, <1>6, <1>8, <1>9, KeptIsSent
<1>10. ASSUME NEW k \in DOMAIN s, s[k].at = last, recalled PROVE s[k - 1] = MemoryMessage
  <2>1. last # 0
    <3>1. \E i \in DOMAIN history : IsUser(history[i])
      BY <1>10 DEF ContextInv, NodeHolds
    <3> QED BY <1>1, <3>1
  <2>2. k \in DOMAIN r /\ g[k] \in DOMAIN msgs /\ msgs[g[k]].at = last
    <3>1. k \in DOMAIN r /\ r[k].at = last
      BY <1>6, <1>10 DEF Alike
    <3> QED BY <1>5, <3>1 DEF Repairs, Cleaned, Kept
  <2>3. g[k] = last + c
    <3>1. last + c \in DOMAIN msgs /\ msgs[last + c].at = last
      BY <1>8, <2>1 DEF Kept
    <3> QED BY <1>3, <2>1, <2>2, <3>1 DEF DrawnList
  <2>4. last + c - 1 \in DOMAIN msgs /\ msgs[last + c - 1] = MemoryMessage
    BY <1>0, <1>4, <1>10 DEF ShowsTurn
  <2>5. MemoryMessage = [role |-> "system", tool_calls |-> <<>>, tool_call_id |-> 0,
                         reasoning_content |-> FALSE, at |-> 0]
    BY DEF MemoryMessage, Plain, Make
  <2>6. last + c - 1 \in Kept(msgs)
    <3>1. ~IsTool(msgs[last + c - 1])
      BY <2>4, <2>5 DEF IsTool
    <3> QED BY <2>4, <3>1 DEF Kept
  <2>7. PICK n \in DOMAIN r : g[n] = last + c - 1
    BY <1>5, <2>6 DEF Repairs
  <2>8. n = k - 1
    <3>1. g[n] = g[k] - 1
      BY <1>1, <1>7, <2>3, <2>7
    <3> QED BY <1>3, <1>5, <2>2, <3>1, NeighboursStay
  <2>9. r[n] = MemoryMessage
    <3>1. Cleaned(r[n], MemoryMessage, ValidToolCallIds(msgs)) /\ r[n] \in Message
      BY <1>5, <1>6, <2>4, <2>7 DEF Repairs
    <3>2. /\ r[n].role = "system" /\ r[n].tool_call_id = 0 /\ r[n].at = 0
          /\ r[n].reasoning_content = FALSE /\ r[n].tool_calls = <<>>
      BY <2>5, <3>1 DEF Cleaned
    <3>3. r[n] = [role |-> r[n].role, tool_calls |-> r[n].tool_calls,
                  tool_call_id |-> r[n].tool_call_id,
                  reasoning_content |-> r[n].reasoning_content, at |-> r[n].at]
      BY <3>1 DEF Message
    <3> QED BY <2>5, <3>2, <3>3
  <2>10. r[n].role # "assistant"
    BY <2>5, <2>9
  <2>11. s[n] = r[n]
    BY <1>6, <2>10 DEF Alike
  <2> QED BY <2>8, <2>9, <2>11
<1>11. ASSUME NEW i \in last + 1..len, NEW j \in last + 1..i, IsTool(history[i]),
              history[i].tool_call_id \in CallIds(history[j])
       PROVE  \E n \in DOMAIN s : s[n].at = i
  <2>0. PICK id : id = history[i].tool_call_id
    OBVIOUS
  <2>1. i \in DOMAIN history /\ j \in DOMAIN history /\ i >= last /\ j >= last
    BY <1>1
  <2>2. /\ i + c \in DOMAIN msgs /\ msgs[i + c] = history[i]
        /\ j + c \in DOMAIN msgs /\ msgs[j + c] = history[j]
    BY <1>7, <2>1
  <2>3. j # i
    <3>1. history[i].tool_calls = <<>>
      BY <1>11, <2>1 DEF ContextInv, HistoryHolds, IsTool
    <3>2. CallIds(history[i]) = {}
      BY <3>1 DEF CallIds, ToSet
    <3> QED BY <1>11, <3>2
  <2>4. j + c < i + c /\ j + c \in 1..(i + c) - 1
    BY <1>1, <1>7, <2>1, <2>3
  <2>5. ASSUME NEW k \in j + c + 1..i + c PROVE IsTool(msgs[k])
    <3>1. k - c \in j + 1..i /\ k - c \in DOMAIN history /\ k - c > last /\ (k - c) + c = k
      BY <1>1, <1>7, <2>1
    <3>2. IsTool(history[k - c]) \/ IsUser(history[k - c])
      BY <1>11, <2>1, <3>1 DEF ContextInv, AnswersInOrder, OnlyAnswers
    <3>3. IsTool(history[k - c])
      BY <1>1, <3>1, <3>2
    <3>4. msgs[k] = history[k - c]
      <4>1. k - c >= last
        BY <1>1, <3>1
      <4> QED BY <1>7, <3>1, <4>1
    <3> QED BY <3>3, <3>4
  <2>6. id \in CallIds(msgs[j + c]) /\ msgs[i + c].tool_call_id = id
    BY <1>11, <2>0, <2>2
  <2>7. id \in ValidToolCallIds(msgs)
    <3>1. PICK a, b : a = j + c /\ b = i + c
      OBVIOUS
    <3>2. /\ a \in DOMAIN msgs /\ b \in DOMAIN msgs
          /\ id \in CallIds(msgs[a]) /\ a < b /\ msgs[b].tool_call_id = id
          /\ \A k \in a + 1..b : IsTool(msgs[k])
      BY <2>2, <2>4, <2>5, <2>6, <3>1
    <3> QED BY <1>3, <3>2, ValidCallFacts
  <2>8. i + c \in Kept(msgs)
    <3>1. id \in Seen(msgs, i + c)
      BY <2>4, <2>6, <2>7 DEF Seen
    <3> QED BY <2>2, <2>6, <3>1 DEF Kept
  <2>9. msgs[i + c].at = i
    BY <1>1, <2>1, <2>2
  <2> QED BY <1>5, <1>6, <2>8, <2>9, KeptIsSent
<1> QED BY <1>0, <1>9, <1>10, <1>11

\* While the conversation fits the window, every request shows the user's last
\* message, right behind the memory context if there is one, and every answered call
\* made since (model_node.py, "Inject memory context just before the last user
\* message").
THEOREM CurrentTurnStaysInView == ContextSpec => CurrentTurnInView
<1> DEFINE View == request' # request =>
             LET last == LastUser(history)
                 sent(i) == {k \in DOMAIN request' : request'[k].at = i}
             IN  Len(InjectMemory(history)) <= Window =>
                   /\ \A k \in sent(last) : recalled => request'[k - 1] = MemoryMessage
                   /\ last # 0 => sent(last) # {}
                   /\ \A i \in last + 1..Len(history) :
                         IsTool(history[i])
                         /\ (\E j \in last + 1..i : history[i].tool_call_id \in CallIds(history[j]))
                         => sent(i) # {}
<1>1. ASSUME ContextInv, [ContextNext]_contextVars PROVE [View]_contextVars
  <2>1. request' = request \/ request' = Prepared
    BY <1>1 DEF ContextNext, ChatAdds, ApprovalResumes, PrepareMemory, ModelAnswers,
       ModelLeavesNoCalls, GateAnswers, GateGivesUp, VerificationPasses, VerificationBlocks,
       Interrupt, contextVars
  <2>2. CASE request' = request
    BY <2>2
  <2>3. CASE request' = Prepared
    BY <1>1, <2>3, TurnSent
  <2> QED BY <2>1, <2>2, <2>3
<1>2. CurrentTurnInView <=> [][View]_contextVars
  BY DEF CurrentTurnInView
<1> QED BY <1>1, <1>2, ContextInitInv, ContextNextInv, PTL DEF ContextSpec

-----------------------------------------------------------------------------
(* The response: calls assembled from fragments *)

Styles == {"indexed", "responses", "anonymous"}
Identified == style \in {"indexed", "responses"}

\* How many fragments of call k have arrived, and how many of its arguments.
Arrived(k) == Len(FragmentsOf(k)) - Len(wire[k])
ArrivedParts(k) == IF Arrived(k) > Parts THEN Parts ELSE Arrived(k) - 1

\* What is to come of each call is the rest of it.
WireHolds ==
    \E n \in Nat :
        /\ wire = [k \in 1..n |-> wire[k]]
        /\ \A k \in 1..n :
              /\ \E S : wire[k] \in Seq(S)
              /\ Len(wire[k]) <= Len(FragmentsOf(k))
              /\ \A i \in 1..Len(wire[k]) : wire[k][i] = FragmentsOf(k)[Arrived(k) + i]

\* The first m calls have started; a provider that sends one call after the other
\* has sent all of those before the last.
StartedHolds(m) ==
    /\ m \in {0} \cup DOMAIN wire
    /\ \A k \in DOMAIN wire : Started(k) <=> k <= m
    /\ style = "responses" => \A k \in 1..m - 1 : wire[k] = <<>>

\* Each of them has the slot of its number.
SlotsHold(m) ==
    /\ tool_calls_buffer = [i \in 0..m - 1 |-> tool_calls_buffer[i]]
    /\ \A k \in 1..m :
          tool_calls_buffer[k - 1] =
             [id |-> IF Identified THEN k ELSE 0, name |-> k,
              arguments |-> [p \in 1..ArrivedParts(k) |-> <<k, p>>]]

\* The ids lead to the slots, and the id last seen with an index to its call.
IdsHold(m) ==
    /\ tool_call_id_to_index = IF Identified THEN [k \in 1..m |-> k - 1] ELSE NoCalls
    /\ Identified => next_internal_index = m
    /\ last_seen_id_for_reported_index =
          IF style = "indexed" THEN [i \in 0..m - 1 |-> i + 1]
          ELSE IF Identified /\ m # 0 THEN [i \in {0} |-> m]
          ELSE NoCalls

Assembling(m) == StartedHolds(m) /\ SlotsHold(m) /\ IdsHold(m)

AssemblyInv ==
    /\ style \in Styles
    /\ streamAt = "streaming" => WireHolds /\ \E m \in Nat : Assembling(m)

-----------------------------------------------------------------------------

\* The fragments of a call: its label, its arguments in order, and for a provider
\* that closes its calls the label once more.
LEMMA FragmentFacts ==
    ASSUME style \in Styles, NEW k \in Nat \ {0}
    PROVE  /\ FragmentsOf(k) \in Seq({Label(k)} \cup {Fragment(Label(k).index, 0, 0, <<k, p>>) : p \in 1..Parts})
           /\ Len(FragmentsOf(k)) = IF style = "responses" THEN Parts + 2 ELSE Parts + 1
           /\ FragmentsOf(k)[1] = Label(k)
           /\ \A p \in 1..Parts :
                 FragmentsOf(k)[p + 1] = Fragment(Label(k).index, 0, 0, <<k, p>>)
           /\ style = "responses" => FragmentsOf(k)[Parts + 2] = Label(k)
<1> DEFINE arg(p) == Fragment(Label(k).index, 0, 0, <<k, p>>)
           S == {Label(k)} \cup {arg(p) : p \in 1..Parts}
           args == ArgumentFragments(k, Label(k).index)
           end == IF style = "responses" THEN <<Label(k)>> ELSE <<>>
           head == <<Label(k)>>
<1>0. Parts \in Nat
  BY StreamConstants
<1>1. args = [p \in 1..Parts |-> arg(p)] /\ \A p \in 1..Parts : arg(p) \in S
  BY DEF ArgumentFragments
<1>2. FragmentsOf(k) = head \o args \o end
  BY DEF FragmentsOf
<1>3. Label(k) \in S
  OBVIOUS
<1> HIDE DEF args, S, arg
<1>4. /\ args \in Seq(S) /\ Len(args) = Parts
      /\ \A p \in 1..Parts : args[p] = arg(p)
  BY <1>0, <1>1, IsASeq
<1>5. /\ head \in Seq(S) /\ Len(head) = 1 /\ head[1] = Label(k)
  BY <1>3
<1>6. /\ end \in Seq(S) 
      /\ style = "responses" => Len(end) = 1 /\ end[1] = Label(k)
      /\ style # "responses" => Len(end) = 0
  BY <1>3
<1> HIDE DEF head, end
<1>7. /\ head \o args \in Seq(S) /\ Len(head \o args) = Parts + 1
      /\ (head \o args)[1] = Label(k)
      /\ \A p \in 1..Parts : (head \o args)[p + 1] = arg(p)
  <2>1. /\ head \o args \in Seq(S) /\ Len(head \o args) = Len(head) + Len(args)
        /\ \A i \in 1..Len(head) + Len(args) :
              (head \o args)[i] = IF i <= Len(head) THEN head[i] ELSE args[i - Len(head)]
    BY <1>4, <1>5, ConcatProperties
  <2>2. ASSUME NEW p \in 1..Parts PROVE (head \o args)[p + 1] = arg(p)
    <3>1. /\ p + 1 \in 1..Len(head) + Len(args) /\ ~(p + 1 <= Len(head))
          /\ p + 1 - Len(head) = p
      BY <1>0, <1>4, <1>5
    <3> QED BY <1>4, <2>1, <3>1
  <2> QED BY <1>0, <1>4, <1>5, <2>1, <2>2
<1> DEFINE front == head \o args
<1>8. /\ front \in Seq(S) /\ Len(front) = Parts + 1
      /\ front[1] = Label(k)
      /\ \A p \in 1..Parts : front[p + 1] = arg(p)
  BY <1>7
<1> HIDE DEF front
<1>9. /\ front \o end \in Seq(S)
      /\ Len(front \o end) = IF style = "responses" THEN Parts + 2 ELSE Parts + 1
      /\ (front \o end)[1] = Label(k)
      /\ \A p \in 1..Parts : (front \o end)[p + 1] = arg(p)
      /\ style = "responses" => (front \o end)[Parts + 2] = Label(k)
  <2>1. /\ front \o end \in Seq(S) /\ Len(front \o end) = Len(front) + Len(end)
        /\ \A i \in 1..Len(front) + Len(end) :
              (front \o end)[i] = IF i <= Len(front) THEN front[i] ELSE end[i - Len(front)]
    BY <1>6, <1>8, ConcatProperties
  <2>2. Len(end) \in Nat
    BY <1>6
  <2>3. /\ (front \o end)[1] = front[1]
        /\ \A p \in 1..Parts : (front \o end)[p + 1] = front[p + 1]
    BY <1>0, <1>8, <2>1, <2>2
  <2>4. ASSUME style = "responses" PROVE (front \o end)[Parts + 2] = Label(k)
    <3>1. Len(end) = 1 /\ end[1] = Label(k) /\ Len(front) = Parts + 1
      BY <1>6, <1>8, <2>4
    <3>2. /\ Parts + 2 \in 1..Len(front) + Len(end) /\ ~(Parts + 2 <= Len(front))
          /\ Parts + 2 - Len(front) = 1
      BY <1>0, <3>1
    <3> QED BY <2>1, <3>1, <3>2
  <2> QED BY <1>0, <1>6, <1>8, <2>1, <2>3, <2>4
<1> QED BY <1>2, <1>9 DEF front, S, arg

\* How a provider labels its calls does not change, nor what they consist of.
LEMMA StyleKept ==
    ASSUME style' = style
    PROVE  \A k : FragmentsOf(k)' = FragmentsOf(k) /\ Label(k)' = Label(k)
  BY DEF FragmentsOf, ArgumentFragments, Label

\* What a fragment on the wire is, and what remains when it has arrived.
LEMMA RestOfWire ==
    ASSUME style \in Styles, WireHolds, style' = style,
           NEW k \in DOMAIN wire, wire[k] # <<>>,
           wire' = [wire EXCEPT ![k] = Tail(@)]
    PROVE  /\ WireHolds'
           /\ k \in Nat \ {0} /\ DOMAIN wire' = DOMAIN wire
           /\ Arrived(k) \in 0..Len(FragmentsOf(k)) - 1
           /\ Arrived(k)' = Arrived(k) + 1
           /\ Head(wire[k]) = FragmentsOf(k)[Arrived(k) + 1]
           /\ Started(k)'
           /\ \A j \in DOMAIN wire : j # k =>
               wire'[j] = wire[j] /\ Arrived(j)' = Arrived(j) /\ (Started(j)' <=> Started(j))
<1>1. PICK n \in Nat :
        /\ wire = [j \in 1..n |-> wire[j]]
        /\ \A j \in 1..n :
              /\ \E S : wire[j] \in Seq(S)
              /\ Len(wire[j]) <= Len(FragmentsOf(j))
              /\ \A i \in 1..Len(wire[j]) : wire[j][i] = FragmentsOf(j)[Arrived(j) + i]
  BY DEF WireHolds
<1>2. DOMAIN wire = 1..n /\ k \in 1..n /\ k \in Nat \ {0}
  <2>1. DOMAIN wire = 1..n
    BY <1>1
  <2> QED BY <2>1
<1>3. /\ wire' = [j \in 1..n |-> wire'[j]] /\ DOMAIN wire' = 1..n
      /\ wire'[k] = Tail(wire[k])
      /\ \A j \in 1..n : j # k => wire'[j] = wire[j]
  BY <1>1, <1>2
<1>4. PICK S : wire[k] \in Seq(S)
  BY <1>1, <1>2
<1>5. Len(FragmentsOf(k)) \in Nat
  BY <1>2, FragmentFacts, LenProperties
<1>6. /\ Len(wire[k]) \in Nat /\ Len(wire[k]) > 0
      /\ Tail(wire[k]) \in Seq(S) /\ Len(Tail(wire[k])) = Len(wire[k]) - 1
      /\ Head(wire[k]) = wire[k][1]
      /\ \A i \in 1..Len(wire[k]) - 1 : Tail(wire[k])[i] = wire[k][i + 1]
  BY <1>4
<1>7. \A j : FragmentsOf(j)' = FragmentsOf(j)
  BY StyleKept
<1>8. /\ Arrived(k) = Len(FragmentsOf(k)) - Len(wire[k])
      /\ Arrived(k)' = Len(FragmentsOf(k)) - Len(wire'[k])
  BY <1>7 DEF Arrived
<1>9. Len(wire[k]) <= Len(FragmentsOf(k))
  BY <1>1, <1>2
<1>10. /\ Arrived(k) \in 0..Len(FragmentsOf(k)) - 1
       /\ Arrived(k)' = Arrived(k) + 1
  BY <1>3, <1>5, <1>6, <1>8, <1>9
<1>11. Head(wire[k]) = FragmentsOf(k)[Arrived(k) + 1]
  <2>1. 1 \in 1..Len(wire[k])
    BY <1>6
  <2> QED BY <1>1, <1>2, <1>6, <2>1
<1>12. /\ \A j \in 1..n : j # k =>
               wire'[j] = wire[j] /\ Arrived(j)' = Arrived(j) /\ (Started(j)' <=> Started(j))
       /\ Started(k)'
  <2>1. ASSUME NEW j \in 1..n, j # k
        PROVE  wire'[j] = wire[j] /\ Arrived(j)' = Arrived(j) /\ (Started(j)' <=> Started(j))
    <3>1. wire'[j] = wire[j] /\ FragmentsOf(j)' = FragmentsOf(j)
      BY <1>3, <1>7, <2>1
    <3> QED BY <3>1 DEF Arrived, Started
  <2>2. Started(k)'
    BY <1>3, <1>5, <1>6, <1>7, <1>9 DEF Started
  <2> QED BY <2>1, <2>2
<1>13. WireHolds'
  <2>1. ASSUME NEW j \in 1..n
        PROVE  /\ \E T : wire'[j] \in Seq(T)
               /\ Len(wire'[j]) <= Len(FragmentsOf(j)')
               /\ \A i \in 1..Len(wire'[j]) : wire'[j][i] = FragmentsOf(j)'[Arrived(j)' + i]
    <3>1. CASE j # k
      BY <1>1, <1>7, <1>12, <3>1
    <3>2. CASE j = k
      <4>1. /\ wire'[k] \in Seq(S) /\ Len(wire'[k]) = Len(wire[k]) - 1
            /\ Len(wire'[k]) <= Len(FragmentsOf(k))
        BY <1>3, <1>5, <1>6, <1>9
      <4>2. ASSUME NEW i \in 1..Len(wire'[k])
            PROVE  wire'[k][i] = FragmentsOf(k)[Arrived(k)' + i]
        <5>1. i \in 1..Len(wire[k]) - 1 /\ i + 1 \in 1..Len(wire[k])
          BY <1>6, <4>1
        <5>2. wire'[k][i] = wire[k][i + 1]
          BY <1>3, <1>6, <5>1
        <5>3. wire[k][i + 1] = FragmentsOf(k)[Arrived(k) + (i + 1)]
          BY <1>1, <1>2, <5>1
        <5>4. Arrived(k) + (i + 1) = Arrived(k)' + i
          BY <1>5, <1>10, <5>1
        <5> QED BY <5>2, <5>3, <5>4
      <4> QED BY <1>7, <3>2, <4>1, <4>2
    <3> QED BY <3>1, <3>2
  <2>2. n \in Nat /\ wire' = [j \in 1..n |-> wire'[j]]
    BY <1>3
  <2> QED BY <2>1, <2>2 DEF WireHolds
<1> QED BY <1>2, <1>3, <1>10, <1>11, <1>12, <1>13

\* A call has started when some of it has arrived.
LEMMA StartedFacts ==
    ASSUME style \in Styles, WireHolds, NEW k \in DOMAIN wire
    PROVE  /\ k \in Nat \ {0}
           /\ Arrived(k) \in 0..Len(FragmentsOf(k))
           /\ Len(FragmentsOf(k)) \in {Parts + 1, Parts + 2}
           /\ Started(k) <=> Arrived(k) # 0
           /\ wire[k] = <<>> => Arrived(k) = Len(FragmentsOf(k)) /\ Started(k)
<1>1. PICK n \in Nat :
        /\ wire = [j \in 1..n |-> wire[j]]
        /\ \A j \in 1..n :
              /\ \E S : wire[j] \in Seq(S)
              /\ Len(wire[j]) <= Len(FragmentsOf(j))
              /\ \A i \in 1..Len(wire[j]) : wire[j][i] = FragmentsOf(j)[Arrived(j) + i]
  BY DEF WireHolds
<1>2. DOMAIN wire = 1..n
  BY <1>1
<1>3. k \in 1..n /\ k \in Nat \ {0}
  BY <1>2
<1>4. PICK S : wire[k] \in Seq(S)
  BY <1>1, <1>3
<1>5. Len(wire[k]) \in Nat /\ (wire[k] = <<>> => Len(wire[k]) = 0)
  BY <1>4
<1>6. Len(wire[k]) <= Len(FragmentsOf(k))
  BY <1>1, <1>3
<1>7. /\ Len(FragmentsOf(k)) \in {Parts + 1, Parts + 2}
      /\ Len(FragmentsOf(k)) \in Nat /\ Len(FragmentsOf(k)) # 0
  <2>1. Len(FragmentsOf(k)) = IF style = "responses" THEN Parts + 2 ELSE Parts + 1
    BY <1>3, FragmentFacts
  <2> QED BY <2>1, StreamConstants
<1> QED BY <1>3, <1>5, <1>6, <1>7 DEF Arrived, Started

\* The label of a call opens the next slot.
LEMMA LabelOpens ==
    ASSUME style \in Styles, WireHolds, style' = style, NEW m \in Nat, Assembling(m),
           NEW k \in DOMAIN wire, MayCome(k), Arrived(k) = 0,
           Collect(Head(wire[k])), wire' = [wire EXCEPT ![k] = Tail(@)]
    PROVE  Assembling(m + 1)'
<1>1. /\ k \in Nat \ {0} /\ DOMAIN wire' = DOMAIN wire
      /\ Head(wire[k]) = FragmentsOf(k)[1]
      /\ Arrived(k)' = 1 /\ Started(k)'
      /\ \A j \in DOMAIN wire : j # k =>
               wire'[j] = wire[j] /\ Arrived(j)' = Arrived(j) /\ (Started(j)' <=> Started(j))
  <2>1. wire[k] # <<>>
    BY DEF MayCome
  <2>2. /\ k \in Nat \ {0} /\ DOMAIN wire' = DOMAIN wire
        /\ Head(wire[k]) = FragmentsOf(k)[Arrived(k) + 1]
        /\ Arrived(k)' = Arrived(k) + 1 /\ Started(k)'
        /\ \A j \in DOMAIN wire : j # k =>
               wire'[j] = wire[j] /\ Arrived(j)' = Arrived(j) /\ (Started(j)' <=> Started(j))
    BY <2>1, RestOfWire
  <2> QED BY <2>2
<1>2. Head(wire[k]) = Label(k)
  BY <1>1, FragmentFacts
<1>3. PICK n \in Nat : DOMAIN wire = 1..n
  <2>1. PICK n \in Nat : wire = [j \in 1..n |-> wire[j]]
    BY DEF WireHolds
  <2> QED BY <2>1
<1>4. k = m + 1
  <2>1. ~(k <= m) /\ \A j \in 1..n : Started(j) <=> j <= m
    BY <1>3, StartedFacts DEF Assembling, StartedHolds
  <2>2. ASSUME NEW j \in 1..k - 1 PROVE j <= m
    <3>1. j \in 1..n
      BY <1>1, <1>3
    <3>2. Started(j)
      BY <1>3, <3>1, StartedFacts DEF MayCome
    <3> QED BY <2>1, <3>1, <3>2
  <2>3. k - 1 <= m
    <3>1. CASE k = 1
      BY <3>1
    <3>2. CASE k # 1
      <4>1. k - 1 \in 1..k - 1
        BY <1>1, <3>2
      <4> QED BY <2>2, <4>1
    <3> QED BY <3>1, <3>2
  <2> QED BY <1>1, <2>1, <2>3
<1>5. StartedHolds(m + 1)'
  <2>1. m + 1 \in DOMAIN wire'
    BY <1>1, <1>4
  <2>2. ASSUME NEW j \in DOMAIN wire' PROVE Started(j)' <=> j <= m + 1
    BY <1>1, <1>3, <1>4 DEF Assembling, StartedHolds
  <2>3. ASSUME style' = "responses", NEW j \in 1..m + 1 - 1 PROVE wire'[j] = <<>>
    <3>1. j \in 1..k - 1 /\ j \in DOMAIN wire /\ j # k
      BY <1>1, <1>3, <1>4
    <3> QED BY <1>1, <2>3, <3>1 DEF MayCome
  <2> QED BY <2>1, <2>2, <2>3 DEF StartedHolds
<1> DEFINE f == Label(k)
<1>6. /\ f.id = (IF Identified THEN k ELSE 0) /\ f.name = k /\ f.part = <<>>
      /\ f.index = (IF style = "responses" THEN 0 ELSE k - 1)
  BY DEF Label, Fragment, Identified, Styles
<1>7. SlotOf(f) = m
  <2>1. CASE Identified
    BY <1>1, <1>4, <1>6, <2>1 DEF SlotOf, Assembling, IdsHold
  <2>2. CASE ~Identified
    <3>1. last_seen_id_for_reported_index = NoCalls /\ style # "responses"
      BY <2>2 DEF Assembling, IdsHold, Identified
    <3> QED BY <1>1, <1>4, <1>6, <2>2, <3>1 DEF SlotOf, NoCalls
  <2> QED BY <2>1, <2>2
<1> DEFINE slot == [id |-> IF Identified THEN k ELSE 0, name |-> k, arguments |-> <<>>]
<1>8. tool_calls_buffer' = Put(tool_calls_buffer, m, slot)
  <2>1. tool_calls_buffer = [i \in 0..m - 1 |-> tool_calls_buffer[i]] /\ m \notin 0..m - 1
    BY DEF Assembling, SlotsHold
  <2>2. m \notin DOMAIN tool_calls_buffer
    BY <2>1
  <2>3. tool_calls_buffer' = Put(tool_calls_buffer, m, Merged(NoBuffer, f))
    BY <1>2, <1>7, <2>2 DEF Collect
  <2>4. Merged(NoBuffer, f) = slot
    BY <1>6 DEF Merged, NoBuffer
  <2> QED BY <2>3, <2>4
<1>9. SlotsHold(m + 1)'
  <2> DEFINE b == tool_calls_buffer
  <2>1. b = [i \in 0..m - 1 |-> b[i]]
    BY DEF Assembling, SlotsHold
  <2>2. /\ b' = [i \in 0..(m + 1) - 1 |-> b'[i]]
        /\ b'[m] = slot
        /\ \A i \in 0..m - 1 : b'[i] = b[i]
    <3>1. DOMAIN b = 0..m - 1 /\ (DOMAIN b) \cup {m} = 0..(m + 1) - 1 /\ m \notin 0..m - 1
      BY <2>1
    <3>2. b' = Put(b, m, slot)
      BY <1>8
    <3> HIDE DEF b, slot
    <3>3. /\ DOMAIN Put(b, m, slot) = DOMAIN b \cup {m}
          /\ Put(b, m, slot)[m] = slot
          /\ \A i \in DOMAIN b : i # m => Put(b, m, slot)[i] = b[i]
          /\ Put(b, m, slot) = [x \in DOMAIN b \cup {m} |-> Put(b, m, slot)[x]]
      BY DEF Put
    <3> QED BY <3>1, <3>2, <3>3
  <2>3. Identified' = Identified
    BY DEF Identified
  <2>4. ASSUME NEW j \in 1..m + 1
        PROVE  b'[j - 1] =
                 [id |-> IF Identified' THEN j ELSE 0, name |-> j,
                  arguments |-> [p \in 1..ArrivedParts(j)' |-> <<j, p>>]]
    <3>1. CASE j = k
      <4>1. ArrivedParts(j)' = 0
        BY <1>1, <3>1, StreamConstants DEF ArrivedParts
      <4>2. [p \in 1..0 |-> <<j, p>>] = <<>>
        OBVIOUS
      <4> QED BY <1>4, <2>2, <2>3, <3>1, <4>1, <4>2
    <3>2. CASE j # k
      <4>1. j \in 1..m /\ j - 1 \in 0..m - 1 /\ j \in DOMAIN wire
        BY <1>3, <1>4, <3>2
      <4>2. ArrivedParts(j)' = ArrivedParts(j)
        BY <1>1, <3>2, <4>1 DEF ArrivedParts
      <4>3. b[j - 1] = [id |-> IF Identified THEN j ELSE 0, name |-> j,
                        arguments |-> [p \in 1..ArrivedParts(j) |-> <<j, p>>]]
        BY <4>1 DEF Assembling, SlotsHold
      <4> HIDE DEF b
      <4> QED BY <2>2, <2>3, <4>1, <4>2, <4>3
    <3> QED BY <3>1, <3>2
  <2> QED BY <2>2, <2>4 DEF SlotsHold
<1>10. IdsHold(m + 1)'
  <2>1. CASE ~Identified
    <3>1. /\ tool_call_id_to_index = NoCalls /\ last_seen_id_for_reported_index = NoCalls
          /\ style # "indexed" /\ f.id = 0
      BY <1>6, <2>1 DEF Assembling, IdsHold, Identified
    <3>2. UNCHANGED <<tool_call_id_to_index, last_seen_id_for_reported_index>>
      BY <1>2, <3>1 DEF Collect
    <3>3. ~Identified'
      BY <2>1 DEF Identified
    <3> QED BY <3>1, <3>2, <3>3 DEF IdsHold
  <2>2. CASE Identified
    <3> DEFINE ids == tool_call_id_to_index
               seen == last_seen_id_for_reported_index
    <3>1. /\ ids = [j \in 1..m |-> j - 1] /\ next_internal_index = m
          /\ seen = IF style = "indexed" THEN [i \in 0..m - 1 |-> i + 1]
                    ELSE IF m # 0 THEN [i \in {0} |-> m] ELSE NoCalls
      BY <2>2 DEF Assembling, IdsHold
    <3>2. f.id = m + 1 /\ f.id # 0 /\ f.id \notin DOMAIN ids
      BY <1>4, <1>6, <2>2, <3>1
    <3>3. /\ ids' = Put(ids, m + 1, m)
          /\ next_internal_index' = m + 1
          /\ seen' = Put(seen, f.index, m + 1)
      <4> HIDE DEF f
      <4> QED BY <1>2, <1>7, <3>1, <3>2 DEF Collect, f
    <3>4. ids' = [j \in 1..m + 1 |-> j - 1]
      BY <3>1, <3>3 DEF Put
    <3>5. seen' = IF style = "indexed" THEN [i \in 0..(m + 1) - 1 |-> i + 1]
                  ELSE [i \in {0} |-> m + 1]
      <4>1. CASE style = "indexed"
        BY <1>4, <1>6, <3>1, <3>3, <4>1 DEF Put
      <4>2. CASE style = "responses"
        <5>1. f.index = 0 /\ DOMAIN seen \cup {0} = {0}
          BY <1>6, <3>1, <4>2 DEF NoCalls
        <5> QED BY <3>3, <4>2, <5>1 DEF Put
      <4> QED BY <2>2, <4>1, <4>2 DEF Identified
    <3>6. Identified' /\ style' = style
      BY <2>2 DEF Identified
    <3>7. m + 1 # 0 /\ (style = "indexed" \/ style # "indexed")
      OBVIOUS
    <3> QED BY <2>2, <3>3, <3>4, <3>5, <3>6, <3>7 DEF IdsHold
  <2> QED BY <2>1, <2>2
<1> QED BY <1>5, <1>9, <1>10 DEF Assembling

\* A call that has started has its slot; where one call comes after the other, the
\* call something arrives of is the last.
LEMMA StartedSlot ==
    ASSUME style \in Styles, WireHolds, NEW m \in Nat, Assembling(m),
           NEW k \in DOMAIN wire, wire[k] # <<>>, Arrived(k) # 0
    PROVE  /\ k \in 1..m
           /\ style = "responses" => k = m
<1>1. k \in Nat \ {0} /\ Started(k)
  BY StartedFacts
<1>2. k \in 1..m
  BY <1>1 DEF Assembling, StartedHolds
<1>3. style = "responses" => k \notin 1..m - 1
  BY DEF Assembling, StartedHolds
<1> QED BY <1>2, <1>3

\* After a later fragment the same calls have started.
LEMMA SameStarted ==
    ASSUME style \in Styles, WireHolds, style' = style, NEW m \in Nat, Assembling(m),
           NEW k \in DOMAIN wire, wire[k] # <<>>, Arrived(k) # 0,
           wire' = [wire EXCEPT ![k] = Tail(@)]
    PROVE  StartedHolds(m)'
<1>1. /\ DOMAIN wire' = DOMAIN wire /\ Started(k)'
      /\ \A j \in DOMAIN wire : j # k => wire'[j] = wire[j] /\ (Started(j)' <=> Started(j))
  BY RestOfWire
<1>2. Started(k) /\ (style = "responses" => k = m)
  BY StartedFacts, StartedSlot
<1>3. m \in {0} \cup DOMAIN wire /\ \A j \in DOMAIN wire : Started(j) <=> j <= m
  BY DEF Assembling, StartedHolds
<1>4. ASSUME style' = "responses", NEW j \in 1..m - 1 PROVE wire'[j] = <<>>
  <2>1. wire[j] = <<>>
    BY <1>4 DEF Assembling, StartedHolds
  <2>2. wire'[j] = wire[j]
    <3>1. PICK n \in Nat : wire = [i \in 1..n |-> wire[i]]
      BY DEF WireHolds
    <3>2. DOMAIN wire = 1..n
      BY <3>1
    <3>3. j \in DOMAIN wire /\ j # k
      BY <1>2, <1>3, <1>4, <3>2
    <3> QED BY <1>1, <3>3
  <2> QED BY <2>1, <2>2
<1> QED BY <1>1, <1>2, <1>3, <1>4 DEF StartedHolds

\* An argument fragment goes to the end of its call's slot.
LEMMA ArgumentArrives ==
    ASSUME style \in Styles, WireHolds, style' = style, NEW m \in Nat, Assembling(m),
           NEW k \in DOMAIN wire, MayCome(k), Arrived(k) \in 1..Parts,
           Collect(Head(wire[k])), wire' = [wire EXCEPT ![k] = Tail(@)]
    PROVE  Assembling(m)'
<1> DEFINE d == Arrived(k)
           f == Fragment(Label(k).index, 0, 0, <<k, d>>)
           b == tool_calls_buffer
<1>1. wire[k] # <<>> /\ Arrived(k) # 0
  BY StreamConstants DEF MayCome
<1>2. /\ k \in Nat \ {0}
      /\ Head(wire[k]) = FragmentsOf(k)[Arrived(k) + 1]
      /\ Arrived(k)' = Arrived(k) + 1
      /\ \A j \in DOMAIN wire : j # k => Arrived(j)' = Arrived(j)
  BY <1>1, RestOfWire
<1>3. Head(wire[k]) = f
  BY <1>2, FragmentFacts
<1>4. k \in 1..m /\ (style = "responses" => k = m)
  BY <1>1, StartedSlot
<1>5. StartedHolds(m)'
  BY <1>1, SameStarted
<1>6. /\ f.id = 0 /\ f.name = 0 /\ f.part = <<k, d>> /\ f.part # <<>>
      /\ f.index = (IF style = "responses" THEN 0 ELSE k - 1)
  BY DEF Label, Fragment
<1> HIDE DEF f
<1>7. SlotOf(f) = k - 1
  <2> DEFINE ids == tool_call_id_to_index
             seen == last_seen_id_for_reported_index
  <2>1. CASE style = "anonymous"
    <3>1. seen = NoCalls
      BY <2>1 DEF Assembling, IdsHold, Identified
    <3> QED BY <1>6, <2>1, <3>1 DEF SlotOf, NoCalls
  <2>2. CASE style = "indexed"
    <3>1. ids = [j \in 1..m |-> j - 1] /\ seen = [i \in 0..m - 1 |-> i + 1]
      BY <2>2 DEF Assembling, IdsHold, Identified
    <3>2. f.index = k - 1 /\ k - 1 \in 0..m - 1
      BY <1>4, <1>6, <2>2
    <3>3. f.index \in DOMAIN seen /\ seen[f.index] = k
      BY <1>4, <3>1, <3>2
    <3>4. ids[k] = k - 1
      BY <1>4, <3>1
    <3> QED BY <1>6, <3>3, <3>4 DEF SlotOf
  <2>3. CASE style = "responses"
    <3>1. ids = [j \in 1..m |-> j - 1] /\ seen = [i \in {0} |-> m] /\ k = m
      BY <1>4, <2>3 DEF Assembling, IdsHold, Identified
    <3>2. f.index \in DOMAIN seen /\ seen[f.index] = k
      BY <1>6, <2>3, <3>1
    <3>3. ids[k] = k - 1
      BY <1>4, <3>1
    <3> QED BY <1>6, <3>2, <3>3 DEF SlotOf
  <2> QED BY <2>1, <2>2, <2>3 DEF Styles
<1>8. /\ b = [i \in 0..m - 1 |-> b[i]]
      /\ \A j \in 1..m :
            b[j - 1] = [id |-> IF Identified THEN j ELSE 0, name |-> j,
                        arguments |-> [p \in 1..ArrivedParts(j) |-> <<j, p>>]]
  BY DEF Assembling, SlotsHold
<1>9. k - 1 \in 0..m - 1 /\ k - 1 \in DOMAIN b
  BY <1>4, <1>8
<1>10. /\ b' = Put(b, k - 1, Merged(b[k - 1], f))
       /\ UNCHANGED <<tool_call_id_to_index, next_internal_index,
                      last_seen_id_for_reported_index>>
  BY <1>3, <1>6, <1>7, <1>9 DEF Collect
<1>11. Merged(b[k - 1], f) =
          [id |-> IF Identified THEN k ELSE 0, name |-> k,
           arguments |-> [p \in 1..d |-> <<k, p>>]]
  <2> DEFINE args == [p \in 1..d - 1 |-> <<k, p>>]
  <2>1. ArrivedParts(k) = d - 1
    BY StreamConstants DEF ArrivedParts
  <2>2. b[k - 1] = [id |-> IF Identified THEN k ELSE 0, name |-> k, arguments |-> args]
    BY <1>4, <1>8, <2>1
  <2>3. Append(args, <<k, d>>) = [p \in 1..d |-> <<k, p>>]
    <3>1. d \in Nat /\ d - 1 \in Nat
      BY StreamConstants
    <3> HIDE DEF d
    <3>2. args \in Seq({<<k, p>> : p \in 1..d}) /\ Len(args) = d - 1
      BY <3>1, IsASeq
    <3> QED BY <3>1, <3>2
  <2> HIDE DEF args
  <2>4. Merged(b[k - 1], f).id = IF Identified THEN k ELSE 0
    BY <1>6, <2>2 DEF Merged
  <2>5. Merged(b[k - 1], f).name = k
    BY <1>2, <2>2 DEF Merged
  <2>6. Merged(b[k - 1], f).arguments = Append(args, <<k, d>>)
    BY <1>6, <2>2 DEF Merged
  <2> QED BY <2>3, <2>4, <2>5, <2>6 DEF Merged
<1>12. SlotsHold(m)'
  <2>1. /\ b' = [i \in 0..m - 1 |-> b'[i]]
        /\ b'[k - 1] = Merged(b[k - 1], f)
        /\ \A i \in 0..m - 1 : i # k - 1 => b'[i] = b[i]
    <3>1. DOMAIN b = 0..m - 1 /\ (DOMAIN b) \cup {k - 1} = 0..m - 1
      BY <1>8, <1>9
    <3> QED BY <1>10, <3>1 DEF Put
  <2>2. Identified' = Identified
    BY DEF Identified
  <2>3. ASSUME NEW j \in 1..m
        PROVE  b'[j - 1] =
                 [id |-> IF Identified' THEN j ELSE 0, name |-> j,
                  arguments |-> [p \in 1..ArrivedParts(j)' |-> <<j, p>>]]
    <3>1. CASE j = k
      <4>1. ArrivedParts(j)' = d
        BY <1>2, <3>1, StreamConstants DEF ArrivedParts
      <4> QED BY <1>11, <2>1, <2>2, <3>1, <4>1
    <3>2. CASE j # k
      <4>1. j - 1 # k - 1 /\ j - 1 \in 0..m - 1
        BY <1>4, <3>2
      <4>2. ArrivedParts(j)' = ArrivedParts(j)
        <5>1. j \in DOMAIN wire
          <6>1. PICK n \in Nat : wire = [i \in 1..n |-> wire[i]]
            BY DEF WireHolds
          <6>2. DOMAIN wire = 1..n
            BY <6>1
          <6> QED BY <6>2 DEF Assembling, StartedHolds
        <5> QED BY <1>2, <3>2, <5>1 DEF ArrivedParts
      <4> QED BY <1>8, <2>1, <2>2, <4>1, <4>2
    <3> QED BY <3>1, <3>2
  <2> QED BY <2>1, <2>3 DEF SlotsHold
<1>13. IdsHold(m)'
  BY <1>10 DEF Assembling, IdsHold, Identified
<1> QED BY <1>5, <1>12, <1>13 DEF Assembling

\* The closing label finds the slot of its call and changes nothing there.
LEMMA LabelCloses ==
    ASSUME style \in Styles, WireHolds, style' = style, NEW m \in Nat, Assembling(m),
           NEW k \in DOMAIN wire, MayCome(k), Arrived(k) \notin 0..Parts,
           Collect(Head(wire[k])), wire' = [wire EXCEPT ![k] = Tail(@)]
    PROVE  Assembling(m)'
<1> DEFINE f == Label(k)
           b == tool_calls_buffer
           ids == tool_call_id_to_index
           seen == last_seen_id_for_reported_index
<1>1. wire[k] # <<>> /\ Arrived(k) # 0
  BY StreamConstants DEF MayCome
<1>2. /\ k \in Nat \ {0}
      /\ Arrived(k) \in 0..Len(FragmentsOf(k)) - 1
      /\ Head(wire[k]) = FragmentsOf(k)[Arrived(k) + 1]
      /\ Arrived(k)' = Arrived(k) + 1
      /\ \A j \in DOMAIN wire : j # k => Arrived(j)' = Arrived(j)
  BY <1>1, RestOfWire
<1>3. style = "responses" /\ Arrived(k) = Parts + 1
  <2>1. Len(FragmentsOf(k)) = IF style = "responses" THEN Parts + 2 ELSE Parts + 1
    BY <1>2, FragmentFacts
  <2> QED BY <1>2, <2>1, StreamConstants
<1>4. Head(wire[k]) = f
  <2>1. FragmentsOf(k)[Parts + 2] = Label(k)
    BY <1>2, <1>3, FragmentFacts
  <2>2. Arrived(k) + 1 = Parts + 2
    BY <1>3, StreamConstants
  <2> QED BY <1>2, <2>1, <2>2
<1>5. k \in 1..m /\ k = m
  BY <1>1, <1>3, StartedSlot
<1>6. f.id = k /\ f.id # 0 /\ f.name = k /\ f.part = <<>> /\ f.index = 0
  BY <1>2, <1>3 DEF Label, Fragment
<1> HIDE DEF f
<1>7. ids = [j \in 1..m |-> j - 1] /\ seen = [i \in {0} |-> m] /\ next_internal_index = m
  BY <1>3, <1>5 DEF Assembling, IdsHold, Identified
<1>8. SlotOf(f) = k - 1 /\ k \in DOMAIN ids
  BY <1>5, <1>6, <1>7 DEF SlotOf
<1>9. b = [i \in 0..m - 1 |-> b[i]]
  BY DEF Assembling, SlotsHold
<1>10. b[k - 1] = [id |-> k, name |-> k,
                   arguments |-> [p \in 1..ArrivedParts(k) |-> <<k, p>>]]
  BY <1>3, <1>5 DEF Assembling, SlotsHold, Identified
<1>11. k - 1 \in 0..m - 1 /\ k - 1 \in DOMAIN b
  BY <1>5, <1>9
<1>12. /\ b' = Put(b, k - 1, Merged(b[k - 1], f))
       /\ ids' = Put(ids, k, k - 1)
       /\ next_internal_index' = next_internal_index + 0
       /\ seen' = Put(seen, 0, k)
  BY <1>4, <1>6, <1>8, <1>11 DEF Collect
<1>13. Merged(b[k - 1], f) = b[k - 1]
  BY <1>6, <1>10 DEF Merged
<1>14. b' = b
  <2>1. DOMAIN b \cup {k - 1} = DOMAIN b
    BY <1>11
  <2>2. Put(b, k - 1, b[k - 1]) = [i \in DOMAIN b |-> b[i]]
    BY <2>1 DEF Put
  <2>3. b = [i \in DOMAIN b |-> b[i]]
    BY <1>9
  <2> QED BY <1>12, <1>13, <2>2, <2>3
<1>15. ids' = ids /\ seen' = seen
  <2>1. DOMAIN ids \cup {k} = 1..m /\ DOMAIN seen \cup {0} = {0}
    BY <1>5, <1>7
  <2>2. Put(ids, k, k - 1) = [j \in 1..m |-> j - 1]
    BY <1>5, <1>7, <2>1 DEF Put
  <2>3. Put(seen, 0, k) = [i \in {0} |-> m]
    BY <1>5, <1>7, <2>1 DEF Put
  <2> QED BY <1>7, <1>12, <2>2, <2>3
<1>16. SlotsHold(m)'
  <2>1. ASSUME NEW j \in 1..m PROVE ArrivedParts(j)' = ArrivedParts(j)
    <3>1. CASE j = k
      BY <1>2, <1>3, <3>1, StreamConstants DEF ArrivedParts
    <3>2. CASE j # k
      <4>1. PICK n \in Nat : wire = [i \in 1..n |-> wire[i]]
        BY DEF WireHolds
      <4>2. DOMAIN wire = 1..n
        BY <4>1
      <4>3. j \in DOMAIN wire
        BY <4>2 DEF Assembling, StartedHolds
      <4> QED BY <1>2, <3>2, <4>3 DEF ArrivedParts
    <3> QED BY <3>1, <3>2
  <2>2. Identified' = Identified
    BY DEF Identified
  <2>3. SlotsHold(m)
    BY DEF Assembling
  <2> QED BY <1>14, <2>1, <2>2, <2>3 DEF SlotsHold
<1>17. IdsHold(m)'
  <2>1. next_internal_index' = next_internal_index /\ Identified' = Identified
    BY <1>7, <1>12 DEF Identified
  <2> QED BY <1>15, <2>1 DEF Assembling, IdsHold
<1>18. StartedHolds(m)'
  BY <1>1, SameStarted
<1> QED BY <1>16, <1>17, <1>18 DEF Assembling

-----------------------------------------------------------------------------

\* A run begins before its first request.
LEMMA AssemblyInitInv == StreamInit => AssemblyInv
  BY DEF StreamInit, AssemblyInv, Styles

\* A request that is accepted begins with empty buffers and all fragments to come.
LEMMA RequestAcceptedInv ==
    ASSUME AssemblyInv, RequestAccepted
    PROVE  AssemblyInv'
<1>1. style \in Styles /\ style' = style
  BY DEF AssemblyInv, RequestAccepted
<1>2. PICK n \in 0..MaxCalls : wire' = [k \in 1..n |-> FragmentsOf(k)]
  BY DEF RequestAccepted
<1>3. \A k : FragmentsOf(k)' = FragmentsOf(k)
  BY <1>1, StyleKept
<1>4. n \in Nat /\ DOMAIN wire' = 1..n /\ wire' = [k \in 1..n |-> wire'[k]]
      /\ \A k \in 1..n : wire'[k] = FragmentsOf(k)
  BY <1>2, StreamConstants
<1>5. ASSUME NEW k \in 1..n
      PROVE  /\ \E S : FragmentsOf(k) \in Seq(S)
             /\ Len(FragmentsOf(k)) \in Nat /\ Arrived(k)' = 0
             /\ ~Started(k)'
  <2>1. k \in Nat \ {0}
    BY <1>4
  <2>2. PICK S : FragmentsOf(k) \in Seq(S)
    BY <1>1, <2>1, FragmentFacts
  <2>3. Len(FragmentsOf(k)) \in Nat
    BY <2>2, LenProperties
  <2>4. Arrived(k)' = 0 /\ ~Started(k)'
    BY <1>3, <1>4, <2>3 DEF Arrived, Started
  <2> QED BY <2>2, <2>3, <2>4
<1>6. WireHolds'
  <2>1. \A k \in 1..n :
          /\ \E S : wire'[k] \in Seq(S)
          /\ Len(wire'[k]) <= Len(FragmentsOf(k)')
          /\ \A i \in 1..Len(wire'[k]) : wire'[k][i] = FragmentsOf(k)'[Arrived(k)' + i]
    BY <1>3, <1>4, <1>5
  <2> QED BY <1>4, <2>1 DEF WireHolds
<1>7. StartedHolds(0)'
  <2>1. \A k \in 1..n : ~(k <= 0) /\ ~Started(k)'
    BY <1>4, <1>5
  <2> QED BY <1>4, <2>1 DEF StartedHolds
<1>8. SlotsHold(0)' /\ IdsHold(0)'
  <2>1. /\ tool_calls_buffer' = NoCalls /\ tool_call_id_to_index' = NoCalls
        /\ next_internal_index' = 0 /\ last_seen_id_for_reported_index' = NoCalls
    BY DEF RequestAccepted, EmptyBuffers
  <2>2. NoCalls = [k \in 1..0 |-> k - 1] /\ NoCalls = [i \in 0..0 - 1 |-> i + 1]
        /\ NoCalls = [i \in 0..0 - 1 |-> NoCalls[i]]
    BY DEF NoCalls
  <2>3. SlotsHold(0)'
    BY <2>1, <2>2 DEF SlotsHold
  <2>4. IdsHold(0)'
    BY <2>1, <2>2 DEF IdsHold
  <2> QED BY <2>3, <2>4
<1>9. Assembling(0)'
  BY <1>7, <1>8 DEF Assembling
<1> QED BY <1>1, <1>6, <1>9 DEF AssemblyInv

\* Whichever fragment comes next, the calls that have started keep their slots.
LEMMA ToolDeltaArrivesInv ==
    ASSUME AssemblyInv, ToolDeltaArrives
    PROVE  AssemblyInv'
<1>1. /\ style \in Styles /\ style' = style /\ WireHolds
      /\ \E m \in Nat : Assembling(m)
  BY DEF AssemblyInv, ToolDeltaArrives
<1>2. PICK m \in Nat : Assembling(m)
  BY <1>1
<1>3. PICK k \in DOMAIN wire :
        /\ MayCome(k) /\ Collect(Head(wire[k]))
        /\ wire' = [wire EXCEPT ![k] = Tail(@)]
  BY DEF ToolDeltaArrives
<1>4. wire[k] # <<>>
  BY <1>3 DEF MayCome
<1>5. WireHolds'
  BY <1>1, <1>3, <1>4, RestOfWire
<1>6. CASE Arrived(k) = 0
  <2>1. Assembling(m + 1)'
    BY <1>1, <1>2, <1>3, <1>6, LabelOpens
  <2>2. m + 1 \in Nat
    OBVIOUS
  <2> QED BY <1>1, <1>5, <2>1, <2>2 DEF AssemblyInv
<1>7. CASE Arrived(k) \in 1..Parts
  <2>1. Assembling(m)'
    BY <1>1, <1>2, <1>3, <1>7, ArgumentArrives
  <2> QED BY <1>1, <1>5, <2>1 DEF AssemblyInv
<1>8. CASE Arrived(k) \notin 0..Parts
  <2>1. Assembling(m)'
    BY <1>1, <1>2, <1>3, <1>8, LabelCloses
  <2> QED BY <1>1, <1>5, <2>1 DEF AssemblyInv
<1>9. Arrived(k) = 0 \/ Arrived(k) \in 1..Parts \/ Arrived(k) \notin 0..Parts
  BY StreamConstants
<1> QED BY <1>6, <1>7, <1>8, <1>9

\* Nothing else touches the calls while they stream.
LEMMA AssemblyNextInv == AssemblyInv /\ [StreamNext]_streamVars => AssemblyInv'
<1> SUFFICES ASSUME AssemblyInv, [StreamNext]_streamVars PROVE AssemblyInv'
  OBVIOUS
<1>1. ASSUME UNCHANGED <<style, wire, tool_calls_buffer, tool_call_id_to_index,
                         next_internal_index, last_seen_id_for_reported_index>>,
             streamAt' = streamAt \/ streamAt' # "streaming"
      PROVE  AssemblyInv'
  <2>1. style' \in Styles
    BY <1>1 DEF AssemblyInv
  <2>2. CASE streamAt' # "streaming"
    BY <2>1, <2>2 DEF AssemblyInv
  <2>3. CASE streamAt' = streamAt
    <3>1. \A k : /\ FragmentsOf(k)' = FragmentsOf(k) /\ Arrived(k)' = Arrived(k)
                 /\ ArrivedParts(k)' = ArrivedParts(k) /\ (Started(k)' <=> Started(k))
      BY <1>1, StyleKept DEF Arrived, ArrivedParts, Started
    <3>2. WireHolds => WireHolds'
      BY <1>1, <3>1 DEF WireHolds
    <3>3. ASSUME NEW m \in Nat, Assembling(m) PROVE Assembling(m)'
      <4>1. StartedHolds(m)'
        BY <1>1, <3>1, <3>3 DEF Assembling, StartedHolds
      <4>2. SlotsHold(m)'
        BY <1>1, <3>1, <3>3 DEF Assembling, SlotsHold, Identified
      <4>3. IdsHold(m)'
        BY <1>1, <3>3 DEF Assembling, IdsHold, Identified
      <4> QED BY <4>1, <4>2, <4>3 DEF Assembling
    <3> QED BY <2>1, <2>3, <3>2, <3>3 DEF AssemblyInv
  <2> QED BY <1>1, <2>2, <2>3
<1>2. CASE RequestAccepted
  BY <1>2, RequestAcceptedInv
<1>3. CASE RequestFails
  BY <1>1, <1>3 DEF RequestFails, Raise, buffers
<1>4. CASE BackoffEnds
  BY <1>1, <1>4 DEF BackoffEnds, buffers
<1>5. CASE TextArrives
  BY <1>1, <1>5 DEF TextArrives
<1>6. CASE ToolDeltaArrives
  BY <1>6, ToolDeltaArrivesInv
<1>7. CASE StreamEnds
  BY <1>1, <1>7 DEF StreamEnds, TurnReturns, buffers
<1>8. CASE StreamBreaks
  BY <1>1, <1>8 DEF StreamBreaks, TurnReturns, Raise, buffers
<1>9. CASE NextTurn
  BY <1>1, <1>9 DEF NextTurn, buffers
<1>10. CASE UNCHANGED streamVars
  BY <1>1, <1>10 DEF streamVars, buffers
<1> QED
  BY <1>2, <1>3, <1>4, <1>5, <1>6, <1>7, <1>8, <1>9, <1>10 DEF StreamNext

\* For any number of calls and fragments, whichever way the provider labels them and
\* in whatever order its fragments come, a slot of the buffer holds what belongs to
\* one call, no call has two slots, and once all has arrived each call is there,
\* complete (run_model_turn, tool_calls_buffer).
THEOREM CallsAreAssembled == StreamSpec => []AssembledFromOwnFragments
<1>1. AssemblyInv => AssembledFromOwnFragments
  <2> SUFFICES ASSUME AssemblyInv, streamAt = "streaming"
               PROVE  AssembledFromOwnFragments
    BY DEF AssembledFromOwnFragments
  <2> DEFINE b == tool_calls_buffer
             IsSlotOf(i, k) == /\ b[i].name = k
                               /\ b[i].id \in {0, k}
                               /\ \A p \in DOMAIN b[i].arguments : b[i].arguments[p] = <<k, p>>
  <2>1. style \in Styles /\ WireHolds
    BY DEF AssemblyInv
  <2>2. PICK m \in Nat : Assembling(m)
    BY DEF AssemblyInv
  <2>3. PICK n \in Nat : wire = [k \in 1..n |-> wire[k]]
    BY <2>1 DEF WireHolds
  <2>4. DOMAIN wire = 1..n /\ 1..m \subseteq 1..n
    <3>1. DOMAIN wire = 1..n
      BY <2>3
    <3>2. m \in {0} \cup DOMAIN wire
      BY <2>2 DEF Assembling, StartedHolds
    <3> QED BY <3>1, <3>2
  <2>5. /\ b = [i \in 0..m - 1 |-> b[i]]
        /\ \A k \in 1..m :
              b[k - 1] = [id |-> IF Identified THEN k ELSE 0, name |-> k,
                          arguments |-> [p \in 1..ArrivedParts(k) |-> <<k, p>>]]
    BY <2>2 DEF Assembling, SlotsHold
  <2>6. DOMAIN b = 0..m - 1
    BY <2>5
  <2>7. ASSUME NEW k \in 1..m PROVE IsSlotOf(k - 1, k)
    <3> DEFINE args == [p \in 1..ArrivedParts(k) |-> <<k, p>>]
    <3>1. \A p \in DOMAIN args : args[p] = <<k, p>>
      OBVIOUS
    <3>2. b[k - 1] = [id |-> IF Identified THEN k ELSE 0, name |-> k, arguments |-> args]
      BY <2>5
    <3> HIDE DEF args, b
    <3>3. /\ b[k - 1].name = k /\ b[k - 1].arguments = args
          /\ b[k - 1].id = IF Identified THEN k ELSE 0
      BY <3>2
    <3> QED BY <3>1, <3>3
  <2>8. ASSUME NEW i \in DOMAIN b
        PROVE  i + 1 \in 1..m /\ IsSlotOf(i, i + 1) /\ b[i].name = i + 1
    <3>1. i + 1 \in 1..m /\ (i + 1) - 1 = i
      BY <2>6
    <3> HIDE DEF IsSlotOf
    <3>2. IsSlotOf(i, i + 1)
      BY <2>7, <3>1
    <3> QED BY <3>1, <3>2 DEF IsSlotOf
  <2>9. ASSUME AllArrived, NEW k \in DOMAIN wire
        PROVE  \E i \in DOMAIN b : IsSlotOf(i, k) /\ Complete(b[i])
    <3>1. wire[k] = <<>>
      BY <2>9 DEF AllArrived
    <3>2. /\ k \in Nat \ {0} /\ Arrived(k) = Len(FragmentsOf(k)) /\ Started(k)
          /\ Len(FragmentsOf(k)) \in {Parts + 1, Parts + 2}
      BY <2>1, <3>1, StartedFacts
    <3>3. k \in 1..m
      BY <2>2, <3>2 DEF Assembling, StartedHolds
    <3>4. ArrivedParts(k) = Parts
      BY <3>2, StreamConstants DEF ArrivedParts
    <3>5. b[k - 1].arguments = [p \in 1..Parts |-> <<k, p>>]
      <4>1. b[k - 1] = [id |-> IF Identified THEN k ELSE 0, name |-> k,
                        arguments |-> [p \in 1..ArrivedParts(k) |-> <<k, p>>]]
        BY <2>5, <3>3
      <4> HIDE DEF b
      <4> QED BY <3>4, <4>1
    <3>6. Complete(b[k - 1])
      <4> DEFINE args == [p \in 1..Parts |-> <<k, p>>]
      <4>1. Len(args) = Parts
        <5>1. Parts \in Nat /\ \A p \in 1..Parts : <<k, p>> \in {<<k, q>> : q \in 1..Parts}
          BY StreamConstants
        <5> QED BY <5>1, IsASeq
      <4> HIDE DEF args
      <4> QED BY <3>5, <4>1 DEF Complete, args
    <3>7. k - 1 \in DOMAIN b
      BY <2>6, <3>3
    <3> HIDE DEF IsSlotOf
    <3> QED BY <2>7, <3>3, <3>6, <3>7
  <2>10. \A i \in DOMAIN b : \E k \in DOMAIN wire : IsSlotOf(i, k)
    <3> HIDE DEF IsSlotOf
    <3> QED BY <2>4, <2>8
  <2>11. \A i, j \in DOMAIN b : b[i].name = b[j].name => i = j
    <3>1. \A i \in DOMAIN b : b[i].name = i + 1 /\ i \in Int
      <4> HIDE DEF IsSlotOf
      <4> QED BY <2>6, <2>8
    <3> QED BY <3>1
  <2> QED BY <2>9, <2>10, <2>11 DEF AssembledFromOwnFragments
<1> QED BY <1>1, AssemblyInitInv, AssemblyNextInv, PTL DEF StreamSpec
=============================================================================
