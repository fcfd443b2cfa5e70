------------------------- MODULE ConversationProofs -------------------------
(***************************************************************************)
(* Proofs about Conversation, for any clients, bounds and numbers.         *)
(*                                                                         *)
(* Known: every variable has its type and a message is on its way to a     *)
(* turn at most once.  What a step makes of that way is said once          *)
(* (LineGoes), and so is what it makes of the messages the agent has       *)
(* (AgentGoes).                                                            *)
(*                                                                         *)
(* Handed: a message goes to the agent once, because what the agent was    *)
(* given no longer waits (Apart), or waits only for the answer that says   *)
(* so (Steers).  This needs every answer to a steer to come in time.       *)
(*                                                                         *)
(* Ordered, Climbing and Numbered: with one client, the order of posting   *)
(* and the numbers of the turns rise all along the way; Newest: with the   *)
(* user's turns only, whatever waits is numbered above all that ran.       *)
(*                                                                         *)
(* Dated: every number of a turn is one that a post or a turn of another   *)
(* kind was given, less what is yet to start.  EveryOwed: a message with the *)
(* agent has an answer to come.                                            *)
(***************************************************************************)
EXTENDS Conversation, RankLemmas, FiniteSetTheorems, SequenceTheorems, TLAPS

-----------------------------------------------------------------------------
(* Lists and what is in them. *)

Has(q, T) == \E i \in 1..Len(q) : q[i] \in T
AtMostOne(q, T) == \A i, j \in 1..Len(q) : q[i] \in T /\ q[j] \in T => i = j

LEMMA AppendHas ==
  ASSUME NEW S, NEW q \in Seq(S), NEW x \in S, NEW T
  PROVE  /\ Append(q, x) \in Seq(S)
         /\ Has(Append(q, x), T) <=> (Has(q, T) \/ x \in T)
         /\ AtMostOne(q, T) /\ ~(Has(q, T) /\ x \in T) => AtMostOne(Append(q, x), T)
<1> DEFINE r == Append(q, x)
<1>1. /\ r \in Seq(S) /\ Len(r) = Len(q) + 1 /\ Len(q) \in Nat
      /\ \A i \in 1..Len(q) : r[i] = q[i] /\ r[Len(q) + 1] = x
  BY AppendProperties
<1>2. r[Len(q) + 1] = x
  BY AppendProperties
<1> HIDE DEF r
<1>3. Has(r, T) <=> (Has(q, T) \/ x \in T)
  <2>1. ASSUME Has(r, T) PROVE Has(q, T) \/ x \in T
    <3>1. PICK i \in 1..Len(r) : r[i] \in T
      BY <2>1 DEF Has
    <3>2. CASE i \in 1..Len(q)
      BY <1>1, <3>1, <3>2 DEF Has
    <3>3. CASE i = Len(q) + 1
      BY <1>2, <3>1, <3>3
    <3> QED
      BY <1>1, <3>2, <3>3
  <2>2. ASSUME Has(q, T) PROVE Has(r, T)
    <3>1. PICK i \in 1..Len(q) : q[i] \in T
      BY <2>2 DEF Has
    <3>2. i \in 1..Len(r) /\ r[i] \in T
      BY <1>1, <3>1
    <3> QED
      BY <3>2 DEF Has
  <2>3. ASSUME x \in T PROVE Has(r, T)
    <3>1. Len(q) + 1 \in 1..Len(r) /\ r[Len(q) + 1] \in T
      BY <1>1, <1>2, <2>3
    <3> QED
      BY <3>1 DEF Has
  <2> QED
    BY <2>1, <2>2, <2>3
<1>4. ASSUME AtMostOne(q, T), ~(Has(q, T) /\ x \in T), NEW i \in 1..Len(r), NEW j \in 1..Len(r), r[i] \in T, r[j] \in T
      PROVE  i = j
  <2>1. CASE i \in 1..Len(q) /\ j \in 1..Len(q)
    BY <1>1, <1>4, <2>1 DEF AtMostOne
  <2>2. CASE i = Len(q) + 1 /\ j = Len(q) + 1
    BY <2>2
  <2>3. CASE i \in 1..Len(q) /\ j = Len(q) + 1
    <3>1. Has(q, T) /\ x \in T
      BY <1>1, <1>2, <1>4, <2>3 DEF Has
    <3> QED
      BY <1>4, <3>1
  <2>4. CASE i = Len(q) + 1 /\ j \in 1..Len(q)
    <3>1. Has(q, T) /\ x \in T
      BY <1>1, <1>2, <1>4, <2>4 DEF Has
    <3> QED
      BY <1>4, <3>1
  <2> QED
    BY <1>1, <2>1, <2>2, <2>3, <2>4
<1> QED
  BY <1>1, <1>3, <1>4 DEF AtMostOne, r

LEMMA TailHas ==
  ASSUME NEW S, NEW q \in Seq(S), q # <<>>, NEW T
  PROVE  /\ Tail(q) \in Seq(S) /\ Head(q) \in S
         /\ Has(q, T) <=> (Has(Tail(q), T) \/ Head(q) \in T)
         /\ AtMostOne(q, T) => AtMostOne(Tail(q), T) /\ ~(Has(Tail(q), T) /\ Head(q) \in T)
<1> DEFINE r == Tail(q)
<1>1. r \in Seq(S) /\ Head(q) \in S /\ Head(q) = q[1] /\ Len(q) \in Nat /\ Len(q) >= 1
  BY HeadTailProperties, EmptySeq
<1>2. Len(r) = Len(q) - 1 /\ \A i \in 1..Len(r) : r[i] = q[i + 1]
  BY HeadTailProperties
<1> HIDE DEF r
<1>3. \A i \in 1..Len(r) : i + 1 \in 1..Len(q) /\ i + 1 # 1
  BY <1>1, <1>2
<1>4. \A i \in 1..Len(q) : i = 1 \/ (i - 1 \in 1..Len(r) /\ r[i - 1] = q[i])
  BY <1>1, <1>2
<1>5. Has(q, T) <=> (Has(r, T) \/ Head(q) \in T)
  <2>1. ASSUME Has(q, T) PROVE Has(r, T) \/ Head(q) \in T
    BY <1>1, <1>4, <2>1 DEF Has
  <2>2. ASSUME Has(r, T) PROVE Has(q, T)
    BY <1>2, <1>3, <2>2 DEF Has
  <2>3. ASSUME Head(q) \in T PROVE Has(q, T)
    BY <1>1, <2>3 DEF Has
  <2> QED
    BY <2>1, <2>2, <2>3
<1>6. ASSUME AtMostOne(q, T) PROVE AtMostOne(r, T)
  <2>1. ASSUME NEW i \in 1..Len(r), NEW j \in 1..Len(r), r[i] \in T, r[j] \in T
        PROVE  i = j
    <3>1. i + 1 = j + 1
      BY <1>2, <1>3, <1>6, <2>1 DEF AtMostOne
    <3> QED
      BY <1>1, <1>2, <3>1
  <2> QED
    BY <2>1 DEF AtMostOne
<1>7. ASSUME AtMostOne(q, T), Has(r, T), Head(q) \in T PROVE FALSE
  <2>1. PICK i \in 1..Len(r) : r[i] \in T
    BY <1>7 DEF Has
  <2>2. q[i + 1] \in T /\ q[1] \in T /\ 1 \in 1..Len(q) /\ i + 1 \in 1..Len(q)
    BY <1>1, <1>2, <1>3, <1>7, <2>1
  <2>3. i + 1 = 1
    BY <1>7, <2>2 DEF AtMostOne
  <2> QED
    BY <1>3, <2>3
<1> QED
  BY <1>1, <1>5, <1>6, <1>7 DEF r

\* Nothing is in an empty list.
LEMMA EmptyHas ==
  ASSUME NEW T
  PROVE  ~Has(<<>>, T) /\ AtMostOne(<<>>, T)
  BY DEF Has, AtMostOne

\* r is what is left of q, in the same order; f tells where each item was.
Part(r, q, f) ==
  /\ \A i \in 1..Len(r) : f[i] \in 1..Len(q) /\ r[i] = q[f[i]]
  /\ \A i, j \in 1..Len(r) : i < j => f[i] < f[j]

LEMMA PartHas ==
  ASSUME NEW S, NEW q \in Seq(S), NEW r \in Seq(S), NEW f, Part(r, q, f), NEW T
  PROVE  /\ Has(r, T) => Has(q, T)
         /\ AtMostOne(q, T) => AtMostOne(r, T)
<1>1. Len(r) \in Nat /\ Len(q) \in Nat
  OBVIOUS
<1>2. Has(r, T) => Has(q, T)
  BY DEF Has, Part
<1>3. ASSUME AtMostOne(q, T), NEW i \in 1..Len(r), NEW j \in 1..Len(r), r[i] \in T, r[j] \in T
      PROVE  i = j
  <2>1. f[i] = f[j] /\ f[i] \in 1..Len(q)
    BY <1>3 DEF AtMostOne, Part
  <2>2. ~(i < j) /\ ~(j < i)
    BY <1>1, <2>1 DEF Part
  <2> QED
    BY <1>1, <2>2
<1> QED
  BY <1>2, <1>3 DEF AtMostOne

LEMMA RemoveIs ==
  ASSUME NEW S, NEW q \in Seq(S), NEW at \in 1..Len(q)
  PROVE  /\ RemovedAt(q, at) \in Seq(S) /\ Len(RemovedAt(q, at)) = Len(q) - 1
         /\ \E f : /\ Part(RemovedAt(q, at), q, f)
                   /\ \A j \in 1..Len(q) : j # at => \E i \in 1..(Len(q) - 1) : f[i] = j
                   /\ \A i \in 1..(Len(q) - 1) : f[i] # at
<1> DEFINE a == SubSeq(q, 1, at - 1)
           b == SubSeq(q, at + 1, Len(q))
           r == a \o b
           f == [i \in 1..(Len(q) - 1) |-> IF i < at THEN i ELSE i + 1]
<1>1. Len(q) \in Nat /\ at \in Nat /\ at >= 1 /\ at <= Len(q)
  OBVIOUS
<1>2. a \in Seq(S) /\ Len(a) = at - 1 /\ \A i \in 1..(at - 1) : a[i] = q[i]
  <2>1. \A i \in 1..(at - 1) : q[i] \in S
    BY <1>1, ElementOfSeq
  <2>2. 1 \in 1..(Len(q) + 1) /\ at - 1 \in (1 - 1)..Len(q)
    BY <1>1
  <2> QED
    BY <1>1, <2>1, <2>2, SubSeqProperties
<1>3. b \in Seq(S) /\ Len(b) = Len(q) - at /\ \A i \in 1..(Len(q) - at) : b[i] = q[at + i]
  <2>1. \A i \in (at + 1)..Len(q) : q[i] \in S
    BY <1>1, ElementOfSeq
  <2>2. at + 1 \in 1..(Len(q) + 1) /\ Len(q) \in ((at + 1) - 1)..Len(q)
    BY <1>1
  <2>3. /\ b \in Seq(S)
        /\ Len(b) = IF at + 1 <= Len(q) THEN Len(q) - (at + 1) + 1 ELSE 0
        /\ \A i \in 1..(Len(q) - (at + 1) + 1) : b[i] = q[(at + 1) + i - 1]
    BY <1>1, <2>1, <2>2, SubSeqProperties
  <2>4. \A i \in 1..(Len(q) - at) : (at + 1) + i - 1 = at + i /\ i \in 1..(Len(q) - (at + 1) + 1)
    BY <1>1
  <2> QED
    BY <1>1, <2>3, <2>4
<1> HIDE DEF a, b
<1>4. /\ r \in Seq(S) /\ Len(r) = Len(q) - 1
      /\ \A i \in 1..(Len(q) - 1) : r[i] = IF i < at THEN a[i] ELSE b[i - at + 1]
  <2>1. r \in Seq(S) /\ Len(r) = Len(a) + Len(b) /\ \A i \in 1..(Len(a) + Len(b)) : r[i] = IF i <= Len(a) THEN a[i] ELSE b[i - Len(a)]
    BY <1>2, <1>3, ConcatProperties
  <2>2. ASSUME NEW i \in 1..(Len(q) - 1)
        PROVE  r[i] = IF i < at THEN a[i] ELSE b[i - at + 1]
    <3>1. i \in 1..(Len(a) + Len(b)) /\ (i <= Len(a) <=> i < at) /\ i - Len(a) = i - at + 1
      BY <1>1, <1>2, <1>3
    <3> QED
      BY <2>1, <3>1
  <2> QED
    BY <1>1, <1>2, <1>3, <2>1, <2>2
<1>5. \A i \in 1..(Len(q) - 1) : f[i] \in 1..Len(q) /\ r[i] = q[f[i]] /\ f[i] # at
  <2>1. SUFFICES ASSUME NEW i \in 1..(Len(q) - 1)
                 PROVE  f[i] \in 1..Len(q) /\ r[i] = q[f[i]] /\ f[i] # at
    OBVIOUS
  <2>2. CASE i < at
    BY <1>1, <1>2, <1>4, <2>2
  <2>3. CASE ~(i < at)
    <3>1. i - at + 1 \in 1..(Len(q) - at) /\ at + (i - at + 1) = i + 1
      BY <1>1, <2>3
    <3> QED
      BY <1>1, <1>3, <1>4, <2>3, <3>1
  <2> QED
    BY <2>2, <2>3
<1>6. \A i, j \in 1..(Len(q) - 1) : i < j => f[i] < f[j]
  BY <1>1
<1>7. \A j \in 1..Len(q) : j # at => \E i \in 1..(Len(q) - 1) : f[i] = j
  <2>1. SUFFICES ASSUME NEW j \in 1..Len(q), j # at
                 PROVE  \E i \in 1..(Len(q) - 1) : f[i] = j
    OBVIOUS
  <2>2. CASE j < at
    <3>1. j \in 1..(Len(q) - 1) /\ f[j] = j
      BY <1>1, <2>2
    <3> QED
      BY <3>1
  <2>3. CASE j > at
    <3>1. j - 1 \in 1..(Len(q) - 1) /\ f[j - 1] = j
      BY <1>1, <2>3
    <3> QED
      BY <3>1
  <2> QED
    BY <1>1, <2>1, <2>2, <2>3
<1> HIDE DEF f, r
<1>8. Part(r, q, f)
  BY <1>4, <1>5, <1>6 DEF Part
<1>9. \A i \in 1..(Len(q) - 1) : f[i] # at
  BY <1>5
<1> QED
  BY <1>4, <1>7, <1>8, <1>9 DEF r, a, b, RemovedAt

\* What follows the first k items.
LEMMA AfterIs ==
  ASSUME NEW S, NEW q \in Seq(S), NEW k \in 0..Len(q)
  PROVE  /\ SubSeq(q, k + 1, Len(q)) \in Seq(S) /\ Len(SubSeq(q, k + 1, Len(q))) = Len(q) - k
         /\ \A i \in 1..(Len(q) - k) : SubSeq(q, k + 1, Len(q))[i] = q[i + k]
         /\ Part(SubSeq(q, k + 1, Len(q)), q, [i \in 1..(Len(q) - k) |-> i + k])
<1> DEFINE r == SubSeq(q, k + 1, Len(q))
           f == [i \in 1..(Len(q) - k) |-> i + k]
<1>1. Len(q) \in Nat /\ k \in Nat /\ k <= Len(q)
  OBVIOUS
<1>2. r \in Seq(S) /\ Len(r) = Len(q) - k /\ \A i \in 1..(Len(q) - k) : r[i] = q[i + k]
  <2>1. \A i \in (k + 1)..Len(q) : q[i] \in S
    BY <1>1, ElementOfSeq
  <2>2. k + 1 \in 1..(Len(q) + 1) /\ Len(q) \in ((k + 1) - 1)..Len(q)
    BY <1>1
  <2>3. /\ r \in Seq(S)
        /\ Len(r) = IF k + 1 <= Len(q) THEN Len(q) - (k + 1) + 1 ELSE 0
        /\ \A i \in 1..(Len(q) - (k + 1) + 1) : r[i] = q[(k + 1) + i - 1]
    BY <1>1, <2>1, <2>2, SubSeqProperties
  <2>4. \A i \in 1..(Len(q) - k) : (k + 1) + i - 1 = i + k /\ i \in 1..(Len(q) - (k + 1) + 1)
    BY <1>1
  <2> QED
    BY <1>1, <2>3, <2>4
<1> HIDE DEF r
<1>3. Part(r, q, f)
  BY <1>1, <1>2 DEF Part
<1> QED
  BY <1>2, <1>3 DEF r

LEMMA FirstHas ==
  ASSUME NEW S, NEW q \in Seq(S), NEW x \in S, NEW T
  PROVE  /\ <<x>> \o q \in Seq(S) /\ Len(<<x>> \o q) = Len(q) + 1
         /\ (<<x>> \o q)[1] = x /\ \A i \in 1..Len(q) : (<<x>> \o q)[i + 1] = q[i]
         /\ Has(<<x>> \o q, T) <=> (Has(q, T) \/ x \in T)
         /\ AtMostOne(q, T) /\ ~(Has(q, T) /\ x \in T) => AtMostOne(<<x>> \o q, T)
<1> DEFINE r == <<x>> \o q
<1>1. Len(q) \in Nat /\ <<x>> \in Seq(S) /\ Len(<<x>>) = 1 /\ <<x>>[1] = x
  OBVIOUS
<1>2. r \in Seq(S) /\ Len(r) = Len(q) + 1 /\ r[1] = x /\ \A i \in 1..Len(q) : r[i + 1] = q[i]
  <2>1. r \in Seq(S) /\ Len(r) = 1 + Len(q) /\ \A i \in 1..(1 + Len(q)) : r[i] = IF i <= 1 THEN <<x>>[i] ELSE q[i - 1]
    BY <1>1, ConcatProperties
  <2>2. \A i \in 1..Len(q) : i + 1 \in 1..(1 + Len(q)) /\ ~(i + 1 <= 1) /\ (i + 1) - 1 = i
    BY <1>1
  <2>3. 1 \in 1..(1 + Len(q)) /\ 1 <= 1
    BY <1>1
  <2> QED
    BY <1>1, <2>1, <2>2, <2>3
<1> HIDE DEF r
<1>3. \A i \in 1..Len(r) : i = 1 \/ (i - 1 \in 1..Len(q) /\ r[i] = q[i - 1])
  <2>1. SUFFICES ASSUME NEW i \in 1..Len(r), i # 1
                 PROVE  i - 1 \in 1..Len(q) /\ r[i] = q[i - 1]
    OBVIOUS
  <2>2. i - 1 \in 1..Len(q) /\ (i - 1) + 1 = i
    BY <1>1, <1>2, <2>1
  <2>3. r[(i - 1) + 1] = q[i - 1]
    BY <1>2, <2>2
  <2> QED
    BY <2>2, <2>3
<1>4. \A i \in 1..Len(q) : i + 1 \in 1..Len(r)
  BY <1>1, <1>2
<1>5. 1 \in 1..Len(r)
  BY <1>1, <1>2
<1>6. Has(r, T) <=> (Has(q, T) \/ x \in T)
  <2>1. ASSUME Has(r, T) PROVE Has(q, T) \/ x \in T
    BY <1>2, <1>3, <2>1 DEF Has
  <2>2. ASSUME Has(q, T) PROVE Has(r, T)
    BY <1>2, <1>4, <2>2 DEF Has
  <2>3. ASSUME x \in T PROVE Has(r, T)
    BY <1>2, <1>5, <2>3 DEF Has
  <2> QED
    BY <2>1, <2>2, <2>3
<1>7. ASSUME AtMostOne(q, T), ~(Has(q, T) /\ x \in T), NEW i \in 1..Len(r), NEW j \in 1..Len(r), r[i] \in T, r[j] \in T
      PROVE  i = j
  <2>1. CASE i = 1 /\ j = 1
    BY <2>1
  <2>2. CASE i = 1 /\ j # 1
    <3>1. Has(q, T) /\ x \in T
      BY <1>2, <1>3, <1>7, <2>2 DEF Has
    <3> QED
      BY <1>7, <3>1
  <2>3. CASE i # 1 /\ j = 1
    <3>1. Has(q, T) /\ x \in T
      BY <1>2, <1>3, <1>7, <2>3 DEF Has
    <3> QED
      BY <1>7, <3>1
  <2>4. CASE i # 1 /\ j # 1
    <3>1. i - 1 = j - 1
      BY <1>3, <1>7, <2>4 DEF AtMostOne
    <3> QED
      BY <1>1, <1>2, <3>1
  <2> QED
    BY <2>1, <2>2, <2>3, <2>4
<1> QED
  BY <1>2, <1>6, <1>7 DEF AtMostOne, r

-----------------------------------------------------------------------------
(* The queue: which messages wait in it, and in which order. *)

\* The types, with no bound on numbers.
AnItem == [kind : {"user"}, id : Message] \cup [kind : {"request"}, id : Nat] \cup [kind : {"reply"}, id : {0}]

LEMMA WaitingHas ==
  ASSUME NEW q, NEW m
  PROVE  /\ Queued(q, m) <=> Has(q, {UserItem(m)})
         /\ m \in WaitingIn(q) <=> m \in Message /\ Has(q, {UserItem(m)})
  BY DEF Queued, ItemsOf, WaitingIn, Has

LEMMA UserAt ==
  ASSUME NEW q \in Seq(AnItem), NEW i \in 1..Len(q), q[i].kind = "user"
  PROVE  q[i] = UserItem(q[i].id) /\ q[i].id \in WaitingIn(q) /\ q[i].id \in Message
<1>1. q[i] \in AnItem
  BY ElementOfSeq
<1>2. q[i] = UserItem(q[i].id) /\ q[i].id \in Message
  BY <1>1 DEF AnItem, UserItem
<1> QED
  BY <1>2 DEF WaitingIn, Queued, ItemsOf

LEMMA ItemOf ==
  ASSUME NEW m \in Message
  PROVE  UserItem(m) \in AnItem /\ UserItem(m).kind = "user" /\ UserItem(m).id = m
  BY DEF AnItem, UserItem

\* Along a list, the user's messages outside X have rising keys.
Rising(q, key, X) ==
  \A i, j \in 1..Len(q) :
    i < j /\ q[i].kind = "user" /\ q[j].kind = "user" /\ q[i].id \notin X /\ q[j].id \notin X
      => key[q[i].id] < key[q[j].id]

LEMMA PartRises ==
  ASSUME NEW q \in Seq(AnItem), NEW r \in Seq(AnItem), NEW f, Part(r, q, f), NEW key, NEW X, Rising(q, key, X)
  PROVE  Rising(r, key, X)
  BY DEF Part, Rising

LEMMA WaitingAppend ==
  ASSUME NEW q \in Seq(AnItem), NEW item \in AnItem
  PROVE  WaitingIn(Append(q, item)) = WaitingIn(q) \cup {m \in Message : item = UserItem(m)}
<1>1. \A m \in Message : Has(Append(q, item), {UserItem(m)}) <=> Has(q, {UserItem(m)}) \/ item \in {UserItem(m)}
  BY AppendHas
<1> QED
  BY <1>1, WaitingHas

LEMMA AppendRises ==
  ASSUME NEW q \in Seq(AnItem), NEW item \in AnItem, NEW key, NEW X, Rising(q, key, X),
         item.kind = "user" /\ item.id \notin X => \A k \in WaitingIn(q) \ X : key[k] < key[item.id]
  PROVE  Rising(Append(q, item), key, X)
<1> DEFINE r == Append(q, item)
<1>1. /\ Len(r) = Len(q) + 1 /\ Len(q) \in Nat /\ r[Len(q) + 1] = item
      /\ \A i \in 1..Len(q) : r[i] = q[i]
  BY AppendProperties
<1> HIDE DEF r
<1>2. SUFFICES ASSUME NEW i \in 1..Len(r), NEW j \in 1..Len(r), i < j,
                      r[i].kind = "user", r[j].kind = "user", r[i].id \notin X, r[j].id \notin X
               PROVE  key[r[i].id] < key[r[j].id]
  BY DEF Rising, r
<1>3. i \in 1..Len(q) /\ r[i] = q[i]
  BY <1>1, <1>2
<1>4. CASE j \in 1..Len(q)
  BY <1>1, <1>2, <1>3, <1>4 DEF Rising
<1>5. CASE j = Len(q) + 1
  <2>1. q[i].id \in WaitingIn(q) \ X
    BY <1>2, <1>3, UserAt
  <2> QED
    BY <1>1, <1>2, <1>3, <1>5, <2>1
<1> QED
  BY <1>1, <1>4, <1>5

LEMMA FirstRises ==
  ASSUME NEW q \in Seq(AnItem), NEW m \in Message, NEW key, NEW X, Rising(q, key, X),
         m \in X \/ \A k \in WaitingIn(q) \ X : key[m] < key[k]
  PROVE  Rising(<<UserItem(m)>> \o q, key, X)
<1> DEFINE r == <<UserItem(m)>> \o q
<1>1. /\ Len(r) = Len(q) + 1 /\ Len(q) \in Nat /\ r[1] = UserItem(m)
      /\ \A i \in 1..Len(q) : r[i + 1] = q[i]
  BY ItemOf, FirstHas
<1> HIDE DEF r
<1>2. SUFFICES ASSUME NEW i \in 1..Len(r), NEW j \in 1..Len(r), i < j,
                      r[i].kind = "user", r[j].kind = "user", r[i].id \notin X, r[j].id \notin X
               PROVE  key[r[i].id] < key[r[j].id]
  BY DEF Rising, r
<1>3. j - 1 \in 1..Len(q) /\ (j - 1) + 1 = j
  BY <1>1, <1>2
<1>4. r[j] = q[j - 1]
  BY <1>1, <1>3
<1>5. CASE i = 1
  <2>1. q[j - 1].id \in WaitingIn(q) \ X
    BY <1>2, <1>3, <1>4, UserAt
  <2>2. r[i].id = m
    BY <1>1, <1>5, ItemOf
  <2> QED
    BY <1>2, <1>4, <2>1, <2>2
<1>6. CASE i # 1
  <2>1. i - 1 \in 1..Len(q) /\ (i - 1) + 1 = i /\ i - 1 < j - 1
    BY <1>1, <1>2, <1>6
  <2>2. r[i] = q[i - 1]
    BY <1>1, <2>1
  <2> QED
    BY <1>2, <1>3, <1>4, <2>1, <2>2 DEF Rising
<1> QED
  BY <1>5, <1>6

LEMMA WithoutIs ==
  ASSUME NEW q \in Seq(AnItem), NEW m \in Message, Queued(q, m), AtMostOne(q, {UserItem(m)})
  PROVE  /\ Without(q, m) \in Seq(AnItem) /\ WaitingIn(Without(q, m)) = WaitingIn(q) \ {m}
         /\ \A T : AtMostOne(q, T) => AtMostOne(Without(q, m), T)
         /\ \A key, X : Rising(q, key, X) => Rising(Without(q, m), key, X)
<1> DEFINE at == QueuedAt(q, m)
           r == Without(q, m)
<1>1. at \in 1..Len(q) /\ q[at] = UserItem(m)
  <2>1. \E i \in 1..Len(q) : q[i] = UserItem(m)
    BY DEF Queued, ItemsOf
  <2> QED
    BY <2>1 DEF QueuedAt
<1> HIDE DEF at
<1>2. r = RemovedAt(q, at)
  BY DEF Without, at
<1> HIDE DEF r
<1>3. r \in Seq(AnItem) /\ Len(r) = Len(q) - 1 /\ Len(q) \in Nat
  BY <1>1, <1>2, RemoveIs
<1>3a. \E f : /\ Part(RemovedAt(q, at), q, f)
            /\ \A j \in 1..Len(q) : j # at => \E l \in 1..(Len(q) - 1) : f[l] = j
            /\ \A i \in 1..(Len(q) - 1) : f[i] # at
  BY <1>1, RemoveIs
<1>4. PICK f : /\ Part(r, q, f)
               /\ \A j \in 1..Len(q) : j # at => \E i \in 1..(Len(q) - 1) : f[i] = j
               /\ \A i \in 1..(Len(q) - 1) : f[i] # at
  BY <1>3a, <1>2
<1>5. \A T : AtMostOne(q, T) => AtMostOne(r, T)
  BY <1>3, <1>4, PartHas
<1>6. \A key, X : Rising(q, key, X) => Rising(r, key, X)
  BY <1>3, <1>4, PartRises
<1>7. ~Has(r, {UserItem(m)})
  <2>1. SUFFICES ASSUME NEW i \in 1..Len(r), r[i] = UserItem(m)
                 PROVE  FALSE
    BY DEF Has
  <2>2. f[i] \in 1..Len(q) /\ q[f[i]] = UserItem(m) /\ f[i] # at
    BY <1>3, <1>4, <2>1 DEF Part
  <2> QED
    BY <1>1, <2>2 DEF AtMostOne
<1>8. ASSUME NEW k \in Message, k # m
      PROVE  Has(r, {UserItem(k)}) <=> Has(q, {UserItem(k)})
  <2>1. UserItem(k) # UserItem(m)
    BY <1>8 DEF UserItem
  <2>2. ASSUME Has(q, {UserItem(k)}) PROVE Has(r, {UserItem(k)})
    <3>1. PICK j \in 1..Len(q) : q[j] = UserItem(k)
      BY <2>2 DEF Has
    <3>2. PICK i \in 1..Len(r) : f[i] = j
      BY <1>1, <1>3, <1>4, <2>1, <3>1
    <3>3. r[i] = UserItem(k)
      BY <1>4, <3>1, <3>2 DEF Part
    <3> QED
      BY <3>3 DEF Has
  <2> QED
    BY <1>3, <1>4, <2>2, PartHas
<1>9. WaitingIn(r) = WaitingIn(q) \ {m}
  BY <1>7, <1>8, WaitingHas
<1> QED
  BY <1>3, <1>5, <1>6, <1>9 DEF r

LEMMA MoveFirstIs ==
  ASSUME NEW q \in Seq(AnItem), NEW m \in Message, Queued(q, m), \A k \in Message : AtMostOne(q, {UserItem(k)})
  PROVE  /\ MoveFirst(q, m) \in Seq(AnItem) /\ WaitingIn(MoveFirst(q, m)) = WaitingIn(q)
         /\ \A k \in Message : AtMostOne(MoveFirst(q, m), {UserItem(k)})
         /\ \A key, X : Rising(q, key, X) /\ (m \in X \/ \A k \in WaitingIn(q) \ (X \cup {m}) : key[m] < key[k])
                          => Rising(MoveFirst(q, m), key, X)
<1> DEFINE r == Without(q, m)
<1>1. /\ r \in Seq(AnItem) /\ WaitingIn(r) = WaitingIn(q) \ {m}
      /\ \A T : AtMostOne(q, T) => AtMostOne(r, T)
      /\ \A key, X : Rising(q, key, X) => Rising(r, key, X)
  BY WithoutIs
<1>2. MoveFirst(q, m) = <<UserItem(m)>> \o r
  BY DEF MoveFirst
<1> HIDE DEF r
<1>3. UserItem(m) \in AnItem
  BY ItemOf
<1>4. /\ MoveFirst(q, m) \in Seq(AnItem)
      /\ \A T : Has(MoveFirst(q, m), T) <=> (Has(r, T) \/ UserItem(m) \in T)
      /\ \A T : AtMostOne(r, T) /\ ~(Has(r, T) /\ UserItem(m) \in T) => AtMostOne(MoveFirst(q, m), T)
  BY <1>1, <1>2, <1>3, FirstHas
<1>5. m \in WaitingIn(q)
  BY DEF WaitingIn
<1>6. WaitingIn(MoveFirst(q, m)) = WaitingIn(q)
  <2>1. ASSUME NEW k \in Message
        PROVE  k \in WaitingIn(MoveFirst(q, m)) <=> k \in WaitingIn(r) \/ k = m
    <3>1. UserItem(m) \in {UserItem(k)} <=> k = m
      BY DEF UserItem
    <3> QED
      BY <1>4, <3>1, WaitingHas
  <2> QED
    BY <1>1, <1>5, <2>1, WaitingHas
<1>7. ASSUME NEW k \in Message
      PROVE  AtMostOne(MoveFirst(q, m), {UserItem(k)})
  <2>1. AtMostOne(r, {UserItem(k)})
    BY <1>1
  <2>2. ~(Has(r, {UserItem(k)}) /\ UserItem(m) \in {UserItem(k)})
    <3>1. UserItem(m) \in {UserItem(k)} => k = m
      BY DEF UserItem
    <3>2. ~Has(r, {UserItem(m)})
      BY <1>1, WaitingHas
    <3> QED
      BY <3>1, <3>2
  <2> QED
    BY <1>4, <2>1, <2>2
<1>8. ASSUME NEW key, NEW X, Rising(q, key, X), m \in X \/ \A k \in WaitingIn(q) \ (X \cup {m}) : key[m] < key[k]
      PROVE  Rising(MoveFirst(q, m), key, X)
  <2>1. Rising(r, key, X)
    BY <1>1, <1>8
  <2>2. m \in X \/ \A k \in WaitingIn(r) \ X : key[m] < key[k]
    BY <1>1, <1>8
  <2> QED
    BY <1>1, <1>2, <2>1, <2>2, FirstRises
<1> QED
  BY <1>4, <1>6, <1>7, <1>8

-----------------------------------------------------------------------------
(* Turn numbers. *)

AnEntry == [status : {"none", "queued", "sent", "cancelled", "failed"}, turn : Nat, removed : BOOLEAN]

LEMMA MessagesFinite == IsFiniteSet(Message) /\ \A S \in SUBSET Message : IsFiniteSet(S)
<1>1. 1 \in Int /\ MaxMessages \in Int
  BY ConversationAssumption
<1>2. IsFiniteSet(1..MaxMessages)
  BY <1>1, FS_Interval
<1> QED
  BY <1>2, FS_Subset DEF Message

\* The numbers of finitely many messages.
LEMMA NumbersFinite ==
  ASSUME entry \in [Message -> AnEntry], NEW S \in SUBSET Message
  PROVE  IsFiniteSet({entry[m].turn : m \in S}) /\ {entry[m].turn : m \in S} \in SUBSET Nat
<1> DEFINE f == [m \in S |-> entry[m].turn]
           K == {entry[m].turn : m \in S}
<1>1. K \in SUBSET Nat
  BY DEF AnEntry
<1>2. f \in Surjection(S, K)
  BY DEF Surjection
<1>3. IsFiniteSet(S)
  BY MessagesFinite
<1> HIDE DEF f, K
<1>4. IsFiniteSet(K)
  BY <1>2, <1>3, FS_Surjection
<1> QED
  BY <1>1, <1>4 DEF K

\* max_turn is a number of the chat, and none is higher.
LEMMA MaxTurn ==
  ASSUME entry \in [Message -> AnEntry], written \in SUBSET Nat, IsFiniteSet(written)
  PROVE  /\ max_turn \in Nat /\ max_turn \in {0} \cup written \cup {entry[m].turn : m \in Message}
         /\ \A n \in written : n <= max_turn
         /\ \A m \in Message : entry[m].turn <= max_turn
<1> DEFINE K == {entry[m].turn : m \in Message}
           numbers == {0} \cup written \cup K
<1>1. IsFiniteSet(K) /\ K \in SUBSET Nat
  BY NumbersFinite
<1>2. \A m \in Message : entry[m].turn \in K
  OBVIOUS
<1>3. max_turn = CHOOSE n \in numbers : \A k \in numbers : k <= n
  BY DEF max_turn
<1> HIDE DEF K
<1>4. IsFiniteSet(numbers) /\ numbers \subseteq Int /\ numbers # {} /\ numbers \subseteq Nat
  <2>1. IsFiniteSet({0})
    BY FS_Singleton
  <2>2. IsFiniteSet({0} \cup written)
    BY <2>1, FS_Union
  <2>3. IsFiniteSet(numbers)
    BY <1>1, <2>2, FS_Union
  <2> QED
    BY <1>1, <2>3
<1>5. 0 \in numbers /\ written \subseteq numbers /\ K \subseteq numbers
  OBVIOUS
<1> HIDE DEF numbers
<1>6. \E n \in numbers : \A k \in numbers : k <= n
  BY <1>4, HighestExists
<1>7. max_turn \in numbers /\ \A k \in numbers : k <= max_turn
  BY <1>3, <1>6
<1> QED
  BY <1>2, <1>4, <1>5, <1>7 DEF K, numbers

\* The number a waiting message is dealt: as many of the numbers are lower as messages are ahead.
LEMMA DealtIs ==
  ASSUME entry \in [Message -> AnEntry], NEW q \in Seq(AnItem), \A k \in Message : AtMostOne(q, {UserItem(k)}),
         NEW m \in WaitingIn(q)
  PROVE  /\ \E k \in WaitingIn(q) : Dealt(q, m) = entry[k].turn
         /\ Cardinality({k \in WaitingIn(q) : entry[k].turn < Dealt(q, m)}) <= Cardinality(AheadOf(q, m))
         /\ Cardinality(AheadOf(q, m)) < Cardinality({k \in WaitingIn(q) : entry[k].turn <= Dealt(q, m)})
<1> DEFINE W == WaitingIn(q)
           a == Cardinality(AheadOf(q, m))
           N == {entry[k].turn : k \in W}
           Lower(n) == {k \in W : entry[k].turn < n}
           UpTo(n) == {k \in W : entry[k].turn <= n}
<1>1. W \in SUBSET Message /\ m \in W
  BY DEF WaitingIn
<1>2. IsFiniteSet(N) /\ N \in SUBSET Nat
  BY <1>1, NumbersFinite
<1>3. \A k \in W : entry[k].turn \in N /\ entry[k].turn \in Nat
  BY <1>1 DEF AnEntry
<1>4. \A n \in N : \E k \in W : entry[k].turn = n
  OBVIOUS
<1>5. /\ a \in Nat /\ a < Cardinality(W) /\ Cardinality(W) \in Nat
  <2>1. AheadOf(q, m) \in SUBSET W /\ m \notin AheadOf(q, m)
    <3>1. ASSUME m \in AheadOf(q, m)
          PROVE  FALSE
      <4>1. PICK i \in 1..Len(q), j \in 1..Len(q) : i < j /\ q[i] = UserItem(m) /\ q[j] = UserItem(m)
        BY <3>1 DEF AheadOf
      <4>2. m \in Message
        BY <1>1
      <4>3. i = j
        BY <4>1, <4>2 DEF AtMostOne
      <4> QED
        BY <4>1, <4>3
    <3> QED
      BY <3>1 DEF AheadOf
  <2>2. IsFiniteSet(W)
    BY <1>1, MessagesFinite
  <2>3. Cardinality(AheadOf(q, m)) <= Cardinality(W) /\ Cardinality(AheadOf(q, m)) # Cardinality(W)
    BY <1>1, <2>1, <2>2, FS_Subset
  <2>4. Cardinality(AheadOf(q, m)) \in Nat /\ Cardinality(W) \in Nat
    BY <2>1, <2>2, FS_Subset, FS_CardinalityType
  <2> QED
    BY <2>3, <2>4
<1>6. \A n \in Nat : Cardinality(Lower(n)) \in Nat /\ Cardinality(UpTo(n)) \in Nat
  <2>1. \A n \in Nat : Lower(n) \in SUBSET Message /\ UpTo(n) \in SUBSET Message
    BY <1>1
  <2> QED
    BY <2>1, MessagesFinite, FS_CardinalityType
<1> DEFINE Fits(n) == Cardinality(Lower(n)) <= a /\ a < Cardinality(UpTo(n))
           T == {n \in N : a < Cardinality(UpTo(n))}
<1>7. Dealt(q, m) = CHOOSE n \in N : Fits(n)
  BY DEF Dealt
<1>8. ASSUME \A n \in N : ~Fits(n)
      PROVE  FALSE
  \* The least number that enough messages have or pass is preceded by too many.
  <2>1. PICK top \in N : \A n \in N : n <= top
    <3>1. N # {} /\ N \subseteq Int
      BY <1>1, <1>2
    <3> QED
      BY <1>2, <3>1, HighestExists
  <2>2. UpTo(top) = W
    BY <1>3, <2>1
  <2>3. T # {}
    BY <1>5, <2>1, <2>2
  <2>4. PICK t \in T : \A n \in T : t <= n
    <3> DEFINE minus == {0 - n : n \in T}
    <3>1. T \subseteq N
      OBVIOUS
    <3> HIDE DEF T
    <3>2. minus \subseteq Int /\ minus # {} /\ IsFiniteSet(T)
      BY <1>2, <2>3, <3>1, FS_Subset
    <3>3. IsFiniteSet(minus)
      <4> DEFINE f == [n \in T |-> 0 - n]
      <4>1. f \in Surjection(T, minus)
        BY DEF Surjection
      <4> HIDE DEF f, minus
      <4> QED
        BY <3>2, <4>1, FS_Surjection
    <3>4. PICK x \in minus : \A y \in minus : y <= x
      BY <3>2, <3>3, HighestExists
    <3>5. PICK t \in T : x = 0 - t
      BY <3>4
    <3>6. ASSUME NEW n \in T
          PROVE  t <= n
      <4>1. 0 - n <= 0 - t
        BY <3>4, <3>5, <3>6
      <4>2. n \in Nat /\ t \in Nat
        BY <1>2, <3>1, <3>5, <3>6
      <4> QED
        BY <4>1, <4>2
    <3> QED
      BY <3>6
  <2>5. t \in N /\ t \in Nat /\ a < Cardinality(UpTo(t))
    BY <1>2, <2>4
  <2>6. a < Cardinality(Lower(t))
    <3>1. ~Fits(t)
      BY <1>8, <2>5
    <3>2. Cardinality(Lower(t)) \in Nat /\ a \in Nat
      BY <1>5, <1>6, <2>5
    <3>3. ~(Cardinality(Lower(t)) <= a)
      BY <2>5, <3>1
    <3> HIDE DEF Lower, a
    <3> QED
      BY <3>2, <3>3
  <2> DEFINE L == {n \in N : n < t}
  <2>7. IsFiniteSet(L) /\ L \subseteq Int /\ L # {}
    <3>1. L \subseteq N
      OBVIOUS
    <3>2. L # {}
      <4>1. SUFFICES ASSUME L = {} PROVE FALSE
        OBVIOUS
      <4>2. Lower(t) = {}
        BY <1>3, <4>1
      <4>3. Cardinality(Lower(t)) = 0
        BY <4>2, FS_EmptySet
      <4> QED
        BY <1>5, <2>6, <4>3
    <3> QED
      BY <1>2, <3>1, <3>2, FS_Subset
  <2>8. PICK l \in L : \A n \in L : n <= l
    BY <2>7, HighestExists
  <2>9. UpTo(l) = Lower(t)
    BY <1>2, <1>3, <2>5, <2>8
  <2>10. l \in T /\ l < t
    BY <2>6, <2>8, <2>9
  <2>11. t <= l /\ l \in Nat
    BY <1>2, <2>4, <2>10
  <2> QED
    BY <2>5, <2>10, <2>11
<1>9. Dealt(q, m) \in N /\ Fits(Dealt(q, m))
  <2> HIDE DEF N, Fits
  <2>1. \E n \in N : Fits(n)
    BY <1>8
  <2> QED
    BY <1>7, <2>1
<1> QED
  BY <1>4, <1>9

LEMMA RenumberedIs ==
  ASSUME entry \in [Message -> AnEntry], NEW q \in Seq(AnItem), \A k \in Message : AtMostOne(q, {UserItem(k)})
  PROVE  /\ Renumbered(q) \in [Message -> AnEntry]
         /\ \A m \in Message : /\ Renumbered(q)[m].status = entry[m].status
                               /\ Renumbered(q)[m].removed = entry[m].removed
         /\ \A m \in Message : m \notin WaitingIn(q) => Renumbered(q)[m] = entry[m]
         /\ \A m \in WaitingIn(q) : /\ Renumbered(q)[m].turn = Dealt(q, m)
                                    /\ \E k \in WaitingIn(q) : Renumbered(q)[m].turn = entry[k].turn
<1>1. ASSUME NEW m \in WaitingIn(q)
      PROVE  m \in Message /\ Queued(q, m) /\ Dealt(q, m) \in Nat /\ \E k \in WaitingIn(q) : Dealt(q, m) = entry[k].turn
  <2>1. \E k \in WaitingIn(q) : Dealt(q, m) = entry[k].turn
    BY DealtIs
  <2> QED
    BY <2>1 DEF WaitingIn, AnEntry
<1>2. \A m \in Message : m \in WaitingIn(q) <=> Queued(q, m)
  BY DEF WaitingIn
<1>3. \A m \in Message : Renumbered(q)[m] = IF Queued(q, m) THEN [entry[m] EXCEPT !.turn = Dealt(q, m)] ELSE entry[m]
  BY DEF Renumbered
<1>4. ASSUME NEW m \in Message
      PROVE  /\ Renumbered(q)[m] \in AnEntry
             /\ Renumbered(q)[m].status = entry[m].status /\ Renumbered(q)[m].removed = entry[m].removed
             /\ m \in WaitingIn(q) => Renumbered(q)[m].turn = Dealt(q, m)
             /\ m \notin WaitingIn(q) => Renumbered(q)[m] = entry[m]
  <2>1. entry[m] \in AnEntry
    OBVIOUS
  <2>2. CASE m \in WaitingIn(q)
    <3>1. Renumbered(q)[m] = [entry[m] EXCEPT !.turn = Dealt(q, m)] /\ Dealt(q, m) \in Nat
      BY <1>1, <1>2, <1>3, <2>2
    <3> QED
      BY <2>1, <2>2, <3>1 DEF AnEntry
  <2>3. CASE m \notin WaitingIn(q)
    BY <1>2, <1>3, <2>1, <2>3
  <2> QED
    BY <2>2, <2>3
<1>5. Renumbered(q) = [m \in Message |-> Renumbered(q)[m]]
  BY DEF Renumbered
<1>6. Renumbered(q) \in [Message -> AnEntry]
  BY <1>4, <1>5
<1> QED
  BY <1>1, <1>4, <1>6

\* Dealt out to messages with different numbers, they rise along the queue.
LEMMA RenumberedRises ==
  ASSUME entry \in [Message -> AnEntry], NEW q \in Seq(AnItem), \A k \in Message : AtMostOne(q, {UserItem(k)}),
         \A k, l \in WaitingIn(q) : entry[k].turn = entry[l].turn => k = l
  PROVE  Rising(q, [m \in Message |-> Renumbered(q)[m].turn], {})
<1> DEFINE W == WaitingIn(q)
           Lower(n) == {k \in W : entry[k].turn < n}
           UpTo(n) == {k \in W : entry[k].turn <= n}
<1>1. SUFFICES ASSUME NEW i \in 1..Len(q), NEW j \in 1..Len(q), i < j, q[i].kind = "user", q[j].kind = "user"
               PROVE  Renumbered(q)[q[i].id].turn < Renumbered(q)[q[j].id].turn
  <2>1. \A i \in 1..Len(q) : q[i].kind = "user" => q[i].id \in Message
    BY UserAt
  <2> QED
    BY <1>1, <2>1 DEF Rising
<1> DEFINE x == q[i].id
           y == q[j].id
<1>2. /\ q[i] = UserItem(x) /\ x \in W /\ x \in Message
      /\ q[j] = UserItem(y) /\ y \in W /\ y \in Message
  BY <1>1, UserAt
<1>3. x # y
  <2>1. AtMostOne(q, {UserItem(x)})
    BY <1>2
  <2> QED
    BY <1>1, <1>2, <2>1 DEF AtMostOne
<1> HIDE DEF x, y
<1>4. W \in SUBSET Message /\ \A S \in SUBSET W : IsFiniteSet(S) /\ Cardinality(S) \in Nat
  BY MessagesFinite, FS_CardinalityType DEF WaitingIn
<1>5. Cardinality(AheadOf(q, x)) < Cardinality(AheadOf(q, y))
  <2>1. AheadOf(q, x) \in SUBSET W /\ AheadOf(q, y) \in SUBSET W
    BY DEF AheadOf
  <2>2. x \in AheadOf(q, y)
    BY <1>1, <1>2 DEF AheadOf
  <2>3. x \notin AheadOf(q, x)
    <3>1. SUFFICES ASSUME NEW a \in 1..Len(q), NEW b \in 1..Len(q), a < b, q[a] = UserItem(x), q[b] = UserItem(x)
                   PROVE  FALSE
      BY DEF AheadOf
    <3>2. a = b
      BY <1>2, <3>1 DEF AtMostOne
    <3> QED
      BY <3>1, <3>2
  <2>4. AheadOf(q, x) \subseteq AheadOf(q, y)
    <3>1. SUFFICES ASSUME NEW k \in W, NEW a \in 1..Len(q), NEW b \in 1..Len(q),
                          a < b, q[a] = UserItem(k), q[b] = UserItem(x)
                   PROVE  k \in AheadOf(q, y)
      BY DEF AheadOf
    <3>2. b = i
      BY <1>2, <3>1 DEF AtMostOne
    <3>3. a < j
      BY <1>1, <3>1, <3>2
    <3> QED
      BY <1>2, <3>1, <3>3 DEF AheadOf
  <2>5. AheadOf(q, x) \subseteq AheadOf(q, y) /\ AheadOf(q, x) # AheadOf(q, y) /\ IsFiniteSet(AheadOf(q, y))
    BY <1>4, <2>1, <2>2, <2>3, <2>4
  <2>6. /\ Cardinality(AheadOf(q, x)) <= Cardinality(AheadOf(q, y))
        /\ Cardinality(AheadOf(q, x)) # Cardinality(AheadOf(q, y))
    BY <2>5, FS_Subset
  <2>7. Cardinality(AheadOf(q, x)) \in Nat /\ Cardinality(AheadOf(q, y)) \in Nat
    BY <1>4, <2>1
  <2> QED
    BY <2>6, <2>7
<1> DEFINE n == Dealt(q, x)
           p == Dealt(q, y)
<1>6. /\ \E k \in W : n = entry[k].turn
      /\ Cardinality(Lower(n)) <= Cardinality(AheadOf(q, x)) /\ Cardinality(AheadOf(q, x)) < Cardinality(UpTo(n))
  BY <1>2, DealtIs
<1>7. /\ \E k \in W : p = entry[k].turn
      /\ Cardinality(Lower(p)) <= Cardinality(AheadOf(q, y)) /\ Cardinality(AheadOf(q, y)) < Cardinality(UpTo(p))
  BY <1>2, DealtIs
<1>8. Renumbered(q)[x].turn = n /\ Renumbered(q)[y].turn = p
  BY <1>2, RenumberedIs
<1>9. n \in Nat /\ p \in Nat /\ \A k \in W : entry[k].turn \in Nat
  BY <1>4, <1>6, <1>7 DEF AnEntry
<1>10. /\ AheadOf(q, x) \in SUBSET W /\ AheadOf(q, y) \in SUBSET W
       /\ Lower(n) \in SUBSET W /\ UpTo(n) \in SUBSET W /\ Lower(p) \in SUBSET W /\ UpTo(p) \in SUBSET W
  BY DEF AheadOf
<1>11. /\ Cardinality(AheadOf(q, x)) \in Nat /\ Cardinality(AheadOf(q, y)) \in Nat
       /\ Cardinality(Lower(n)) \in Nat /\ Cardinality(UpTo(n)) \in Nat
       /\ Cardinality(Lower(p)) \in Nat /\ Cardinality(UpTo(p)) \in Nat
       /\ IsFiniteSet(Lower(n)) /\ IsFiniteSet(UpTo(p))
  BY <1>4, <1>10
<1>12. CASE p < n
  <2>1. UpTo(p) \subseteq Lower(n)
    BY <1>9, <1>12
  <2>2. Cardinality(UpTo(p)) <= Cardinality(Lower(n))
    BY <1>11, <2>1, FS_Subset
  <2> HIDE DEF Lower, UpTo, n, p
  <2> QED
    BY <1>5, <1>6, <1>7, <1>11, <2>2
<1>13. CASE p = n
  <2>1. PICK k \in W : n = entry[k].turn
    BY <1>6
  <2>2. UpTo(n) = Lower(n) \cup {k} /\ k \notin Lower(n)
    BY <1>1, <1>9, <2>1
  <2>3. Cardinality(UpTo(n)) = Cardinality(Lower(n)) + 1
    BY <1>11, <2>2, FS_AddElement
  <2> HIDE DEF Lower, UpTo, n, p
  <2>4. Cardinality(Lower(p)) = Cardinality(Lower(n)) /\ Cardinality(UpTo(p)) = Cardinality(UpTo(n))
    BY <1>13
  <2> QED
    BY <1>5, <1>6, <1>7, <1>11, <2>3, <2>4
<1>14. CASE n < p
  BY <1>8, <1>14 DEF x, y
<1>15. n < p \/ n = p \/ p < n
  <2> HIDE DEF n, p
  <2> QED
    BY <1>9
<1> QED
  BY <1>12, <1>13, <1>14, <1>15

-----------------------------------------------------------------------------
(* The mailbox: which messages are on their way to the actor. *)

ACommand == [cmd : {"queue"}, item : AnItem] \cup [cmd : {"steer", "unqueue"}, id : Message]
              \cup [cmd : {"steered"}, id : Message, outcome : Outcome] \cup [cmd : {"stop"}]
UserCmd(m) == [cmd |-> "queue", item |-> UserItem(m)]
IsPost(c) == c.cmd = "queue" /\ c.item.kind = "user"
MailedIn(q) == {m \in Message : Has(q, {UserCmd(m)})}

LEMMA CommandIs ==
  ASSUME NEW c \in ACommand
  PROVE  /\ c.cmd \in {"queue", "steer", "unqueue", "steered", "stop"}
         /\ c.cmd = "queue" => c.item \in AnItem
         /\ c.cmd \in {"steer", "unqueue", "steered"} => c.id \in Message
         /\ c.cmd = "steered" => c.outcome \in Outcome /\ c = [cmd |-> "steered", id |-> c.id, outcome |-> c.outcome]
         /\ IsPost(c) => c = UserCmd(c.item.id) /\ c.item.id \in Message /\ c.item = UserItem(c.item.id)
         /\ \A m \in Message : c = UserCmd(m) => IsPost(c) /\ c.item.id = m /\ c.item = UserItem(m)
<1>1. CASE c.cmd = "queue"
  <2>1. c.item \in AnItem /\ c = [cmd |-> "queue", item |-> c.item]
    BY <1>1 DEF ACommand
  <2>2. IsPost(c) => c.item.id \in Message /\ c.item = UserItem(c.item.id)
    BY <2>1 DEF IsPost, AnItem, UserItem
  <2>3. \A m \in Message : c = UserCmd(m) => IsPost(c) /\ c.item.id = m /\ c.item = UserItem(m)
    BY DEF UserCmd, UserItem, IsPost
  <2> QED
    BY <1>1, <2>1, <2>2, <2>3 DEF UserCmd, IsPost
<1>2. CASE c.cmd # "queue"
  BY <1>2 DEF ACommand, IsPost, UserCmd
<1> QED
  BY <1>1, <1>2

LEMMA PostOf ==
  ASSUME NEW m \in Message
  PROVE  UserCmd(m) \in ACommand /\ IsPost(UserCmd(m)) /\ UserCmd(m).item = UserItem(m)
  BY ItemOf DEF UserCmd, ACommand, IsPost

LEMMA PostAt ==
  ASSUME NEW q \in Seq(ACommand), NEW i \in 1..Len(q), IsPost(q[i])
  PROVE  q[i] = UserCmd(q[i].item.id) /\ q[i].item.id \in MailedIn(q) /\ q[i].item.id \in Message
<1>1. q[i] \in ACommand
  BY ElementOfSeq
<1>2. q[i] = UserCmd(q[i].item.id) /\ q[i].item.id \in Message
  BY <1>1, CommandIs
<1> QED
  BY <1>2 DEF MailedIn, Has

\* Along the mailbox, the messages outside X have rising keys.
MailRises(q, key, X) ==
  \A i, j \in 1..Len(q) :
    i < j /\ IsPost(q[i]) /\ IsPost(q[j]) /\ q[i].item.id \notin X /\ q[j].item.id \notin X
      => key[q[i].item.id] < key[q[j].item.id]

LEMMA MailAppend ==
  ASSUME NEW q \in Seq(ACommand), NEW c \in ACommand
  PROVE  /\ Append(q, c) \in Seq(ACommand)
         /\ ~IsPost(c) => MailedIn(Append(q, c)) = MailedIn(q)
         /\ \A m \in Message : c = UserCmd(m) => MailedIn(Append(q, c)) = MailedIn(q) \cup {m}
         /\ \A m \in Message : AtMostOne(q, {UserCmd(m)}) /\ (c = UserCmd(m) => m \notin MailedIn(q))
                                 => AtMostOne(Append(q, c), {UserCmd(m)})
<1>1. \A m \in Message : Has(Append(q, c), {UserCmd(m)}) <=> Has(q, {UserCmd(m)}) \/ c = UserCmd(m)
  <2>1. \A m : Has(Append(q, c), {UserCmd(m)}) <=> Has(q, {UserCmd(m)}) \/ c \in {UserCmd(m)}
    BY AppendHas
  <2> QED
    BY <2>1
<1>2. Append(q, c) \in Seq(ACommand)
  BY AppendHas
<1>3. \A m \in Message : AtMostOne(q, {UserCmd(m)}) /\ ~(Has(q, {UserCmd(m)}) /\ c \in {UserCmd(m)})
                           => AtMostOne(Append(q, c), {UserCmd(m)})
  BY AppendHas
<1>4. \A m, k \in Message : UserCmd(m) = UserCmd(k) => m = k
  BY DEF UserCmd, UserItem
<1>5. \A m \in Message : ~IsPost(c) => c # UserCmd(m)
  BY CommandIs
<1>6. ~IsPost(c) => MailedIn(Append(q, c)) = MailedIn(q)
  BY <1>1, <1>5 DEF MailedIn
<1>7. ASSUME NEW m \in Message, c = UserCmd(m)
      PROVE  MailedIn(Append(q, c)) = MailedIn(q) \cup {m}
  BY <1>1, <1>4, <1>7 DEF MailedIn
<1>8. ASSUME NEW m \in Message, AtMostOne(q, {UserCmd(m)}), c = UserCmd(m) => m \notin MailedIn(q)
      PROVE  AtMostOne(Append(q, c), {UserCmd(m)})
  BY <1>3, <1>8 DEF MailedIn
<1> QED
  BY <1>2, <1>6, <1>7, <1>8

LEMMA MailTail ==
  ASSUME NEW q \in Seq(ACommand), q # <<>>, \A m \in Message : AtMostOne(q, {UserCmd(m)})
  PROVE  /\ Tail(q) \in Seq(ACommand) /\ Head(q) \in ACommand
         /\ \A m \in Message : AtMostOne(Tail(q), {UserCmd(m)})
         /\ ~IsPost(Head(q)) => MailedIn(Tail(q)) = MailedIn(q)
         /\ \A m \in Message : Head(q) = UserCmd(m) => m \in MailedIn(q) /\ MailedIn(Tail(q)) = MailedIn(q) \ {m}
<1>1. Tail(q) \in Seq(ACommand) /\ Head(q) \in ACommand
  BY TailHas
<1>2. \A m \in Message : Has(q, {UserCmd(m)}) <=> Has(Tail(q), {UserCmd(m)}) \/ Head(q) = UserCmd(m)
  <2>1. \A m : Has(q, {UserCmd(m)}) <=> Has(Tail(q), {UserCmd(m)}) \/ Head(q) \in {UserCmd(m)}
    BY TailHas
  <2> QED
    BY <2>1
<1>3. \A m \in Message : AtMostOne(Tail(q), {UserCmd(m)}) /\ ~(Has(Tail(q), {UserCmd(m)}) /\ Head(q) = UserCmd(m))
  <2>1. \A m \in Message : AtMostOne(q, {UserCmd(m)}) =>
                             AtMostOne(Tail(q), {UserCmd(m)}) /\ ~(Has(Tail(q), {UserCmd(m)}) /\ Head(q) \in {UserCmd(m)})
    BY TailHas
  <2> QED
    BY <2>1
<1>4. \A m, k \in Message : UserCmd(m) = UserCmd(k) => m = k
  BY DEF UserCmd, UserItem
<1>5. \A m \in Message : ~IsPost(Head(q)) => Head(q) # UserCmd(m)
  BY <1>1, CommandIs
<1>6. ~IsPost(Head(q)) => MailedIn(Tail(q)) = MailedIn(q)
  BY <1>2, <1>5 DEF MailedIn
<1>7. ASSUME NEW m \in Message, Head(q) = UserCmd(m)
      PROVE  m \in MailedIn(q) /\ MailedIn(Tail(q)) = MailedIn(q) \ {m}
  BY <1>2, <1>3, <1>4, <1>7 DEF MailedIn
<1> QED
  BY <1>1, <1>3, <1>6, <1>7

LEMMA MailAppendRises ==
  ASSUME NEW q \in Seq(ACommand), NEW c \in ACommand, NEW key, NEW X, MailRises(q, key, X),
         IsPost(c) /\ c.item.id \notin X => \A k \in MailedIn(q) \ X : key[k] < key[c.item.id]
  PROVE  MailRises(Append(q, c), key, X)
<1> DEFINE r == Append(q, c)
<1>1. /\ Len(r) = Len(q) + 1 /\ Len(q) \in Nat /\ r[Len(q) + 1] = c
      /\ \A i \in 1..Len(q) : r[i] = q[i]
  BY AppendProperties
<1> HIDE DEF r
<1>2. SUFFICES ASSUME NEW i \in 1..Len(r), NEW j \in 1..Len(r), i < j,
                      IsPost(r[i]), IsPost(r[j]), r[i].item.id \notin X, r[j].item.id \notin X
               PROVE  key[r[i].item.id] < key[r[j].item.id]
  BY DEF MailRises, r
<1>3. i \in 1..Len(q) /\ r[i] = q[i]
  BY <1>1, <1>2
<1>4. CASE j \in 1..Len(q)
  BY <1>1, <1>2, <1>3, <1>4 DEF MailRises
<1>5. CASE j = Len(q) + 1
  <2>1. q[i].item.id \in MailedIn(q) \ X
    BY <1>2, <1>3, PostAt
  <2> QED
    BY <1>1, <1>2, <1>3, <1>5, <2>1
<1> QED
  BY <1>1, <1>4, <1>5

\* The first of a mailbox that rises is before the others.
LEMMA MailTailRises ==
  ASSUME NEW q \in Seq(ACommand), q # <<>>, NEW key, NEW X, MailRises(q, key, X)
  PROVE  /\ MailRises(Tail(q), key, X)
         /\ IsPost(Head(q)) /\ Head(q).item.id \notin X => \A k \in MailedIn(Tail(q)) \ X : key[Head(q).item.id] < key[k]
<1> DEFINE r == Tail(q)
<1>1. /\ r \in Seq(ACommand) /\ Len(r) = Len(q) - 1 /\ Len(q) \in Nat /\ Len(q) >= 1 /\ Head(q) = q[1]
      /\ \A i \in 1..Len(r) : r[i] = q[i + 1]
  BY HeadTailProperties, EmptySeq
<1> HIDE DEF r
<1>2. \A i \in 1..Len(r) : i + 1 \in 1..Len(q) /\ 1 < i + 1
  BY <1>1
<1>3. MailRises(r, key, X)
  <2>1. SUFFICES ASSUME NEW i \in 1..Len(r), NEW j \in 1..Len(r), i < j,
                        IsPost(r[i]), IsPost(r[j]), r[i].item.id \notin X, r[j].item.id \notin X
                 PROVE  key[r[i].item.id] < key[r[j].item.id]
    BY DEF MailRises
  <2>2. i + 1 < j + 1
    BY <1>1, <2>1
  <2> QED
    BY <1>1, <1>2, <2>1, <2>2 DEF MailRises
<1>4. ASSUME IsPost(Head(q)), Head(q).item.id \notin X, NEW k \in MailedIn(r) \ X
      PROVE  key[Head(q).item.id] < key[k]
  <2>1. PICK i \in 1..Len(r) : r[i] = UserCmd(k)
    BY <1>4 DEF MailedIn, Has
  <2>2. IsPost(r[i]) /\ r[i].item.id = k
    <3>1. k \in Message
      BY <1>4 DEF MailedIn
    <3> QED
      BY <2>1, <3>1, PostOf, ItemOf
  <2>3. IsPost(q[i + 1]) /\ q[i + 1].item.id = k /\ i + 1 \in 1..Len(q) /\ 1 < i + 1 /\ 1 \in 1..Len(q)
    BY <1>1, <1>2, <2>1, <2>2
  <2> QED
    BY <1>1, <1>4, <2>3 DEF MailRises
<1> QED
  BY <1>3, <1>4 DEF r

-----------------------------------------------------------------------------
(* Types: those of TypeOK, with no bound on turn numbers. *)

ATurn == [phase : {"idle", "starting", "running"}, number : Nat, user : BOOLEAN, batch : Seq(Message), stop : BOOLEAN]
ATook == [id : Message, turn : Nat, joined : BOOLEAN]
Readers == {t \in Sender : sending[t].step = "read"}

\* The chat and its clients; every post under way has room.
TypedChat ==
  /\ entry \in [Message -> AnEntry]
  /\ posted \in Nat /\ IsFiniteSet(Readers) /\ posted + Cardinality(Readers) <= MaxMessages
  /\ written \in SUBSET Nat /\ IsFiniteSet(written)
  /\ sending \in [Sender -> [step : {"none", "read", "saved"}, n : Nat]]
  /\ \A s \in Sender : /\ sending[s].step = "none" => sending[s].n = 0
                       /\ sending[s].step = "saved" => sending[s].n \in Message
TypedActor ==
  /\ queue \in Seq(AnItem) /\ turn \in ATurn
  /\ inflight \in [Message -> {"no", "yes", "back"}] /\ held \in {"none", "ok", "err"} /\ marked \in BOOLEAN
TypedAgent == done \in {"none", "ok", "err"} /\ offered \in SUBSET Message /\ awaited \in SUBSET Message
TypedHistory == took \in Seq(ATook) /\ steered \in SUBSET Message /\ told \in SUBSET Message /\ shown \in Nat
TypedBounds == others \in 0..MaxOthers /\ touches \in 0..MaxTouches /\ crashes \in 0..MaxCrashes
Typed == TypedChat /\ mailbox \in Seq(ACommand) /\ TypedActor /\ TypedAgent /\ TypedHistory /\ TypedBounds

Saved == {m \in Message : \E s \in Sender : sending[s].step = "saved" /\ sending[s].n = m}
Line == WaitingIn(queue) \cup MailedIn(mailbox) \cup Saved

\* A message is on its way to a turn at most once, and queued meanwhile.
OnceInLine ==
  /\ \A m \in Message : AtMostOne(queue, {UserItem(m)}) /\ AtMostOne(mailbox, {UserCmd(m)})
  /\ \A s, t \in Sender : /\ sending[s].step = "saved" /\ sending[t].step = "saved" /\ sending[s].n = sending[t].n
                          => s = t
  /\ WaitingIn(queue) \cap MailedIn(mailbox) = {} /\ (WaitingIn(queue) \cup MailedIn(mailbox)) \cap Saved = {}
  /\ \A m \in Line : m <= posted /\ entry[m].status = "queued"

LEMMA LineTypes == Line \in SUBSET Message
  BY DEF Line, WaitingIn, MailedIn, Saved

LEMMA CancelledIs ==
  ASSUME entry \in [Message -> AnEntry], NEW S, NEW gone \in BOOLEAN
  PROVE  /\ Cancelled(S, gone) \in [Message -> AnEntry]
         /\ \A m \in Message : m \notin S => Cancelled(S, gone)[m] = entry[m]
         /\ \A m \in Message : m \in S => /\ Cancelled(S, gone)[m].status = "cancelled"
                                          /\ Cancelled(S, gone)[m].removed = gone
                                          /\ Cancelled(S, gone)[m].turn = entry[m].turn
<1>1. ASSUME NEW m \in Message
      PROVE  /\ Cancelled(S, gone)[m] \in AnEntry
             /\ m \notin S => Cancelled(S, gone)[m] = entry[m]
             /\ m \in S => /\ Cancelled(S, gone)[m].status = "cancelled"
                           /\ Cancelled(S, gone)[m].removed = gone
                           /\ Cancelled(S, gone)[m].turn = entry[m].turn
  <2>1. entry[m] \in AnEntry
    OBVIOUS
  <2>2. Cancelled(S, gone)[m] = IF m \in S THEN [entry[m] EXCEPT !.status = "cancelled", !.removed = gone] ELSE entry[m]
    BY DEF Cancelled
  <2> QED
    BY <2>1, <2>2 DEF AnEntry
<1>2. Cancelled(S, gone) = [m \in Message |-> Cancelled(S, gone)[m]]
  BY DEF Cancelled
<1> QED
  BY <1>1, <1>2

LEMMA JoinedIs ==
  ASSUME entry \in [Message -> AnEntry], NEW m \in Message, turn.number \in Nat
  PROVE  /\ Joined(m) \in [Message -> AnEntry]
         /\ \A k \in Message : k # m => Joined(m)[k] = entry[k]
         /\ Joined(m)[m].status = "sent" /\ Joined(m)[m].turn = turn.number /\ Joined(m)[m].removed = entry[m].removed
  BY DEF Joined, AnEntry

LEMMA RestartedIs ==
  ASSUME entry \in [Message -> AnEntry]
  PROVE  /\ Restarted \in [Message -> AnEntry]
         /\ \A m \in Message : /\ Restarted[m].turn = entry[m].turn /\ Restarted[m].removed = entry[m].removed
                               /\ Restarted[m].status = IF entry[m].status = "queued" THEN "failed" ELSE entry[m].status
<1>1. ASSUME NEW m \in Message
      PROVE  /\ Restarted[m] \in AnEntry
             /\ Restarted[m].turn = entry[m].turn /\ Restarted[m].removed = entry[m].removed
             /\ Restarted[m].status = IF entry[m].status = "queued" THEN "failed" ELSE entry[m].status
  <2>1. entry[m] \in AnEntry
    OBVIOUS
  <2>2. Restarted[m] = IF entry[m].status = "queued" THEN [entry[m] EXCEPT !.status = "failed"] ELSE entry[m]
    BY DEF Restarted
  <2> QED
    BY <2>1, <2>2 DEF AnEntry
<1>2. Restarted = [m \in Message |-> Restarted[m]]
  BY DEF Restarted
<1> QED
  BY <1>1, <1>2

\* A client's post keeps the others' places.
LEMMA ReadersLeave ==
  ASSUME TypedChat, NEW s \in Sender, NEW p \in [step : {"none", "read", "saved"}, n : Nat]
  PROVE  LET R == {t \in Sender : [sending EXCEPT ![s] = p][t].step = "read"} IN
         /\ IsFiniteSet(R) /\ Cardinality(R) \in Nat /\ Cardinality(Readers) \in Nat
         /\ p.step = "read" /\ sending[s].step # "read" => Cardinality(R) = Cardinality(Readers) + 1
         /\ p.step # "read" /\ sending[s].step = "read" => Cardinality(R) = Cardinality(Readers) - 1
         /\ p.step # "read" /\ sending[s].step # "read" => R = Readers
<1> DEFINE R == {t \in Sender : [sending EXCEPT ![s] = p][t].step = "read"}
<1>1. IsFiniteSet(Readers) /\ Cardinality(Readers) \in Nat
  BY FS_CardinalityType DEF TypedChat
<1>2. sending \in [Sender -> [step : {"none", "read", "saved"}, n : Nat]]
  BY DEF TypedChat
<1>3. CASE p.step = "read"
  <2>1. R = Readers \cup {s} /\ (s \in Readers <=> sending[s].step = "read")
    BY <1>2, <1>3 DEF Readers
  <2> QED
    BY <1>1, <1>3, <2>1, FS_AddElement, FS_CardinalityType
<1>4. CASE p.step # "read"
  <2>1. R = Readers \ {s} /\ (s \in Readers <=> sending[s].step = "read")
    BY <1>2, <1>4 DEF Readers
  <2> QED
    BY <1>1, <1>4, <2>1, FS_RemoveElement, FS_CardinalityType
<1> QED
  BY <1>3, <1>4

LEMMA Told ==
  ASSUME NEW q \in Seq(ACommand), NEW c \in ACommand
  PROVE  Append(q, c) \in Seq(ACommand)
  BY AppendHas

LEMMA TypedClients ==
  ASSUME Typed,
         \/ \E s \in Sender : PostReads(s) \/ PostSaves(s) \/ Send(s)
         \/ \E kind \in Other : OtherArrives(kind)
         \/ \E m \in Message : Touch("steer", m) \/ Touch("unqueue", m)
         \/ Stop
  PROVE  Typed'
<1> USE DEF actorVars, agentVars, bounds, history, chatVars
<1>1. max_turn \in Nat /\ max_turn + 1 \in Nat
  BY MaxTurn DEF Typed, TypedChat
<1>2. ASSUME NEW s \in Sender, PostReads(s)
      PROVE  Typed'
  <2> DEFINE p == [step |-> "read", n |-> NextTurn(max_turn)]
  <2>1. p \in [step : {"none", "read", "saved"}, n : Nat] /\ p.step = "read" /\ sending[s] = NotPosting
    BY <1>1, <1>2 DEF PostReads, NextTurn
  <2>2. sending' = [sending EXCEPT ![s] = p] /\ posted + Cardinality(Readers) < MaxMessages
    BY <1>2 DEF PostReads, Readers
  <2> HIDE DEF p
  <2>3. IsFiniteSet(Readers') /\ Cardinality(Readers') = Cardinality(Readers) + 1 /\ Cardinality(Readers) \in Nat
    <3>1. sending[s].step # "read"
      BY <2>1 DEF NotPosting
    <3> QED
      BY <2>1, <2>2, <3>1, ReadersLeave DEF Typed, Readers
  <2>4. TypedChat'
    BY <1>2, <2>1, <2>2, <2>3, ConversationAssumption DEF Typed, TypedChat, PostReads
  <2> QED
    BY <1>2, <2>4 DEF Typed, TypedActor, TypedAgent, TypedHistory, TypedBounds, PostReads
<1>3. ASSUME NEW s \in Sender, PostSaves(s)
      PROVE  Typed'
  <2> DEFINE p == [step |-> "saved", n |-> posted + 1]
  <2>1. p \in [step : {"none", "read", "saved"}, n : Nat] /\ p.step = "saved" /\ sending[s].step = "read"
    BY <1>3 DEF PostSaves, Typed, TypedChat
  <2>2. sending' = [sending EXCEPT ![s] = p] /\ posted' = posted + 1
    BY <1>3 DEF PostSaves
  <2>3. posted + 1 \in Message
    <3>1. s \in Readers
      BY <2>1 DEF Readers
    <3>2. Cardinality(Readers) \in Nat /\ Cardinality(Readers) # 0
      BY <3>1, FS_CardinalityType, FS_EmptySet DEF Typed, TypedChat
    <3> QED
      BY <3>2, ConversationAssumption DEF Message, Typed, TypedChat
  <2>4. entry' \in [Message -> AnEntry]
    <3>1. [status |-> "queued", turn |-> sending[s].n, removed |-> FALSE] \in AnEntry
      BY DEF AnEntry, Typed, TypedChat
    <3> QED
      BY <1>3, <3>1 DEF PostSaves, Typed, TypedChat
  <2>5. p.n = posted + 1
    OBVIOUS
  <2> HIDE DEF p
  <2>6. IsFiniteSet(Readers') /\ Cardinality(Readers') = Cardinality(Readers) - 1 /\ Cardinality(Readers) \in Nat
    BY <2>1, <2>2, ReadersLeave DEF Typed, Readers
  <2>7. TypedChat'
    BY <1>3, <2>1, <2>2, <2>3, <2>4, <2>5, <2>6, ConversationAssumption DEF Typed, TypedChat, PostSaves
  <2> QED
    BY <1>3, <2>7 DEF Typed, TypedActor, TypedAgent, TypedHistory, TypedBounds, PostSaves
<1>4. ASSUME NEW s \in Sender, Send(s)
      PROVE  Typed'
  <2>1. NotPosting \in [step : {"none", "read", "saved"}, n : Nat] /\ NotPosting.step = "none" /\ NotPosting.n = 0
    BY DEF NotPosting
  <2>2. sending' = [sending EXCEPT ![s] = NotPosting] /\ sending[s].step = "saved"
    BY <1>4 DEF Send
  <2>3. Readers' = Readers
    BY <2>1, <2>2, ReadersLeave DEF Typed, Readers
  <2>4. TypedChat'
    BY <1>4, <2>1, <2>2, <2>3 DEF Typed, TypedChat, Send
  <2>5. mailbox' \in Seq(ACommand)
    <3>1. UserCmd(sending[s].n) \in ACommand
      BY <2>2, PostOf DEF Typed, TypedChat
    <3> QED
      BY <1>4, <3>1, Told DEF Typed, Send, Tell, UserCmd
  <2> QED
    BY <1>4, <2>4, <2>5 DEF Typed, TypedActor, TypedAgent, TypedHistory, TypedBounds, Send
<1>5. ASSUME NEW kind \in Other, OtherArrives(kind)
      PROVE  Typed'
  <2> DEFINE item == [kind |-> kind, id |-> IF kind = "request" THEN max_turn + 1 ELSE 0]
  <2>1. item \in AnItem
    BY <1>1, ConversationAssumption DEF AnItem
  <2>2. [cmd |-> "queue", item |-> item] \in ACommand
    BY <2>1 DEF ACommand
  <2>3. mailbox' = Append(mailbox, [cmd |-> "queue", item |-> item])
    BY <1>5 DEF OtherArrives, Tell
  <2>4. mailbox' \in Seq(ACommand)
    BY <2>2, <2>3, Told DEF Typed
  <2>5. written' \in SUBSET Nat /\ IsFiniteSet(written')
    BY <1>1, <1>5, FS_AddElement DEF OtherArrives, Typed, TypedChat
  <2>6. Readers' = Readers
    BY <1>5 DEF OtherArrives, Readers
  <2>7. TypedChat'
    BY <1>5, <2>5, <2>6 DEF OtherArrives, Typed, TypedChat
  <2>8. TypedBounds'
    BY <1>5, ConversationAssumption DEF OtherArrives, Typed, TypedBounds
  <2> QED
    BY <1>5, <2>4, <2>7, <2>8 DEF Typed, TypedActor, TypedAgent, TypedHistory, OtherArrives
<1>6. ASSUME NEW m \in Message, NEW cmd \in {"steer", "unqueue"}, Touch(cmd, m)
      PROVE  Typed'
  <2>1. [cmd |-> cmd, id |-> m] \in ACommand
    BY DEF ACommand
  <2>2. mailbox' \in Seq(ACommand)
    BY <1>6, <2>1, Told DEF Touch, Tell, Typed
  <2>3. Readers' = Readers
    BY <1>6 DEF Touch, Readers
  <2>4. TypedBounds'
    BY <1>6, ConversationAssumption DEF Touch, Typed, TypedBounds
  <2> QED
    BY <1>6, <2>2, <2>3, <2>4 DEF Typed, TypedChat, TypedActor, TypedAgent, TypedHistory, Touch
<1>7. ASSUME Stop
      PROVE  Typed'
  <2>1. [cmd |-> "stop"] \in ACommand
    BY DEF ACommand
  <2>2. mailbox' \in Seq(ACommand)
    BY <1>7, <2>1, Told DEF Stop, Tell, Typed
  <2>3. Readers' = Readers
    BY <1>7 DEF Stop, Readers
  <2>4. TypedBounds'
    BY <1>7, ConversationAssumption DEF Stop, Typed, TypedBounds
  <2> QED
    BY <1>7, <2>2, <2>3, <2>4 DEF Typed, TypedChat, TypedActor, TypedAgent, TypedHistory, Stop
<1> QED
  BY <1>2, <1>3, <1>4, <1>5, <1>6, <1>7

\* The first items of one kind.
LEMMA RunIs ==
  ASSUME queue \in Seq(AnItem), queue # <<>>, NEW kind, Head(queue).kind = kind
  PROVE  /\ Run(kind) \in 1..Len(queue) /\ \A i \in 1..Run(kind) : queue[i].kind = kind
         /\ Run(kind) = Len(queue) \/ queue[Run(kind) + 1].kind # kind
<1> DEFINE K == {k \in 1..Len(queue) : \A i \in 1..k : queue[i].kind = kind}
           Ends(k) == /\ \A i \in 1..k : queue[i].kind = kind
                      /\ k = Len(queue) \/ queue[k + 1].kind # kind
<1>1. Len(queue) \in Nat /\ Len(queue) >= 1 /\ Head(queue) = queue[1]
  BY HeadTailProperties, EmptySeq
<1>2. 1 \in K
  BY <1>1
<1>3. IsFiniteSet(K) /\ K \subseteq Int
  <2>1. K \in SUBSET (1..Len(queue)) /\ 1 \in Int /\ Len(queue) \in Int
    BY <1>1
  <2> HIDE DEF K
  <2>2. IsFiniteSet(1..Len(queue))
    BY <2>1, FS_Interval
  <2>3. IsFiniteSet(K)
    BY <2>1, <2>2, FS_Subset
  <2> QED
    BY <2>1, <2>3
<1>4. PICK k \in K : \A j \in K : j <= k
  <2> HIDE DEF K
  <2> QED
    BY <1>2, <1>3, HighestExists
<1>5. k = Len(queue) \/ queue[k + 1].kind # kind
  <2>1. SUFFICES ASSUME k # Len(queue), queue[k + 1].kind = kind PROVE FALSE
    OBVIOUS
  <2>2. k + 1 \in 1..Len(queue) /\ k \in Nat
    BY <1>1, <2>1
  <2>3. \A i \in 1..(k + 1) : i = k + 1 \/ i \in 1..k
    BY <2>2
  <2>4. k + 1 \in K
    BY <2>1, <2>2, <2>3
  <2>5. k + 1 <= k
    BY <1>4, <2>4
  <2> QED
    BY <2>2, <2>5
<1>6. k \in 1..Len(queue) /\ Ends(k)
  BY <1>5
<1>7. Run(kind) = CHOOSE j \in 1..Len(queue) : Ends(j)
  BY DEF Run
<1> HIDE DEF Ends
<1>8. Run(kind) \in 1..Len(queue) /\ Ends(Run(kind))
  BY <1>6, <1>7
<1> QED
  BY <1>8 DEF Ends

LEMMA AfterFirstIs ==
  ASSUME queue \in Seq(AnItem), NEW k \in 1..Len(queue)
  PROVE  /\ AfterFirst(k) \in Seq(AnItem)
         /\ \A T : (Has(AfterFirst(k), T) => Has(queue, T)) /\ (AtMostOne(queue, T) => AtMostOne(AfterFirst(k), T))
         /\ \A key, X : Rising(queue, key, X) => Rising(AfterFirst(k), key, X)
         /\ Len(AfterFirst(k)) = Len(queue) - k
         /\ \A i \in 1..(Len(queue) - k) : AfterFirst(k)[i] = queue[i + k] /\ i + k \in 1..Len(queue)
<1>1. k \in 0..Len(queue) /\ Len(queue) \in Nat
  OBVIOUS
<1>2. /\ AfterFirst(k) \in Seq(AnItem) /\ Len(AfterFirst(k)) = Len(queue) - k
      /\ \A i \in 1..(Len(queue) - k) : AfterFirst(k)[i] = queue[i + k]
      /\ Part(AfterFirst(k), queue, [i \in 1..(Len(queue) - k) |-> i + k])
  BY <1>1, AfterIs DEF AfterFirst
<1>3. \A T : (Has(AfterFirst(k), T) => Has(queue, T)) /\ (AtMostOne(queue, T) => AtMostOne(AfterFirst(k), T))
  BY <1>2, PartHas
<1>4. \A key, X : Rising(queue, key, X) => Rising(AfterFirst(k), key, X)
  BY <1>2, PartRises
<1>5. \A i \in 1..(Len(queue) - k) : i + k \in 1..Len(queue)
  BY <1>1
<1> QED
  BY <1>2, <1>3, <1>4, <1>5

LEMMA TypedHandled ==
  ASSUME Typed, OnceInLine, HandleCommand
  PROVE  Typed'
<1> USE DEF actorVars, agentVars, bounds, history, chatVars
<1> DEFINE c == Head(mailbox)
<1>1. /\ mailbox # <<>> /\ mailbox' = Tail(mailbox)
      /\ UNCHANGED <<posted, written, sending, done, others, touches, crashes, took, told, shown>>
  BY DEF HandleCommand
<1>2. c \in ACommand /\ mailbox' \in Seq(ACommand)
  BY <1>1, TailHas DEF Typed
<1>3. \/ c.cmd = "queue" /\ OnQueue(c.item)
      \/ c.cmd = "steer" /\ OnSteer(c.id)
      \/ c.cmd = "unqueue" /\ OnUnqueue(c.id)
      \/ c.cmd = "steered" /\ OnSteered(c.id, c.outcome)
      \/ c.cmd = "stop" /\ OnStop
  BY DEF HandleCommand
<1> HIDE DEF c
<1>4. Readers' = Readers /\ TypedBounds' /\ written' \in SUBSET Nat /\ IsFiniteSet(written')
  BY <1>1 DEF Readers, Typed, TypedBounds, TypedChat
<1>5. SUFFICES /\ entry' \in [Message -> AnEntry] /\ queue' \in Seq(AnItem) /\ turn' \in ATurn
               /\ inflight' \in [Message -> {"no", "yes", "back"}] /\ held' \in {"none", "ok", "err"} /\ marked' \in BOOLEAN
               /\ offered' \in SUBSET Message /\ awaited' \in SUBSET Message /\ steered' \in SUBSET Message
  BY <1>1, <1>2, <1>4 DEF Typed, TypedChat, TypedActor, TypedAgent, TypedHistory
<1>6. /\ entry \in [Message -> AnEntry] /\ queue \in Seq(AnItem) /\ turn \in ATurn
      /\ inflight \in [Message -> {"no", "yes", "back"}] /\ held \in {"none", "ok", "err"} /\ marked \in BOOLEAN
      /\ offered \in SUBSET Message /\ awaited \in SUBSET Message /\ steered \in SUBSET Message
  BY DEF Typed, TypedChat, TypedActor, TypedAgent, TypedHistory
<1>7. \A k \in Message : AtMostOne(queue, {UserItem(k)})
  BY DEF OnceInLine
<1>8. \A m \in Message : Queued(queue, m) => /\ MoveFirst(queue, m) \in Seq(AnItem)
                                             /\ \A k \in Message : AtMostOne(MoveFirst(queue, m), {UserItem(k)})
  BY <1>6, <1>7, MoveFirstIs
<1>9. \A m \in Message : Queued(queue, m) => Without(queue, m) \in Seq(AnItem)
  BY <1>6, <1>7, WithoutIs
<1>10. Idle \in ATurn
  BY EmptySeq DEF Idle, ATurn
<1>11. \A S, gone : gone \in BOOLEAN => Cancelled(S, gone) \in [Message -> AnEntry]
  BY <1>6, CancelledIs
<1>12. CASE c.cmd = "queue" /\ OnQueue(c.item)
  <2>1. queue' \in Seq(AnItem)
    BY <1>2, <1>6, <1>12, CommandIs, AppendHas DEF OnQueue, Pushed
  <2> QED
    BY <1>6, <1>12, <2>1 DEF OnQueue
<1>13. CASE c.cmd = "steer" /\ OnSteer(c.id)
  <2> DEFINE m == c.id
  <2>1. m \in Message
    BY <1>2, <1>13, CommandIs
  <2> HIDE DEF m
  <2>2. OnSteer(m)
    BY <1>13 DEF m
  <2>3. CASE /\ WithAgent(m) \/ ~Queued(queue, m)
             /\ UNCHANGED <<entry, actorVars, offered, awaited, steered>>
    BY <1>6, <2>3
  <2>4. CASE /\ ~WithAgent(m) /\ Queued(queue, m) /\ Own /\ CanSteer
             /\ inflight' = [inflight EXCEPT ![m] = "yes"]
             /\ offered' = offered \cup {m} /\ awaited' = awaited \cup {m} /\ steered' = steered \cup {m}
             /\ UNCHANGED <<entry, queue, turn, held, marked>>
    BY <1>6, <2>1, <2>4
  <2>5. CASE /\ ~WithAgent(m) /\ Queued(queue, m) /\ ~(Own /\ CanSteer)
             /\ queue' = MoveFirst(queue, m)
             /\ entry' = Renumbered(queue')
             /\ turn' = [turn EXCEPT !.stop = @ \/ Own]
             /\ steered' = steered \cup {m}
             /\ UNCHANGED <<inflight, held, marked, offered, awaited>>
    <3>1. queue' \in Seq(AnItem) /\ \A k \in Message : AtMostOne(queue', {UserItem(k)})
      BY <1>8, <2>1, <2>5
    <3>2. entry' \in [Message -> AnEntry]
      BY <1>6, <2>5, <3>1, RenumberedIs
    <3>3. turn' \in ATurn
      BY <1>6, <2>5 DEF ATurn, Own
    <3> QED
      BY <1>6, <2>1, <2>5, <3>1, <3>2, <3>3
  <2> QED
    BY <2>2, <2>3, <2>4, <2>5 DEF OnSteer
<1>14. CASE c.cmd = "unqueue" /\ OnUnqueue(c.id)
  <2> DEFINE m == c.id
  <2>1. m \in Message
    BY <1>2, <1>14, CommandIs
  <2> HIDE DEF m
  <2>2. OnUnqueue(m)
    BY <1>14 DEF m
  <2>3. UNCHANGED <<turn, held, marked, offered, awaited, steered>>
    BY <2>2 DEF OnUnqueue
  <2>4. CASE WithAgent(m) /\ inflight' = [inflight EXCEPT ![m] = "back"] /\ UNCHANGED <<entry, queue>>
    BY <1>6, <2>1, <2>3, <2>4
  <2>5. CASE ~WithAgent(m) /\ Queued(queue, m) /\ queue' = Without(queue, m) /\ entry' = Cancelled({m}, TRUE) /\ UNCHANGED inflight
    BY <1>6, <1>9, <1>11, <2>1, <2>3, <2>5
  <2>6. CASE ~WithAgent(m) /\ ~Queued(queue, m) /\ UNCHANGED <<entry, queue, inflight>>
    BY <1>6, <2>3, <2>6
  <2> QED
    BY <2>2, <2>4, <2>5, <2>6 DEF OnUnqueue
<1>15. CASE c.cmd = "steered" /\ OnSteered(c.id, c.outcome)
  <2> DEFINE m == c.id
  <2>1. m \in Message
    BY <1>2, <1>15, CommandIs
  <2> HIDE DEF m
  <2>2. OnSteered(m, c.outcome)
    BY <1>15 DEF m
  <2>3. Settled(m, c.outcome) /\ inflight' = [inflight EXCEPT ![m] = "no"] /\ UNCHANGED <<offered, awaited, steered>>
    BY <2>2 DEF OnSteered
  <2>4. entry' \in [Message -> AnEntry] /\ queue' \in Seq(AnItem)
    <3>1. CASE UNCHANGED <<entry, queue>>
      BY <1>6, <3>1
    <3>2. CASE Queued(queue, m) /\ queue' = Without(queue, m) /\ entry' = Joined(m)
      BY <1>6, <1>9, <2>1, <3>2, JoinedIs DEF ATurn
    <3>3. CASE Queued(queue, m) /\ queue' = Without(queue, m) /\ entry' = Cancelled({m}, TRUE)
      BY <1>6, <1>9, <1>11, <2>1, <3>3
    <3>4. CASE Queued(queue, m) /\ queue' = MoveFirst(queue, m) /\ entry' = Renumbered(queue')
      BY <1>6, <1>8, <2>1, <3>4, RenumberedIs
    <3> QED
      BY <2>3, <3>1, <3>2, <3>3, <3>4 DEF Settled
  <2>5. turn' \in ATurn /\ held' \in {"none", "ok", "err"} /\ marked' \in BOOLEAN
    <3>1. CASE EndTurn
      BY <1>10, <3>1 DEF EndTurn
    <3>2. CASE turn' = [turn EXCEPT !.batch = Append(@, m)] /\ UNCHANGED <<held, marked>>
      <4>1. Append(turn.batch, m) \in Seq(Message)
        BY <1>6, <2>1, AppendProperties DEF ATurn
      <4> QED
        BY <1>6, <3>2, <4>1 DEF ATurn
    <3>3. CASE turn' = turn /\ UNCHANGED <<held, marked>>
      BY <1>6, <3>3
    <3> QED
      BY <2>2, <3>1, <3>2, <3>3 DEF OnSteered
  <2> QED
    BY <1>6, <2>1, <2>3, <2>4, <2>5
<1>16. CASE c.cmd = "stop" /\ OnStop
  <2>1. turn' = [turn EXCEPT !.stop = turn.phase # "idle"]
    BY <1>16 DEF OnStop
  <2>2. turn' \in ATurn
    BY <1>6, <2>1 DEF ATurn
  <2>3. <<>> \in Seq(AnItem)
    BY EmptySeq
  <2> QED
    BY <1>6, <1>11, <1>16, <2>2, <2>3 DEF OnStop
<1> QED
  BY <1>3, <1>12, <1>13, <1>14, <1>15, <1>16

\* A turn of the user's takes the first k items.
LEMMA StartIs ==
  ASSUME queue \in Seq(AnItem), entry \in [Message -> AnEntry], StartUserTurn
  PROVE  \E k \in 1..Len(queue) :
           /\ queue' = AfterFirst(k) /\ k \in Nat
           /\ \A i \in 1..k : queue[i].kind = "user"
           /\ turn' = [phase |-> "starting", number |-> entry[queue[k].id].turn, user |-> TRUE,
                       batch |-> [i \in 1..k |-> queue[i].id], stop |-> FALSE]
           /\ [i \in 1..k |-> queue[i].id] \in Seq(Message)
           /\ queue[k].id \in Message
           /\ entry' \in [Message -> AnEntry]
           /\ \A m \in Message : /\ entry'[m].turn = entry[m].turn /\ entry'[m].removed = entry[m].removed
                                 /\ (\E i \in 1..k : queue[i].id = m) => entry'[m].status = "sent"
                                 /\ (\A i \in 1..k : queue[i].id # m) => entry'[m] = entry[m]
           /\ shown' = Higher(entry[queue[k].id].turn)
<1> DEFINE k == Run("user")
           batch == [i \in 1..k |-> queue[i].id]
           number == entry[batch[k]].turn
<1>1. queue # <<>> /\ Head(queue).kind = "user"
  BY DEF StartUserTurn
<1>2. k \in 1..Len(queue) /\ \A i \in 1..k : queue[i].kind = "user"
  BY <1>1, RunIs
<1>3. k \in Nat /\ \A i \in 1..k : i \in 1..Len(queue)
  <2>1. Len(queue) \in Nat
    OBVIOUS
  <2> QED
    BY <1>2, <2>1
<1>4. /\ queue' = AfterFirst(k)
      /\ entry' = [m \in Message |-> IF \E i \in 1..k : batch[i] = m THEN [entry[m] EXCEPT !.status = "sent"] ELSE entry[m]]
      /\ turn' = [phase |-> "starting", number |-> number, user |-> TRUE, batch |-> batch, stop |-> FALSE]
      /\ shown' = Higher(number)
  BY DEF StartUserTurn
<1> HIDE DEF k
<1>5. \A i \in 1..k : queue[i].id \in Message
  BY <1>2, <1>3, UserAt
<1>6. batch \in Seq(Message)
  BY <1>3, <1>5
<1>7. k \in 1..k
  BY <1>2, <1>3
<1>8. number = entry[queue[k].id].turn /\ queue[k].id \in Message
  BY <1>5, <1>7
<1>9. \A i \in 1..k : batch[i] = queue[i].id
  OBVIOUS
<1>10. ASSUME NEW m \in Message
       PROVE  /\ entry'[m] \in AnEntry /\ entry'[m].turn = entry[m].turn /\ entry'[m].removed = entry[m].removed
              /\ (\E i \in 1..k : queue[i].id = m) => entry'[m].status = "sent"
              /\ (\A i \in 1..k : queue[i].id # m) => entry'[m] = entry[m]
  <2> HIDE DEF batch
  <2>1. entry[m] \in AnEntry /\ entry'[m] = IF \E i \in 1..k : queue[i].id = m THEN [entry[m] EXCEPT !.status = "sent"] ELSE entry[m]
    BY <1>4, <1>9
  <2> QED
    BY <2>1 DEF AnEntry
<1>11. entry' \in [Message -> AnEntry]
  BY <1>4, <1>10
<1>12. turn' = [phase |-> "starting", number |-> entry[queue[k].id].turn, user |-> TRUE, batch |-> batch, stop |-> FALSE]
  BY <1>4, <1>8
<1>13. shown' = Higher(entry[queue[k].id].turn)
  BY <1>4, <1>8
<1> HIDE DEF batch, number
<1>14. /\ queue' = AfterFirst(k) /\ k \in Nat
       /\ \A i \in 1..k : queue[i].kind = "user"
       /\ turn' = [phase |-> "starting", number |-> entry[queue[k].id].turn, user |-> TRUE,
                   batch |-> [i \in 1..k |-> queue[i].id], stop |-> FALSE]
       /\ [i \in 1..k |-> queue[i].id] \in Seq(Message)
       /\ queue[k].id \in Message
       /\ entry' \in [Message -> AnEntry]
       /\ shown' = Higher(entry[queue[k].id].turn)
  BY <1>2, <1>3, <1>4, <1>6, <1>8, <1>11, <1>12, <1>13 DEF batch
<1> QED
  BY <1>2, <1>10, <1>14

LEMMA TypedTurns ==
  ASSUME Typed, StartUserTurn \/ StartOtherTurn \/ Prompted \/ StartFails \/ TakeDone
  PROVE  Typed'
<1> USE DEF actorVars, agentVars, bounds, history, chatVars
<1>1. /\ entry \in [Message -> AnEntry] /\ queue \in Seq(AnItem) /\ turn \in ATurn
      /\ inflight \in [Message -> {"no", "yes", "back"}] /\ held \in {"none", "ok", "err"} /\ marked \in BOOLEAN
      /\ shown \in Nat /\ told \in SUBSET Message /\ took \in Seq(ATook) /\ done \in {"none", "ok", "err"}
  BY DEF Typed, TypedChat, TypedActor, TypedAgent, TypedHistory
<1>2. Idle \in ATurn
  BY EmptySeq DEF Idle, ATurn
<1>3. ASSUME StartUserTurn
      PROVE  Typed'
  <2>1. PICK k \in 1..Len(queue) :
           /\ queue' = AfterFirst(k)
           /\ turn' = [phase |-> "starting", number |-> entry[queue[k].id].turn, user |-> TRUE,
                       batch |-> [i \in 1..k |-> queue[i].id], stop |-> FALSE]
           /\ [i \in 1..k |-> queue[i].id] \in Seq(Message)
           /\ queue[k].id \in Message
           /\ entry' \in [Message -> AnEntry]
           /\ shown' = Higher(entry[queue[k].id].turn)
    BY <1>1, <1>3, StartIs
  <2>2. queue' \in Seq(AnItem)
    BY <1>1, <2>1, AfterFirstIs
  <2>3. entry[queue[k].id].turn \in Nat
    BY <1>1, <2>1 DEF AnEntry
  <2>4. turn' \in ATurn
    BY <2>1, <2>3 DEF ATurn
  <2>5. shown' \in Nat
    BY <1>1, <2>1, <2>3 DEF Higher
  <2>6. Readers' = Readers /\ marked' = TRUE
    BY <1>3 DEF StartUserTurn, Readers
  <2> QED
    BY <1>3, <2>1, <2>2, <2>4, <2>5, <2>6 DEF Typed, TypedChat, TypedActor, TypedAgent, TypedHistory, TypedBounds, StartUserTurn
<1>4. ASSUME StartOtherTurn
      PROVE  Typed'
  <2> DEFINE kind == Head(queue).kind
             number == IF kind = "request" THEN Head(queue).id ELSE max_turn + 1
             k == IF kind = "request" THEN 1 ELSE Run("reply")
  <2>1. queue # <<>> /\ kind # "user"
    BY <1>4 DEF StartOtherTurn
  <2>2. Head(queue) \in AnItem
    BY <1>1, <2>1, TailHas
  <2>3. kind \in {"request", "reply"} /\ Head(queue).id \in Nat
    BY <2>1, <2>2 DEF AnItem
  <2>4. number \in Nat
    BY <2>3, MaxTurn DEF Typed, TypedChat
  <2>5. k \in 1..Len(queue)
    <3>1. Len(queue) \in Nat /\ Len(queue) >= 1
      BY <1>1, <2>1, EmptySeq
    <3> QED
      BY <1>1, <2>1, <2>3, <3>1, RunIs
  <2>6. /\ queue' = AfterFirst(k) /\ turn' = [Idle EXCEPT !.phase = "starting", !.number = number]
        /\ marked' = (kind # "request") /\ shown' = Higher(number)
    BY <1>4 DEF StartOtherTurn
  <2> HIDE DEF k, number
  <2>7. queue' \in Seq(AnItem)
    BY <1>1, <2>5, <2>6, AfterFirstIs
  <2>8. turn' \in ATurn
    BY <1>2, <2>4, <2>6 DEF ATurn
  <2>9. shown' \in Nat /\ marked' \in BOOLEAN
    BY <1>1, <2>4, <2>6 DEF Higher
  <2>10. Readers' = Readers
    BY <1>4 DEF StartOtherTurn, Readers
  <2> QED
    BY <1>4, <2>7, <2>8, <2>9, <2>10 DEF Typed, TypedChat, TypedActor, TypedAgent, TypedHistory, TypedBounds, StartOtherTurn
<1>5. ASSUME Prompted
      PROVE  Typed'
  <2> DEFINE new == [i \in 1..Len(turn.batch) |-> [id |-> turn.batch[i], turn |-> turn.number, joined |-> FALSE]]
  <2>1. turn.batch \in Seq(Message) /\ turn.number \in Nat
    BY <1>1 DEF ATurn
  <2>2. new \in Seq(ATook)
    <3>1. \A i \in 1..Len(turn.batch) : [id |-> turn.batch[i], turn |-> turn.number, joined |-> FALSE] \in ATook
      BY <2>1, ElementOfSeq DEF ATook
    <3>2. Len(turn.batch) \in Nat
      BY <2>1
    <3> QED
      BY <3>1, <3>2
  <2>3. took' = took \o new
    BY <1>5 DEF Prompted
  <2> HIDE DEF new
  <2>4. took' \in Seq(ATook)
    BY <1>1, <2>2, <2>3, ConcatProperties
  <2>5. turn' \in ATurn
    BY <1>1, <1>5 DEF Prompted, ATurn
  <2>6. Readers' = Readers
    BY <1>5 DEF Prompted, Readers
  <2> QED
    BY <1>5, <2>4, <2>5, <2>6 DEF Typed, TypedChat, TypedActor, TypedAgent, TypedHistory, TypedBounds, Prompted
<1>6. ASSUME StartFails
      PROVE  Typed'
  <2>1. told' \in SUBSET Message
    <3>1. turn.batch \in Seq(Message)
      BY <1>1 DEF ATurn
    <3>2. \A i \in 1..Len(turn.batch) : turn.batch[i] \in Message
      BY <3>1, ElementOfSeq
    <3> QED
      BY <1>1, <1>6, <3>2 DEF StartFails
  <2>2. Readers' = Readers
    BY <1>6 DEF StartFails, Readers
  <2> QED
    BY <1>2, <1>6, <2>1, <2>2 DEF Typed, TypedChat, TypedActor, TypedAgent, TypedHistory, TypedBounds, StartFails, EndTurn
<1>7. ASSUME TakeDone
      PROVE  Typed'
  <2>1. /\ turn' \in ATurn /\ held' \in {"none", "ok", "err"} /\ marked' \in BOOLEAN
    BY <1>1, <1>2, <1>7 DEF TakeDone, EndTurn
  <2>2. Readers' = Readers
    BY <1>7 DEF TakeDone, Readers
  <2> QED
    BY <1>7, <2>1, <2>2 DEF Typed, TypedChat, TypedActor, TypedAgent, TypedHistory, TypedBounds, TakeDone
<1> QED
  BY <1>3, <1>4, <1>5, <1>6, <1>7

LEMMA TypedAgents ==
  ASSUME Typed, AgentStep \/ KillAgent
  PROVE  Typed'
<1> USE DEF actorVars, agentVars, bounds, history, chatVars
<1>1. \A m \in Message, o \in Outcome : [cmd |-> "steered", id |-> m, outcome |-> o] \in ACommand
  BY DEF ACommand
<1>2. ASSUME NEW m \in Message, NEW o \in Outcome, Answer(m, o)
      PROVE  mailbox' \in Seq(ACommand) /\ awaited' \in SUBSET Message
  BY <1>1, <1>2, Told DEF Answer, Tell, Typed, TypedAgent
<1>3. \A m \in Message : [id |-> m, turn |-> turn.number, joined |-> TRUE] \in ATook
  BY DEF ATook, Typed, TypedActor, ATurn
<1>4. CASE AgentWrites
  <2>1. written' \in SUBSET Nat /\ IsFiniteSet(written')
    BY <1>4, FS_AddElement DEF AgentWrites, Typed, TypedChat, TypedActor, ATurn
  <2>2. Readers' = Readers
    BY <1>4 DEF AgentWrites, Readers
  <2> QED
    BY <1>4, <2>1, <2>2 DEF Typed, TypedChat, TypedActor, TypedAgent, TypedHistory, TypedBounds, AgentWrites
<1>5. SUFFICES ASSUME AgentFrame, mailbox' \in Seq(ACommand), took' \in Seq(ATook), TypedAgent'
               PROVE  Typed'
  <2>1. ASSUME NEW d \in {"ok", "err"}, AgentEnds(d)
        PROVE  AgentFrame /\ mailbox' \in Seq(ACommand) /\ took' \in Seq(ATook) /\ TypedAgent'
    BY <2>1 DEF AgentEnds, Typed, TypedAgent, TypedHistory
  <2>2. ASSUME AgentDies
        PROVE  AgentFrame /\ mailbox' \in Seq(ACommand) /\ took' \in Seq(ATook) /\ TypedAgent'
    BY <2>2 DEF AgentDies, Typed, TypedAgent, TypedHistory
  <2>3. ASSUME NEW m \in Message, AgentTakes(m)
        PROVE  AgentFrame /\ mailbox' \in Seq(ACommand) /\ took' \in Seq(ATook) /\ TypedAgent'
    <3>1. took' \in Seq(ATook)
      BY <1>3, <2>3, AppendProperties DEF AgentTakes, Typed, TypedHistory
    <3>2. mailbox' \in Seq(ACommand) /\ awaited' \in SUBSET Message
      BY <1>2, <2>3 DEF AgentTakes, Outcome
    <3> QED
      BY <2>3, <3>1, <3>2 DEF AgentTakes, Typed, TypedAgent
  <2>4. ASSUME NEW m \in Message, NEW o \in {"next", "failed"}, AgentRefuses(m, o)
        PROVE  AgentFrame /\ mailbox' \in Seq(ACommand) /\ took' \in Seq(ATook) /\ TypedAgent'
    <3>1. mailbox' \in Seq(ACommand) /\ awaited' \in SUBSET Message
      BY <1>2, <2>4 DEF AgentRefuses, Outcome
    <3> QED
      BY <2>4, <3>1 DEF AgentRefuses, Typed, TypedAgent, TypedHistory
  <2>5. ASSUME NEW m \in Message, SteerLost(m)
        PROVE  AgentFrame /\ mailbox' \in Seq(ACommand) /\ took' \in Seq(ATook) /\ TypedAgent'
    <3>1. mailbox' \in Seq(ACommand) /\ awaited' \in SUBSET Message
      BY <1>2, <2>5 DEF SteerLost, Outcome
    <3> QED
      BY <2>5, <3>1 DEF SteerLost, Typed, TypedAgent, TypedHistory
  <2>6. ASSUME NEW m \in Message, AnswerFails(m)
        PROVE  AgentFrame /\ mailbox' \in Seq(ACommand) /\ took' \in Seq(ATook) /\ TypedAgent'
    <3>1. mailbox' \in Seq(ACommand) /\ awaited' \in SUBSET Message
      BY <1>2, <2>6 DEF AnswerFails, Outcome
    <3> QED
      BY <2>6, <3>1 DEF AnswerFails, Typed, TypedAgent, TypedHistory
  <2> QED
    BY <1>4, <1>5, <2>1, <2>2, <2>3, <2>4, <2>5, <2>6 DEF AgentStep, KillAgent
<1>6. Readers' = Readers
  BY <1>5 DEF AgentFrame, Readers
<1> QED
  BY <1>5, <1>6 DEF AgentFrame, Typed, TypedChat, TypedActor, TypedAgent, TypedHistory, TypedBounds

LEMMA TypedRestart ==
  ASSUME Typed, NEW resume \in BOOLEAN, Restart(resume)
  PROVE  Typed'
<1>1. Idle \in ATurn /\ NotPosting \in [step : {"none", "read", "saved"}, n : Nat] /\ NotPosting.step = "none" /\ NotPosting.n = 0
  BY EmptySeq DEF Idle, ATurn, NotPosting
<1>2. max_turn \in Nat
  BY MaxTurn DEF Typed, TypedChat
<1>3. entry' \in [Message -> AnEntry]
  BY RestartedIs DEF Restart, Typed, TypedChat
<1>4. sending' = [s \in Sender |-> NotPosting]
  BY DEF Restart
<1>5. Readers' = {}
  BY <1>1, <1>4 DEF Readers
<1>6. IsFiniteSet(Readers') /\ Cardinality(Readers') = 0 /\ Cardinality(Readers) \in Nat
  BY <1>5, FS_EmptySet, FS_CardinalityType DEF Typed, TypedChat
<1>7. TypedChat'
  BY <1>1, <1>3, <1>4, <1>6, ConversationAssumption DEF Restart, Typed, TypedChat
<1>8. marked' \in BOOLEAN /\ turn' \in ATurn /\ shown' \in Nat
  <2>1. marked \in BOOLEAN /\ shown \in Nat
    BY DEF Typed, TypedActor, TypedHistory
  <2>2. [Idle EXCEPT !.phase = "starting", !.number = max_turn, !.user = TRUE] \in ATurn
    BY <1>1, <1>2 DEF ATurn
  <2> QED
    BY <1>1, <1>2, <2>1, <2>2 DEF Restart, Higher
<1>9. mailbox' \in Seq(ACommand) /\ queue' \in Seq(AnItem)
  BY EmptySeq DEF Restart
<1>10. inflight' \in [Message -> {"no", "yes", "back"}] /\ TypedAgent' /\ held' \in {"none", "ok", "err"}
  BY DEF Restart, TypedAgent
<1>11. TypedBounds'
  BY ConversationAssumption DEF Restart, Typed, TypedBounds
<1> QED
  BY <1>7, <1>8, <1>9, <1>10, <1>11 DEF Restart, Typed, TypedActor, TypedHistory

LEMMA TypedStep == Typed /\ OnceInLine /\ [Next]_vars => Typed'
<1>1. ASSUME Typed, UNCHANGED vars
      PROVE  Typed'
  <2>1. Readers' = Readers
    BY <1>1 DEF vars, Readers
  <2> QED
    BY <1>1, <2>1 DEF vars, Typed, TypedChat, TypedActor, TypedAgent, TypedHistory, TypedBounds
<1> QED
  BY <1>1, TypedClients, TypedHandled, TypedTurns, TypedAgents, TypedRestart DEF Next

-----------------------------------------------------------------------------
(* What a step makes of the messages on their way. *)

MailSame == mailbox' = mailbox \/ \E c \in ACommand : mailbox' = Append(mailbox, c) /\ ~IsPost(c)

\* Nothing; the actor handles its first command; a turn takes the first k items; a restart.
Kept ==
  /\ queue' = queue /\ entry' = entry /\ posted' = posted /\ MailSame
  /\ \A s \in Sender : sending'[s] = sending[s] \/ (sending'[s].step # "saved" /\ sending[s].step # "saved")
Queues == Head(mailbox).cmd = "queue" /\ queue' = Append(queue, Head(mailbox).item) /\ entry' = entry
Moved(m) == Queued(queue, m) /\ queue' = MoveFirst(queue, m) /\ entry' = Renumbered(queue') /\ m \in steered'
Dropped(m) == /\ Queued(queue, m) /\ queue' = Without(queue, m)
              /\ entry' = Cancelled({m}, TRUE) \/ (entry' = Joined(m) /\ InFlight(m))
Stopped == /\ queue' = <<>> /\ entry' = Cancelled(WaitingIn(queue), FALSE)
           /\ turn' = [turn EXCEPT !.stop = turn.phase # "idle"]
Handles ==
  /\ mailbox # <<>> /\ mailbox' = Tail(mailbox) /\ sending' = sending /\ posted' = posted
  /\ \/ Queues
     \/ Head(mailbox).cmd # "queue" /\ (UNCHANGED <<queue, entry>> \/ Stopped \/ \E m \in Message : Moved(m) \/ Dropped(m))
Starts(k) ==
  /\ turn.phase = "idle" /\ queue' = AfterFirst(k) /\ UNCHANGED <<mailbox, sending, posted>>
  /\ \A m \in Message : (\A i \in 1..k : queue[i] # UserItem(m)) => entry'[m] = entry[m]
Emptied ==
  /\ queue' = <<>> /\ mailbox' = <<>> /\ posted' = posted /\ entry' = Restarted
  /\ \A s \in Sender : sending'[s].step = "none"

\* What is with the agent, or was meanwhile taken back, was steered.
SteeredKnown == offered \subseteq steered /\ \A m \in Message : InFlight(m) => m \in steered

LineGoes ==
  \/ Kept
  \/ \E s \in Sender : PostSaves(s) \/ Send(s)
  \/ Handles
  \/ \E k \in 1..Len(queue) : Starts(k)
  \/ Emptied

LEMMA NotPost ==
  /\ \A m \in Message, o \in Outcome : /\ [cmd |-> "steered", id |-> m, outcome |-> o] \in ACommand
                                       /\ ~IsPost([cmd |-> "steered", id |-> m, outcome |-> o])
  /\ \A m \in Message, cmd \in {"steer", "unqueue"} : /\ [cmd |-> cmd, id |-> m] \in ACommand
                                                      /\ ~IsPost([cmd |-> cmd, id |-> m])
  /\ [cmd |-> "stop"] \in ACommand /\ ~IsPost([cmd |-> "stop"])
  /\ \A item \in AnItem : item.kind # "user" => /\ [cmd |-> "queue", item |-> item] \in ACommand
                                                /\ ~IsPost([cmd |-> "queue", item |-> item])
  BY DEF ACommand, IsPost

LEMMA AgentKeeps ==
  ASSUME AgentStep \/ KillAgent
  PROVE  Kept
<1>1. ASSUME NEW m \in Message, NEW o \in Outcome, Answer(m, o)
      PROVE  MailSame
  BY <1>1, NotPost DEF Answer, Tell, MailSame
<1>2. CASE AgentWrites
  BY <1>2 DEF AgentWrites, Kept, MailSame, actorVars
<1>3. ASSUME AgentFrame, MailSame
      PROVE  Kept
  BY <1>3 DEF AgentFrame, chatVars, actorVars, Kept
<1>4. CASE AgentEnds("ok") \/ AgentEnds("err")
  BY <1>3, <1>4 DEF AgentEnds, MailSame
<1>5. CASE AgentDies
  BY <1>3, <1>5 DEF AgentDies, MailSame
<1>6. ASSUME NEW m \in Message, AgentTakes(m)
      PROVE  Kept
  BY <1>1, <1>3, <1>6 DEF AgentTakes, Outcome
<1>7. ASSUME NEW m \in Message, AgentRefuses(m, "next") \/ AgentRefuses(m, "failed")
      PROVE  Kept
  BY <1>1, <1>3, <1>7 DEF AgentRefuses, Outcome
<1>8. ASSUME NEW m \in Message, SteerLost(m) \/ AnswerFails(m)
      PROVE  Kept
  BY <1>1, <1>3, <1>8 DEF SteerLost, AnswerFails, Outcome
<1> QED
  BY <1>2, <1>4, <1>5, <1>6, <1>7, <1>8 DEF AgentStep, KillAgent

LEMMA HandlesLine ==
  ASSUME Typed, SteeredKnown, HandleCommand
  PROVE  Handles
<1> DEFINE c == Head(mailbox)
<1>1. mailbox # <<>> /\ mailbox' = Tail(mailbox) /\ sending' = sending /\ posted' = posted
  BY DEF HandleCommand
<1>2. \/ c.cmd = "queue" /\ OnQueue(c.item)
      \/ c.cmd = "steer" /\ OnSteer(c.id)
      \/ c.cmd = "unqueue" /\ OnUnqueue(c.id)
      \/ c.cmd = "steered" /\ OnSteered(c.id, c.outcome)
      \/ c.cmd = "stop" /\ OnStop
  BY DEF HandleCommand
<1>3. c \in ACommand
  BY <1>1, TailHas DEF Typed
<1>4. \A m \in Message : inflight[m] # "no" <=> InFlight(m)
  BY DEF InFlight
<1>5. c.cmd \in {"steer", "unqueue", "steered"} => c.id \in Message
  BY <1>3, CommandIs
<1> HIDE DEF c
<1>6. CASE c.cmd = "queue" /\ OnQueue(c.item)
  BY <1>1, <1>6 DEF OnQueue, Pushed, Handles, Queues, c
<1>7. CASE c.cmd = "steer" /\ OnSteer(c.id)
  <2>1. \/ UNCHANGED <<queue, entry>>
        \/ Moved(c.id)
    BY <1>7 DEF OnSteer, Moved, actorVars
  <2> QED
    BY <1>1, <1>5, <1>7, <2>1 DEF Handles, c
<1>8. CASE c.cmd = "unqueue" /\ OnUnqueue(c.id)
  <2>1. UNCHANGED <<queue, entry>> \/ Dropped(c.id)
    BY <1>8 DEF OnUnqueue, Dropped
  <2> QED
    BY <1>1, <1>5, <1>8, <2>1 DEF Handles, c
<1>9. CASE c.cmd = "stop" /\ OnStop
  BY <1>1, <1>9 DEF OnStop, Handles, Stopped, c
<1>10. CASE c.cmd = "steered" /\ OnSteered(c.id, c.outcome)
  <2> DEFINE m == c.id
  <2>1. m \in Message /\ Settled(m, c.outcome) /\ steered' = steered
    BY <1>5, <1>10 DEF OnSteered
  <2> HIDE DEF m
  <2>2. InFlight(m) => m \in steered'
    BY <2>1 DEF SteeredKnown
  <2>3. UNCHANGED <<queue, entry>> \/ Moved(m) \/ Dropped(m)
    BY <1>4, <2>1, <2>2 DEF Settled, Moved, Dropped
  <2> QED
    BY <1>1, <1>10, <2>1, <2>3 DEF Handles, c
<1> QED
  BY <1>2, <1>6, <1>7, <1>8, <1>9, <1>10

LEMMA LineSteps ==
  ASSUME Typed, SteeredKnown, [Next]_vars
  PROVE  LineGoes
<1> USE DEF chatVars, actorVars
<1>1. \A s \in Sender : sending[s].step = "read" \/ sending[s] = NotPosting => sending[s].step # "saved"
  BY DEF NotPosting
<1>2. ASSUME NEW s \in Sender, PostReads(s)
      PROVE  Kept
  <2>1. sending \in [Sender -> [step : {"none", "read", "saved"}, n : Nat]]
    BY DEF Typed, TypedChat
  <2> QED
    BY <1>1, <1>2, <2>1 DEF PostReads, Kept, MailSame
<1>3. ASSUME NEW kind \in Other, OtherArrives(kind)
      PROVE  Kept
  <2> DEFINE item == [kind |-> kind, id |-> IF kind = "request" THEN max_turn + 1 ELSE 0]
  <2>1. item \in AnItem /\ item.kind # "user"
    <3>1. max_turn + 1 \in Nat
      BY MaxTurn DEF Typed, TypedChat
    <3> QED
      BY <3>1, ConversationAssumption DEF AnItem
  <2>2. mailbox' = Append(mailbox, [cmd |-> "queue", item |-> item])
    BY <1>3 DEF OtherArrives, Tell
  <2> HIDE DEF item
  <2>3. MailSame
    BY <2>1, <2>2, NotPost DEF MailSame
  <2> QED
    BY <1>3, <2>3 DEF OtherArrives, Kept
<1>4. ASSUME NEW m \in Message, Touch("steer", m) \/ Touch("unqueue", m)
      PROVE  Kept
  BY <1>4, NotPost DEF Touch, Tell, Kept, MailSame
<1>5. ASSUME Stop
      PROVE  Kept
  BY <1>5, NotPost DEF Stop, Tell, Kept, MailSame
<1>6. ASSUME StartUserTurn
      PROVE  \E k \in 1..Len(queue) : Starts(k)
  <2>1. PICK k \in 1..Len(queue) :
           /\ queue' = AfterFirst(k) /\ \A i \in 1..k : queue[i].kind = "user"
           /\ \A m \in Message : (\A i \in 1..k : queue[i].id # m) => entry'[m] = entry[m]
    BY <1>6, StartIs DEF Typed, TypedChat, TypedActor
  <2>2. ASSUME NEW m \in Message, \A i \in 1..k : queue[i] # UserItem(m)
        PROVE  entry'[m] = entry[m]
    <3>1. \A i \in 1..k : i \in 1..Len(queue)
      <4>1. Len(queue) \in Nat
        BY DEF Typed, TypedActor
      <4> QED
        BY <4>1
    <3>2. \A i \in 1..k : queue[i] = UserItem(queue[i].id)
      BY <2>1, <3>1, UserAt DEF Typed, TypedActor
    <3>3. \A i \in 1..k : queue[i].id # m
      BY <2>2, <3>2
    <3> QED
      BY <2>1, <3>3
  <2> QED
    BY <1>6, <2>1, <2>2 DEF StartUserTurn, Starts
<1>7. ASSUME StartOtherTurn
      PROVE  \E k \in 1..Len(queue) : Starts(k)
  <2> DEFINE k == IF Head(queue).kind = "request" THEN 1 ELSE Run("reply")
  <2>1. queue # <<>> /\ Head(queue).kind # "user" /\ queue \in Seq(AnItem)
    BY <1>7 DEF StartOtherTurn, Typed, TypedActor
  <2>2. Head(queue) \in AnItem /\ Len(queue) \in Nat /\ Len(queue) >= 1
    BY <2>1, TailHas, EmptySeq
  <2>3. Head(queue).kind \in {"request", "reply"}
    BY <2>1, <2>2 DEF AnItem
  <2>4. k \in 1..Len(queue)
    BY <2>1, <2>2, <2>3, RunIs
  <2>5. queue' = AfterFirst(k)
    BY <1>7 DEF StartOtherTurn
  <2> HIDE DEF k
  <2> QED
    BY <1>7, <2>4, <2>5 DEF StartOtherTurn, Starts
<1>8. CASE Prompted \/ StartFails \/ TakeDone
  BY <1>8 DEF Prompted, StartFails, TakeDone, Kept, MailSame, LineGoes
<1>9. ASSUME NEW resume \in BOOLEAN, Restart(resume)
      PROVE  Emptied
  BY <1>9 DEF Restart, Emptied, NotPosting
<1>10. CASE UNCHANGED vars
  BY <1>10 DEF vars, Kept, MailSame, LineGoes
<1>11. CASE AgentStep \/ KillAgent
  BY <1>11, AgentKeeps DEF LineGoes
<1>12. CASE HandleCommand
  BY <1>12, HandlesLine DEF LineGoes
<1>13. CASE \E s \in Sender : PostSaves(s) \/ Send(s)
  BY <1>13 DEF LineGoes
<1> QED
  BY <1>2, <1>3, <1>4, <1>5, <1>6, <1>7, <1>8, <1>9, <1>10, <1>11, <1>12, <1>13 DEF Next, LineGoes

LEMMA NoneWait == WaitingIn(<<>>) = {} /\ MailedIn(<<>>) = {}
<1>1. \A T : ~Has(<<>>, T)
  BY EmptyHas
<1> QED
  BY <1>1, WaitingHas DEF MailedIn

LEMMA KeptSets ==
  ASSUME Typed, OnceInLine, Kept
  PROVE  /\ WaitingIn(queue') = WaitingIn(queue) /\ MailedIn(mailbox') = MailedIn(mailbox) /\ Saved' = Saved
         /\ \A m \in Message : AtMostOne(mailbox', {UserCmd(m)})
<1>1. MailedIn(mailbox') = MailedIn(mailbox) /\ \A m \in Message : AtMostOne(mailbox', {UserCmd(m)})
  <2>1. CASE mailbox' = mailbox
    BY <2>1 DEF OnceInLine
  <2>2. ASSUME NEW c \in ACommand, mailbox' = Append(mailbox, c), ~IsPost(c)
        PROVE  MailedIn(mailbox') = MailedIn(mailbox) /\ \A m \in Message : AtMostOne(mailbox', {UserCmd(m)})
    <3>1. \A m \in Message : c # UserCmd(m)
      BY <2>2, CommandIs
    <3> QED
      BY <2>2, <3>1, MailAppend DEF Typed, OnceInLine
  <2> QED
    BY <2>1, <2>2 DEF Kept, MailSame
<1> QED
  BY <1>1 DEF Kept, Saved

LEMMA SavesSets ==
  ASSUME Typed, OnceInLine, NEW s \in Sender, PostSaves(s)
  PROVE  /\ WaitingIn(queue') = WaitingIn(queue) /\ MailedIn(mailbox') = MailedIn(mailbox)
         /\ Saved' = Saved \cup {posted + 1} /\ posted + 1 \in Message /\ posted + 1 \notin Line
         /\ entry'[posted + 1] = [status |-> "queued", turn |-> sending[s].n, removed |-> FALSE]
         /\ \A m \in Message \ {posted + 1} : entry'[m] = entry[m]
<1>1. /\ sending \in [Sender -> [step : {"none", "read", "saved"}, n : Nat]] /\ sending[s].step = "read"
      /\ sending' = [sending EXCEPT ![s] = [step |-> "saved", n |-> posted + 1]] /\ posted \in Nat
      /\ UNCHANGED <<queue, mailbox>>
  BY DEF PostSaves, Typed, TypedChat, actorVars
<1>2. posted + 1 \in Message
  <2>1. s \in Readers /\ IsFiniteSet(Readers) /\ posted + Cardinality(Readers) <= MaxMessages
    BY <1>1 DEF Readers, Typed, TypedChat
  <2>2. Cardinality(Readers) \in Nat /\ Cardinality(Readers) # 0
    BY <2>1, FS_CardinalityType, FS_EmptySet
  <2> QED
    BY <1>1, <2>1, <2>2, ConversationAssumption DEF Message
<1>3. Saved' = Saved \cup {posted + 1}
  BY <1>1, <1>2 DEF Saved
<1>4. posted + 1 \notin Line
  BY <1>1, <1>2 DEF OnceInLine
<1> QED
  BY <1>1, <1>2, <1>3, <1>4 DEF PostSaves, Typed, TypedChat

LEMMA SendSets ==
  ASSUME Typed, OnceInLine, NEW s \in Sender, Send(s)
  PROVE  /\ sending[s].n \in Saved /\ sending[s].n \in Message
         /\ WaitingIn(queue') = WaitingIn(queue) /\ MailedIn(mailbox') = MailedIn(mailbox) \cup {sending[s].n}
         /\ Saved' = Saved \ {sending[s].n} /\ entry' = entry /\ posted' = posted
         /\ mailbox' = Append(mailbox, UserCmd(sending[s].n))
         /\ \A m \in Message : AtMostOne(mailbox', {UserCmd(m)})
<1> DEFINE m == sending[s].n
<1>1. /\ sending \in [Sender -> [step : {"none", "read", "saved"}, n : Nat]] /\ sending[s].step = "saved"
      /\ sending' = [sending EXCEPT ![s] = NotPosting] /\ NotPosting.step = "none" /\ UNCHANGED <<queue, entry, posted>>
      /\ mailbox' = Append(mailbox, UserCmd(m)) /\ mailbox \in Seq(ACommand)
  BY DEF Send, Typed, TypedChat, actorVars, NotPosting, Tell, UserCmd
<1>2. m \in Message /\ m \in Saved
  BY <1>1 DEF Typed, TypedChat, Saved
<1>3. Saved' = Saved \ {m}
  BY <1>1, <1>2 DEF Saved, OnceInLine
<1>4. m \notin MailedIn(mailbox)
  BY <1>2 DEF OnceInLine
<1>5. UserCmd(m) \in ACommand /\ \A k \in Message : UserCmd(m) = UserCmd(k) => k = m
  BY <1>2, PostOf DEF UserCmd, UserItem
<1> HIDE DEF m
<1>6. MailedIn(mailbox') = MailedIn(mailbox) \cup {m}
  BY <1>1, <1>2, <1>5, MailAppend
<1>7. \A k \in Message : AtMostOne(mailbox', {UserCmd(k)})
  BY <1>1, <1>4, <1>5, MailAppend DEF OnceInLine
<1> QED
  BY <1>1, <1>2, <1>3, <1>6, <1>7 DEF m

LEMMA HandlesSets ==
  ASSUME Typed, OnceInLine, Handles
  PROVE  /\ Saved' = Saved /\ posted' = posted
         /\ \A m \in Message : AtMostOne(mailbox', {UserCmd(m)}) /\ AtMostOne(queue', {UserItem(m)})
         /\ \/ /\ Queues /\ ~IsPost(Head(mailbox)) /\ Head(mailbox).item \in AnItem
               /\ WaitingIn(queue') = WaitingIn(queue) /\ MailedIn(mailbox') = MailedIn(mailbox)
            \/ \E m \in MailedIn(mailbox) :
                 /\ Queues /\ Head(mailbox) = UserCmd(m) /\ WaitingIn(queue') = WaitingIn(queue) \cup {m}
                 /\ MailedIn(mailbox') = MailedIn(mailbox) \ {m}
            \/ /\ UNCHANGED <<queue, entry>> \/ \E m \in Message : Moved(m)
               /\ WaitingIn(queue') = WaitingIn(queue) /\ MailedIn(mailbox') = MailedIn(mailbox)
            \/ \E m \in WaitingIn(queue) : /\ Dropped(m) /\ WaitingIn(queue') = WaitingIn(queue) \ {m}
                                           /\ MailedIn(mailbox') = MailedIn(mailbox)
            \/ Stopped /\ WaitingIn(queue') = {} /\ MailedIn(mailbox') = MailedIn(mailbox)
<1> DEFINE c == Head(mailbox)
<1>1. mailbox # <<>> /\ mailbox' = Tail(mailbox) /\ sending' = sending /\ posted' = posted
  BY DEF Handles
<1>2. /\ c \in ACommand /\ \A m \in Message : AtMostOne(mailbox', {UserCmd(m)})
      /\ ~IsPost(c) => MailedIn(mailbox') = MailedIn(mailbox)
      /\ \A m \in Message : c = UserCmd(m) => m \in MailedIn(mailbox) /\ MailedIn(mailbox') = MailedIn(mailbox) \ {m}
  BY <1>1, MailTail DEF Typed, OnceInLine
<1>3. Saved' = Saved
  BY <1>1 DEF Saved
<1>4. queue \in Seq(AnItem) /\ \A m \in Message : AtMostOne(queue, {UserItem(m)})
  BY DEF Typed, TypedActor, OnceInLine
<1>5. /\ IsPost(c) => c = UserCmd(c.item.id) /\ c.item.id \in Message /\ c.item = UserItem(c.item.id)
      /\ \A m \in Message : c = UserCmd(m) => IsPost(c) /\ c.item = UserItem(m)
      /\ c.cmd = "queue" => c.item \in AnItem
  BY <1>2, CommandIs
<1>6. c.cmd # "queue" => ~IsPost(c)
  BY DEF IsPost
<1>7. \A m, k \in Message : UserItem(m) = UserItem(k) => m = k
  BY DEF UserItem
<1> HIDE DEF c
<1>8. CASE c.cmd = "queue" /\ queue' = Append(queue, c.item) /\ entry' = entry
  <2>1. WaitingIn(queue') = WaitingIn(queue) \cup {m \in Message : c.item = UserItem(m)}
    BY <1>4, <1>5, <1>8, WaitingAppend
  <2>2. ASSUME NEW m \in Message, ~(Has(queue, {UserItem(m)}) /\ c.item = UserItem(m))
        PROVE  AtMostOne(queue', {UserItem(m)})
    <3>1. ~(Has(queue, {UserItem(m)}) /\ c.item \in {UserItem(m)})
      BY <2>2
    <3> QED
      BY <1>4, <1>5, <1>8, <3>1, AppendHas
  <2>3. CASE ~IsPost(c)
    <3>1. \A m \in Message : c.item # UserItem(m)
      BY <1>8, <2>3, ItemOf DEF IsPost
    <3>2. WaitingIn(queue') = WaitingIn(queue)
      BY <2>1, <3>1
    <3> QED
      BY <1>1, <1>2, <1>3, <1>5, <1>8, <2>2, <2>3, <3>1, <3>2 DEF Queues, c
  <2>4. CASE IsPost(c)
    <3> DEFINE m == c.item.id
    <3>1. c = UserCmd(m) /\ m \in Message /\ c.item = UserItem(m)
      BY <1>5, <2>4
    <3> HIDE DEF m
    <3>2. m \in MailedIn(mailbox) /\ MailedIn(mailbox') = MailedIn(mailbox) \ {m}
      BY <1>2, <3>1
    <3>3. WaitingIn(queue') = WaitingIn(queue) \cup {m}
      BY <1>7, <2>1, <3>1
    <3>4. ~Has(queue, {UserItem(m)})
      BY <3>1, <3>2, WaitingHas DEF OnceInLine
    <3>5. \A k \in Message : AtMostOne(queue', {UserItem(k)})
      BY <1>7, <2>2, <3>1, <3>4
    <3> QED
      BY <1>1, <1>2, <1>3, <1>8, <3>1, <3>2, <3>3, <3>5 DEF Queues, c
  <2> QED
    BY <2>3, <2>4
<1>9. CASE c.cmd # "queue" /\ UNCHANGED <<queue, entry>>
  BY <1>1, <1>2, <1>3, <1>4, <1>6, <1>9
<1>10. ASSUME c.cmd # "queue", NEW m \in Message, Moved(m)
       PROVE  /\ WaitingIn(queue') = WaitingIn(queue) /\ MailedIn(mailbox') = MailedIn(mailbox)
              /\ \A k \in Message : AtMostOne(queue', {UserItem(k)})
  BY <1>2, <1>4, <1>6, <1>10, MoveFirstIs DEF Moved
<1>11. ASSUME c.cmd # "queue", NEW m \in Message, Dropped(m)
       PROVE  /\ m \in WaitingIn(queue) /\ WaitingIn(queue') = WaitingIn(queue) \ {m} /\ MailedIn(mailbox') = MailedIn(mailbox)
              /\ \A k \in Message : AtMostOne(queue', {UserItem(k)})
  BY <1>2, <1>4, <1>6, <1>11, WithoutIs DEF Dropped, WaitingIn
<1>12. CASE c.cmd # "queue" /\ Stopped
  BY <1>1, <1>2, <1>3, <1>6, <1>12, NoneWait, EmptyHas DEF Stopped
<1> QED
  BY <1>1, <1>2, <1>3, <1>8, <1>9, <1>10, <1>11, <1>12 DEF Handles, Queues, c

LEMMA StartsSets ==
  ASSUME Typed, OnceInLine, NEW k \in 1..Len(queue), Starts(k)
  PROVE  /\ WaitingIn(queue') \subseteq WaitingIn(queue) /\ MailedIn(mailbox') = MailedIn(mailbox) /\ Saved' = Saved
         /\ \A m \in Message : AtMostOne(queue', {UserItem(m)}) /\ AtMostOne(mailbox', {UserCmd(m)})
         /\ posted' = posted
         /\ \A m \in Message, i \in 1..k : queue[i] = UserItem(m) => m \notin WaitingIn(queue') /\ m \in WaitingIn(queue)
         /\ \A m \in Message : (\A i \in 1..k : queue[i] # UserItem(m)) => entry'[m] = entry[m]
<1>1. queue \in Seq(AnItem) /\ queue' = AfterFirst(k) /\ UNCHANGED <<mailbox, sending, posted>> /\ Len(queue) \in Nat
  BY DEF Starts, Typed, TypedActor
<1>2. /\ queue' \in Seq(AnItem)
      /\ \A T : (Has(queue', T) => Has(queue, T)) /\ (AtMostOne(queue, T) => AtMostOne(queue', T))
      /\ Len(queue') = Len(queue) - k
      /\ \A i \in 1..(Len(queue) - k) : queue'[i] = queue[i + k] /\ i + k \in 1..Len(queue)
  BY <1>1, AfterFirstIs
<1>3. ASSUME NEW m \in Message, NEW i \in 1..k, queue[i] = UserItem(m)
      PROVE  m \notin WaitingIn(queue') /\ m \in WaitingIn(queue)
  <2>1. i \in 1..Len(queue)
    BY <1>1
  <2>2. m \in WaitingIn(queue)
    BY <1>3, <2>1 DEF WaitingIn, Queued, ItemsOf
  <2>3. ASSUME Has(queue', {UserItem(m)})
        PROVE  FALSE
    <3>1. PICK j \in 1..Len(queue') : queue'[j] = UserItem(m)
      BY <2>3 DEF Has
    <3>2. queue[j + k] = UserItem(m) /\ j + k \in 1..Len(queue) /\ j + k # i
      BY <1>1, <1>2, <3>1
    <3> QED
      BY <1>3, <2>1, <3>2 DEF OnceInLine, AtMostOne
  <2> QED
    BY <2>2, <2>3, WaitingHas
<1>4. WaitingIn(queue') \subseteq WaitingIn(queue)
  BY <1>2, WaitingHas
<1>5. \A m \in Message : AtMostOne(queue', {UserItem(m)}) /\ AtMostOne(mailbox', {UserCmd(m)})
  BY <1>1, <1>2 DEF OnceInLine
<1>6. Saved' = Saved
  BY <1>1 DEF Saved
<1> QED
  BY <1>1, <1>3, <1>4, <1>5, <1>6 DEF Starts

LEMMA EmptiedSets ==
  ASSUME Emptied
  PROVE  Line' = {} /\ WaitingIn(queue') = {} /\ MailedIn(mailbox') = {} /\ Saved' = {}
<1>1. WaitingIn(queue') = {} /\ MailedIn(mailbox') = {}
  BY NoneWait DEF Emptied
<1>2. Saved' = {}
  BY DEF Emptied, Saved
<1> QED
  BY <1>1, <1>2 DEF Line

LEMMA MovedIs ==
  ASSUME Typed, OnceInLine, NEW m \in Message, Moved(m)
  PROVE  /\ queue' \in Seq(AnItem) /\ WaitingIn(queue') = WaitingIn(queue) /\ m \in WaitingIn(queue)
         /\ \A k \in Message : AtMostOne(queue', {UserItem(k)})
         /\ entry' = Renumbered(queue') /\ entry' \in [Message -> AnEntry]
         /\ \A k \in Message : entry'[k].status = entry[k].status /\ entry'[k].removed = entry[k].removed
         /\ \A k \in Message : k \notin WaitingIn(queue) => entry'[k] = entry[k]
         /\ \A k \in WaitingIn(queue) : \E l \in WaitingIn(queue) : entry'[k].turn = entry[l].turn
<1>1. queue \in Seq(AnItem) /\ entry \in [Message -> AnEntry] /\ \A k \in Message : AtMostOne(queue, {UserItem(k)})
  BY DEF Typed, TypedActor, TypedChat, OnceInLine
<1>2. Queued(queue, m) /\ queue' = MoveFirst(queue, m) /\ entry' = Renumbered(queue')
  BY DEF Moved
<1>3. /\ queue' \in Seq(AnItem) /\ WaitingIn(queue') = WaitingIn(queue)
      /\ \A k \in Message : AtMostOne(queue', {UserItem(k)})
  BY <1>1, <1>2, MoveFirstIs
<1>4. /\ Renumbered(queue') \in [Message -> AnEntry]
      /\ \A k \in Message : /\ Renumbered(queue')[k].status = entry[k].status
                            /\ Renumbered(queue')[k].removed = entry[k].removed
      /\ \A k \in Message : k \notin WaitingIn(queue') => Renumbered(queue')[k] = entry[k]
      /\ \A k \in WaitingIn(queue') : \E l \in WaitingIn(queue') : Renumbered(queue')[k].turn = entry[l].turn
  BY <1>1, <1>3, RenumberedIs
<1>5. m \in WaitingIn(queue)
  BY <1>2 DEF WaitingIn
<1>6. /\ entry' \in [Message -> AnEntry]
      /\ \A k \in Message : entry'[k].status = entry[k].status /\ entry'[k].removed = entry[k].removed
  BY <1>2, <1>4
<1>7. /\ \A k \in Message : k \notin WaitingIn(queue) => entry'[k] = entry[k]
      /\ \A k \in WaitingIn(queue) : \E l \in WaitingIn(queue) : entry'[k].turn = entry[l].turn
  BY <1>2, <1>3, <1>4
<1> QED
  BY <1>2, <1>3, <1>5, <1>6, <1>7

LEMMA DroppedIs ==
  ASSUME Typed, NEW m \in Message, Dropped(m)
  PROVE  /\ entry' \in [Message -> AnEntry] /\ \A k \in Message : k # m => entry'[k] = entry[k]
<1>1. entry \in [Message -> AnEntry] /\ turn.number \in Nat
  BY DEF Typed, TypedActor, TypedChat, ATurn
<1>2. CASE entry' = Cancelled({m}, TRUE)
  <2>1. /\ Cancelled({m}, TRUE) \in [Message -> AnEntry]
        /\ \A k \in Message : k \notin {m} => Cancelled({m}, TRUE)[k] = entry[k]
    BY <1>1, CancelledIs
  <2> QED
    BY <1>2, <2>1
<1>3. CASE entry' = Joined(m)
  BY <1>1, <1>3, JoinedIs
<1> QED
  BY <1>2, <1>3 DEF Dropped

LEMMA OnceStep ==
  ASSUME Typed, SteeredKnown, OnceInLine, [Next]_vars
  PROVE  OnceInLine'
<1> DEFINE W == WaitingIn(queue)
           M == MailedIn(mailbox)
           Fine ==
             /\ \A m \in Message : AtMostOne(queue', {UserItem(m)}) /\ AtMostOne(mailbox', {UserCmd(m)})
             /\ \A s, t \in Sender : /\ sending'[s].step = "saved" /\ sending'[t].step = "saved" /\ sending'[s].n = sending'[t].n
                                     => s = t
             /\ WaitingIn(queue') \cap MailedIn(mailbox') = {} /\ (WaitingIn(queue') \cup MailedIn(mailbox')) \cap Saved' = {}
             /\ \A m \in WaitingIn(queue') \cup MailedIn(mailbox') \cup Saved' : m <= posted' /\ entry'[m].status = "queued"
<1>1. /\ \A m \in Message : AtMostOne(queue, {UserItem(m)}) /\ AtMostOne(mailbox, {UserCmd(m)})
      /\ \A s, t \in Sender : /\ sending[s].step = "saved" /\ sending[t].step = "saved" /\ sending[s].n = sending[t].n
                              => s = t
      /\ W \cap M = {} /\ (W \cup M) \cap Saved = {}
      /\ \A m \in W \cup M \cup Saved : m \in Message /\ m <= posted /\ entry[m].status = "queued"
  BY LineTypes DEF OnceInLine, Line
<1>2. /\ posted \in Nat /\ sending \in [Sender -> [step : {"none", "read", "saved"}, n : Nat]]
      /\ entry \in [Message -> AnEntry] /\ \A m \in Message : m \in Nat
  BY DEF Typed, TypedChat, Message
<1>3. SUFFICES Fine
  BY DEF OnceInLine, Line
<1>4. CASE Kept
  <2>1. WaitingIn(queue') = W /\ MailedIn(mailbox') = M /\ Saved' = Saved /\ \A m \in Message : AtMostOne(mailbox', {UserCmd(m)})
    BY <1>4, KeptSets
  <2>2. UNCHANGED <<queue, entry, posted>>
    BY <1>4 DEF Kept
  <2>3. \A s, t \in Sender : /\ sending'[s].step = "saved" /\ sending'[t].step = "saved" /\ sending'[s].n = sending'[t].n
                             => s = t
    BY <1>1, <1>4 DEF Kept
  <2> QED
    BY <1>1, <2>1, <2>2, <2>3
<1>5. ASSUME NEW s \in Sender, PostSaves(s)
      PROVE  Fine
  <2>1. /\ WaitingIn(queue') = W /\ MailedIn(mailbox') = M /\ Saved' = Saved \cup {posted + 1}
        /\ posted + 1 \in Message /\ posted + 1 \notin Line
        /\ entry'[posted + 1] = [status |-> "queued", turn |-> sending[s].n, removed |-> FALSE]
        /\ \A m \in Message \ {posted + 1} : entry'[m] = entry[m]
    BY <1>5, SavesSets
  <2>2. /\ sending' = [sending EXCEPT ![s] = [step |-> "saved", n |-> posted + 1]] /\ posted' = posted + 1
        /\ UNCHANGED <<queue, mailbox>>
    BY <1>5 DEF PostSaves, actorVars
  <2>3. ASSUME NEW t \in Sender, NEW u \in Sender, sending'[t].step = "saved", sending'[u].step = "saved", sending'[t].n = sending'[u].n
        PROVE  t = u
    <3>1. \A v \in Sender : sending[v].step = "saved" => sending[v].n # posted + 1
      BY <2>1 DEF Line, Saved
    <3> QED
      BY <1>1, <1>2, <2>2, <2>3, <3>1
  <2>4. \A m \in W \cup M \cup Saved : m # posted + 1 /\ m <= posted + 1 /\ entry'[m].status = "queued"
    BY <1>1, <1>2, <2>1
  <2>5. posted + 1 \notin W \cup M
    BY <2>1 DEF Line
  <2>6. \A m \in W \cup M \cup Saved' : m <= posted' /\ entry'[m].status = "queued"
    BY <1>2, <2>1, <2>2, <2>4
  <2>7. (W \cup M) \cap Saved' = {}
    BY <1>1, <2>1, <2>5
  <2> QED
    BY <1>1, <2>1, <2>2, <2>3, <2>6, <2>7
<1>6. ASSUME NEW s \in Sender, Send(s)
      PROVE  Fine
  <2>1. /\ sending[s].n \in Saved /\ sending[s].n \in Message
        /\ WaitingIn(queue') = W /\ MailedIn(mailbox') = M \cup {sending[s].n}
        /\ Saved' = Saved \ {sending[s].n} /\ entry' = entry /\ posted' = posted
        /\ \A m \in Message : AtMostOne(mailbox', {UserCmd(m)})
    BY <1>6, SendSets
  <2>2. sending' = [sending EXCEPT ![s] = NotPosting] /\ queue' = queue /\ NotPosting.step = "none"
    BY <1>6 DEF Send, actorVars, NotPosting
  <2>3. \A t, u \in Sender : /\ sending'[t].step = "saved" /\ sending'[u].step = "saved" /\ sending'[t].n = sending'[u].n
                             => t = u
    BY <1>1, <1>2, <2>2
  <2> QED
    BY <1>1, <2>1, <2>2, <2>3
<1>7. CASE Handles
  <2>1. /\ Saved' = Saved /\ posted' = posted
        /\ \A m \in Message : AtMostOne(mailbox', {UserCmd(m)}) /\ AtMostOne(queue', {UserItem(m)})
    BY <1>7, HandlesSets
  <2>2. sending' = sending
    BY <1>7 DEF Handles
  <2>3. SUFFICES /\ WaitingIn(queue') \cap MailedIn(mailbox') = {} /\ (WaitingIn(queue') \cup MailedIn(mailbox')) \cap Saved = {}
                 /\ \A m \in WaitingIn(queue') \cup MailedIn(mailbox') \cup Saved : m <= posted /\ entry'[m].status = "queued"
    BY <1>1, <2>1, <2>2
  <2>4. CASE entry' = entry /\ WaitingIn(queue') = W /\ MailedIn(mailbox') = M
    BY <1>1, <2>4
  <2>5. ASSUME NEW m \in M, Queues, WaitingIn(queue') = W \cup {m}, MailedIn(mailbox') = M \ {m}
        PROVE  /\ WaitingIn(queue') \cap MailedIn(mailbox') = {} /\ (WaitingIn(queue') \cup MailedIn(mailbox')) \cap Saved = {}
               /\ \A k \in WaitingIn(queue') \cup MailedIn(mailbox') \cup Saved : k <= posted /\ entry'[k].status = "queued"
    BY <1>1, <2>5 DEF Queues
  <2>6. ASSUME NEW m \in Message, Moved(m), WaitingIn(queue') = W, MailedIn(mailbox') = M
        PROVE  /\ WaitingIn(queue') \cap MailedIn(mailbox') = {} /\ (WaitingIn(queue') \cup MailedIn(mailbox')) \cap Saved = {}
               /\ \A k \in WaitingIn(queue') \cup MailedIn(mailbox') \cup Saved : k <= posted /\ entry'[k].status = "queued"
    <3>1. \A k \in Message : entry'[k].status = entry[k].status
      BY <2>6, MovedIs
    <3> QED
      BY <1>1, <2>6, <3>1
  <2>7. ASSUME NEW m \in W, Dropped(m), WaitingIn(queue') = W \ {m}, MailedIn(mailbox') = M
        PROVE  /\ WaitingIn(queue') \cap MailedIn(mailbox') = {} /\ (WaitingIn(queue') \cup MailedIn(mailbox')) \cap Saved = {}
               /\ \A k \in WaitingIn(queue') \cup MailedIn(mailbox') \cup Saved : k <= posted /\ entry'[k].status = "queued"
    <3>1. m \in Message /\ \A k \in Message : k # m => entry'[k] = entry[k]
      BY <1>1, <2>7, DroppedIs
    <3>2. m \notin M \cup Saved
      BY <1>1, <2>7
    <3> QED
      BY <1>1, <2>7, <3>1, <3>2
  <2>8. CASE Stopped /\ WaitingIn(queue') = {} /\ MailedIn(mailbox') = M
    <3>1. \A k \in Message : k \notin W => entry'[k] = entry[k]
      BY <1>2, <2>8, CancelledIs DEF Stopped
    <3>2. \A k \in M \cup Saved : k \notin W
      BY <1>1
    <3> QED
      BY <1>1, <2>8, <3>1, <3>2
  <2>9. \/ Queues /\ WaitingIn(queue') = W /\ MailedIn(mailbox') = M
        \/ \E m \in M : Queues /\ WaitingIn(queue') = W \cup {m} /\ MailedIn(mailbox') = M \ {m}
        \/ entry' = entry /\ WaitingIn(queue') = W /\ MailedIn(mailbox') = M
        \/ \E m \in Message : Moved(m) /\ WaitingIn(queue') = W /\ MailedIn(mailbox') = M
        \/ \E m \in W : Dropped(m) /\ WaitingIn(queue') = W \ {m} /\ MailedIn(mailbox') = M
        \/ Stopped /\ WaitingIn(queue') = {} /\ MailedIn(mailbox') = M
    <3> HIDE DEF W, M
    <3> QED
      BY <1>7, HandlesSets DEF W, M
  <2>10. Queues => entry' = entry
    BY DEF Queues
  <2> QED
    BY <2>4, <2>5, <2>6, <2>7, <2>8, <2>9, <2>10
<1>8. ASSUME NEW k \in 1..Len(queue), Starts(k)
      PROVE  Fine
  <2>1. /\ WaitingIn(queue') \subseteq W /\ MailedIn(mailbox') = M /\ Saved' = Saved
        /\ \A m \in Message : AtMostOne(queue', {UserItem(m)}) /\ AtMostOne(mailbox', {UserCmd(m)})
        /\ \A m \in Message, i \in 1..k : queue[i] = UserItem(m) => m \notin WaitingIn(queue') /\ m \in W
        /\ \A m \in Message : (\A i \in 1..k : queue[i] # UserItem(m)) => entry'[m] = entry[m]
    BY <1>8, StartsSets
  <2>2. UNCHANGED <<posted, sending>>
    BY <1>8 DEF Starts
  <2>3. \A m \in WaitingIn(queue') \cup M \cup Saved : entry'[m] = entry[m]
    BY <1>1, <2>1
  <2> QED
    BY <1>1, <2>1, <2>2, <2>3
<1>9. CASE Emptied
  <2>1. WaitingIn(queue') = {} /\ MailedIn(mailbox') = {} /\ Saved' = {}
    BY <1>9, EmptiedSets
  <2>2. queue' = <<>> /\ mailbox' = <<>> /\ \A s \in Sender : sending'[s].step = "none"
    BY <1>9 DEF Emptied
  <2> QED
    BY <2>1, <2>2, EmptyHas
<1> QED
  BY <1>4, <1>5, <1>6, <1>7, <1>8, <1>9, LineSteps DEF LineGoes

LEMMA KnownStep ==
  ASSUME Typed, SteeredKnown, [Next]_vars
  PROVE  SteeredKnown'
<1> DEFINE Fine == offered' \subseteq steered' /\ \A m \in Message : inflight'[m] # "no" => m \in steered'
<1>1. /\ offered \subseteq steered /\ \A m \in Message : inflight[m] # "no" => m \in steered
      /\ inflight \in [Message -> {"no", "yes", "back"}]
  BY DEF SteeredKnown, InFlight, Typed, TypedActor
<1>2. SUFFICES Fine
  BY DEF SteeredKnown, InFlight
<1>3. ASSUME offered' \subseteq offered, inflight' = inflight, steered' = steered
      PROVE  Fine
  BY <1>1, <1>3
<1>4. ASSUME UNCHANGED actorVars, UNCHANGED history, UNCHANGED agentVars
      PROVE  Fine
  BY <1>3, <1>4 DEF actorVars, history, agentVars
<1>5. ASSUME NEW s \in Sender, PostReads(s) \/ PostSaves(s) \/ Send(s)
      PROVE  Fine
  BY <1>4, <1>5 DEF PostReads, PostSaves, Send
<1>6. ASSUME NEW kind \in Other, OtherArrives(kind)
      PROVE  Fine
  BY <1>4, <1>6 DEF OtherArrives
<1>7. ASSUME NEW m \in Message, Touch("steer", m) \/ Touch("unqueue", m)
      PROVE  Fine
  BY <1>4, <1>7 DEF Touch
<1>8. CASE Stop
  BY <1>4, <1>8 DEF Stop
<1>9. CASE HandleCommand
  <2> DEFINE c == Head(mailbox)
  <2>1. \/ c.cmd = "queue" /\ OnQueue(c.item)
        \/ c.cmd = "steer" /\ OnSteer(c.id)
        \/ c.cmd = "unqueue" /\ OnUnqueue(c.id)
        \/ c.cmd = "steered" /\ OnSteered(c.id, c.outcome)
        \/ c.cmd = "stop" /\ OnStop
    BY <1>9 DEF HandleCommand
  <2>2. c.cmd \in {"steer", "unqueue", "steered"} => c.id \in Message
    <3>1. c \in ACommand
      BY <1>9, TailHas DEF Typed, HandleCommand
    <3> QED
      BY <3>1, CommandIs
  <2> HIDE DEF c
  <2>3. CASE c.cmd = "queue" /\ OnQueue(c.item)
    BY <1>3, <2>3 DEF OnQueue
  <2>4. CASE c.cmd = "steer" /\ OnSteer(c.id)
    <3>1. c.id \in Message
      BY <2>2, <2>4
    <3> QED
      BY <1>1, <1>3, <2>4, <3>1 DEF OnSteer, actorVars
  <2>5. CASE c.cmd = "unqueue" /\ OnUnqueue(c.id)
    <3>1. c.id \in Message
      BY <2>2, <2>5
    <3>2. /\ inflight' = inflight \/ (inflight[c.id] # "no" /\ inflight' = [inflight EXCEPT ![c.id] = "back"])
          /\ UNCHANGED <<offered, steered>>
      BY <2>5 DEF OnUnqueue, WithAgent, InFlight
    <3> QED
      BY <1>1, <3>1, <3>2
  <2>6. CASE c.cmd = "steered" /\ OnSteered(c.id, c.outcome)
    <3>1. c.id \in Message
      BY <2>2, <2>6
    <3> QED
      BY <1>1, <2>6, <3>1 DEF OnSteered
  <2>7. CASE c.cmd = "stop" /\ OnStop
    BY <1>3, <2>7 DEF OnStop
  <2> QED
    BY <2>1, <2>3, <2>4, <2>5, <2>6, <2>7
<1>10. CASE StartUserTurn
  BY <1>3, <1>10 DEF StartUserTurn, agentVars
<1>11. CASE StartOtherTurn
  BY <1>3, <1>11 DEF StartOtherTurn, agentVars
<1>12. CASE Prompted \/ StartFails \/ TakeDone
  BY <1>3, <1>12 DEF Prompted, StartFails, TakeDone, agentVars, history
<1>13. CASE AgentStep \/ KillAgent
  <2>1. \/ AgentWrites \/ AgentEnds("ok") \/ AgentEnds("err") \/ AgentDies
        \/ \E m \in Message : AgentTakes(m) \/ AgentRefuses(m, "next") \/ AgentRefuses(m, "failed") \/ SteerLost(m) \/ AnswerFails(m)
    BY <1>13 DEF AgentStep, KillAgent
  <2>2. inflight' = inflight /\ steered' = steered
    BY <2>1 DEF AgentWrites, AgentEnds, AgentDies, AgentTakes, AgentRefuses, SteerLost, AnswerFails, AgentFrame, actorVars, history
  <2>3. offered' \subseteq offered
    BY <2>1 DEF AgentWrites, AgentEnds, AgentDies, AgentTakes, AgentRefuses, SteerLost, AnswerFails, agentVars
  <2> QED
    BY <1>3, <2>2, <2>3
<1>14. ASSUME NEW resume \in BOOLEAN, Restart(resume)
       PROVE  Fine
  BY <1>14 DEF Restart
<1>15. CASE UNCHANGED vars
  BY <1>3, <1>15 DEF vars
<1> QED
  BY <1>5, <1>6, <1>7, <1>8, <1>9, <1>10, <1>11, <1>12, <1>13, <1>14, <1>15 DEF Next

LEMMA StartsWell == Init => Typed /\ OnceInLine /\ SteeredKnown
<1>1. SUFFICES ASSUME Init PROVE Typed /\ OnceInLine /\ SteeredKnown
  OBVIOUS
<1>2. Readers = {} /\ Saved = {}
  BY <1>1 DEF Init, Readers, Saved, NotPosting
<1>3. IsFiniteSet(Readers) /\ posted + Cardinality(Readers) <= MaxMessages
  BY <1>1, <1>2, FS_EmptySet, ConversationAssumption DEF Init
<1>4. TypedChat
  <2>1. entry \in [Message -> AnEntry]
    BY <1>1 DEF Init, AnEntry
  <2>2. posted \in Nat /\ written \in SUBSET Nat /\ IsFiniteSet(written)
    BY <1>1, FS_EmptySet DEF Init
  <2>3. /\ sending \in [Sender -> [step : {"none", "read", "saved"}, n : Nat]]
        /\ \A s \in Sender : sending[s].step = "none" /\ sending[s].n = 0
    BY <1>1 DEF Init, NotPosting
  <2> QED
    BY <1>3, <2>1, <2>2, <2>3 DEF TypedChat
<1>5. TypedActor
  <2>1. Idle \in ATurn
    BY DEF Idle, ATurn
  <2>2. queue \in Seq(AnItem) /\ turn \in ATurn
    BY <1>1, <2>1 DEF Init
  <2>3. inflight \in [Message -> {"no", "yes", "back"}] /\ held \in {"none", "ok", "err"} /\ marked \in BOOLEAN
    BY <1>1 DEF Init
  <2> QED
    BY <2>2, <2>3 DEF TypedActor
<1>6. mailbox \in Seq(ACommand) /\ TypedAgent /\ TypedHistory /\ TypedBounds
  BY <1>1, ConversationAssumption DEF Init, TypedAgent, TypedHistory, TypedBounds
<1>7. OnceInLine
  <2>1. Line = {} /\ WaitingIn(queue) = {} /\ MailedIn(mailbox) = {}
    BY <1>1, <1>2, NoneWait DEF Init, Line
  <2>2. \A s \in Sender : sending[s].step = "none"
    BY <1>1 DEF Init, NotPosting
  <2>3. queue = <<>> /\ mailbox = <<>>
    BY <1>1 DEF Init
  <2> QED
    BY <1>2, <2>1, <2>2, <2>3, EmptyHas DEF OnceInLine
<1>8. SteeredKnown
  BY <1>1 DEF Init, SteeredKnown, InFlight
<1> QED
  BY <1>4, <1>5, <1>6, <1>7, <1>8 DEF Typed

Known == Typed /\ OnceInLine /\ SteeredKnown

LEMMA KnownAlways == Spec => []Known
<1>1. Init => Known
  BY StartsWell DEF Known
<1>2. Known /\ [Next]_vars => Known'
  BY TypedStep, OnceStep, KnownStep DEF Known
<1> QED
  BY <1>1, <1>2, PTL DEF Spec

-----------------------------------------------------------------------------
(* What is still to come: no turn has a message before it is in the queue. *)

Fresh == {m \in Message : m > posted} \cup MailedIn(mailbox) \cup Saved

LEMMA FreshGoes ==
  ASSUME Typed, SteeredKnown, OnceInLine, [Next]_vars
  PROVE  Fresh' \subseteq Fresh /\ WaitingIn(queue') \subseteq WaitingIn(queue) \cup Fresh
<1> DEFINE W == WaitingIn(queue)
           M == MailedIn(mailbox)
           Fine == /\ {m \in Message : m > posted'} \cup MailedIn(mailbox') \cup Saved' \subseteq Fresh
                   /\ WaitingIn(queue') \subseteq W \cup Fresh
<1>1. SUFFICES Fine
  BY DEF Fresh
<1>2. posted \in Nat /\ \A m \in Message : m \in Nat
  BY DEF Typed, TypedChat, Message
<1>3. Fresh = {m \in Message : m > posted} \cup M \cup Saved
  BY DEF Fresh
<1>4. CASE Kept
  <2>1. WaitingIn(queue') = W /\ MailedIn(mailbox') = M /\ Saved' = Saved /\ posted' = posted
    BY <1>4, KeptSets DEF Kept
  <2> QED
    BY <1>3, <2>1
<1>5. ASSUME NEW s \in Sender, PostSaves(s)
      PROVE  Fine
  <2>1. /\ WaitingIn(queue') = W /\ MailedIn(mailbox') = M /\ Saved' = Saved \cup {posted + 1}
        /\ posted + 1 \in Message
    BY <1>5, SavesSets
  <2>2. posted' = posted + 1
    BY <1>5 DEF PostSaves
  <2> QED
    BY <1>2, <1>3, <2>1, <2>2
<1>6. ASSUME NEW s \in Sender, Send(s)
      PROVE  Fine
  <2>1. /\ sending[s].n \in Saved
        /\ WaitingIn(queue') = W /\ MailedIn(mailbox') = M \cup {sending[s].n}
        /\ Saved' = Saved \ {sending[s].n} /\ posted' = posted
    BY <1>6, SendSets
  <2> QED
    BY <1>3, <2>1
<1>7. CASE Handles
  <2>1. Saved' = Saved /\ posted' = posted
    BY <1>7, HandlesSets
  <2>2. MailedIn(mailbox') \subseteq M /\ WaitingIn(queue') \subseteq W \cup M
    BY <1>7, HandlesSets
  <2> QED
    BY <1>3, <2>1, <2>2
<1>8. ASSUME NEW k \in 1..Len(queue), Starts(k)
      PROVE  Fine
  <2>1. WaitingIn(queue') \subseteq W /\ MailedIn(mailbox') = M /\ Saved' = Saved /\ posted' = posted
    BY <1>8, StartsSets
  <2> QED
    BY <1>3, <2>1
<1>9. CASE Emptied
  <2>1. WaitingIn(queue') = {} /\ MailedIn(mailbox') = {} /\ Saved' = {} /\ posted' = posted
    BY <1>9, EmptiedSets DEF Emptied
  <2> QED
    BY <1>3, <2>1
<1> QED
  BY <1>4, <1>5, <1>6, <1>7, <1>8, <1>9, LineSteps DEF LineGoes

\* A message is in the queue, on its way there, or neither.
LEMMA FreshApart ==
  ASSUME Typed, OnceInLine
  PROVE  WaitingIn(queue) \cap Fresh = {}
<1>1. posted \in Nat /\ \A m \in Message : m \in Nat
  BY DEF Typed, TypedChat, Message
<1>2. \A m \in WaitingIn(queue) : m <= posted /\ m \in Message
  BY DEF OnceInLine, Line, WaitingIn
<1> QED
  BY <1>1, <1>2 DEF OnceInLine, Fresh

-----------------------------------------------------------------------------
(* The answers to a steer, and what the agent has.  From here on, no       *)
(* answer misses its time.                                                 *)

AnswerOf(m, o) == [cmd |-> "steered", id |-> m, outcome |-> o]
AnswersTo(m) == {AnswerOf(m, o) : o \in Outcome}
Refusals(m) == {AnswerOf(m, "next"), AnswerOf(m, "failed")}

\* The same answers are on their way.
AnswersSame ==
  \A T \in SUBSET ACommand : (\A c \in T : c.cmd = "steered")
     => (Has(mailbox', T) <=> Has(mailbox, T)) /\ (AtMostOne(mailbox, T) => AtMostOne(mailbox', T))

LEMMA AnswersTyped ==
  ASSUME NEW m \in Message
  PROVE  /\ AnswersTo(m) \in SUBSET ACommand /\ \A c \in AnswersTo(m) : c.cmd = "steered" /\ c.id = m
         /\ Refusals(m) \in SUBSET AnswersTo(m)
         /\ \A o \in Outcome : AnswerOf(m, o) \in AnswersTo(m)
  BY DEF AnswersTo, AnswerOf, ACommand, Outcome, Refusals

LEMMA AnswersKept ==
  ASSUME mailbox \in Seq(ACommand)
  PROVE  /\ mailbox' = mailbox => AnswersSame
         /\ \A c \in ACommand : c.cmd # "steered" /\ mailbox' = Append(mailbox, c) => AnswersSame
         /\ mailbox # <<>> /\ Head(mailbox).cmd # "steered" /\ mailbox' = Tail(mailbox) => AnswersSame
<1>1. mailbox' = mailbox => AnswersSame
  BY DEF AnswersSame
<1>2. ASSUME NEW c \in ACommand, c.cmd # "steered", mailbox' = Append(mailbox, c)
      PROVE  AnswersSame
  <2>1. ASSUME NEW T \in SUBSET ACommand, \A d \in T : d.cmd = "steered"
        PROVE  (Has(mailbox', T) <=> Has(mailbox, T)) /\ (AtMostOne(mailbox, T) => AtMostOne(mailbox', T))
    <3>1. c \notin T
      BY <1>2, <2>1
    <3> QED
      BY <1>2, <3>1, AppendHas
  <2> QED
    BY <2>1 DEF AnswersSame
<1>3. ASSUME mailbox # <<>>, Head(mailbox).cmd # "steered", mailbox' = Tail(mailbox)
      PROVE  AnswersSame
  <2>1. ASSUME NEW T \in SUBSET ACommand, \A d \in T : d.cmd = "steered"
        PROVE  (Has(mailbox', T) <=> Has(mailbox, T)) /\ (AtMostOne(mailbox, T) => AtMostOne(mailbox', T))
    <3>1. Head(mailbox) \notin T
      BY <1>3, <2>1
    <3> QED
      BY <1>3, <3>1, TailHas
  <2> QED
    BY <2>1 DEF AnswersSame
<1> QED
  BY <1>1, <1>2, <1>3

\* Nobody has a message twice, and what a turn has nobody else has.
Opening == IF turn.phase = "starting" THEN {turn.batch[i] : i \in 1..Len(turn.batch)} ELSE {}
Apart ==
  /\ turn.phase = "starting" => \A i, j \in 1..Len(turn.batch) : turn.batch[i] = turn.batch[j] => i = j
  /\ Opening \cap (WaitingIn(queue) \cup TookIds) = {}
  /\ \A m \in Opening \cup TookIds : m \notin Fresh
  /\ \A m \in Message : InFlight(m) => m \notin Fresh

\* One answer is awaited or on its way for each message with the agent, and it says
\* truly whether the agent took the message.
Steers ==
  /\ offered \subseteq awaited
  /\ \A m \in Message :
      /\ AtMostOne(mailbox, AnswersTo(m))
      /\ m \in awaited => ~Has(mailbox, AnswersTo(m)) /\ m \notin TookIds
      /\ m \in awaited \/ Has(mailbox, AnswersTo(m)) => InFlight(m)
      /\ InFlight(m) => turn.phase = "running"
      /\ m \in WaitingIn(queue) \cap TookIds => Has(mailbox, {AnswerOf(m, "joined")})
      /\ m \notin TookIds \/ ~Has(mailbox, Refusals(m))

\* A message taken back is nowhere.
Removed ==
  \A m \in Message : entry[m].removed => m \notin Line \cup Opening \cup awaited \cup TookIds

(* What a step makes of what the agent has: nothing; a turn's prompt; a steer, *)
(* the agent's word on it, and the actor's handling of that; a restart.        *)
SameInFlight == \A m \in Message : inflight'[m] = "no" <=> inflight[m] = "no"
Still ==
  /\ took' = took /\ awaited' = awaited /\ offered' \subseteq offered /\ AnswersSame /\ SameInFlight
  /\ turn.phase = "running" /\ (\E m \in Message : InFlight(m)) => turn'.phase = "running"
Prompts ==
  /\ turn.phase = "starting" /\ turn'.phase = "running" /\ UNCHANGED <<inflight, awaited, offered, mailbox, queue>>
  /\ took' = took \o [i \in 1..Len(turn.batch) |-> [id |-> turn.batch[i], turn |-> turn.number, joined |-> FALSE]]
Offers(m) ==
  /\ m \in WaitingIn(queue) /\ ~InFlight(m) /\ turn.phase = "running" /\ UNCHANGED <<turn, queue, took>>
  /\ inflight' = [inflight EXCEPT ![m] = "yes"] /\ offered' = offered \cup {m} /\ awaited' = awaited \cup {m}
  /\ AnswersSame
Says(m, o) ==
  /\ m \in awaited /\ awaited' = awaited \ {m} /\ offered' \subseteq offered \ {m}
  /\ mailbox' = Append(mailbox, AnswerOf(m, o)) /\ UNCHANGED <<inflight, turn, queue>>
  /\ took' = IF o = "joined" THEN Append(took, [id |-> m, turn |-> turn.number, joined |-> TRUE]) ELSE took
Hears(m, o) ==
  /\ mailbox # <<>> /\ Head(mailbox) = AnswerOf(m, o) /\ mailbox' = Tail(mailbox)
  /\ UNCHANGED <<took, offered, awaited>>
  /\ Settled(m, o) /\ inflight' = [inflight EXCEPT ![m] = "no"]
  /\ turn'.phase = turn.phase \/ \A k \in Message : inflight'[k] = "no"
Forgets ==
  /\ mailbox' = <<>> /\ queue' = <<>> /\ awaited' = {} /\ offered' = {} /\ took' = took
  /\ \A m \in Message : inflight'[m] = "no"

AgentGoes ==
  \/ Still \/ Prompts \/ Forgets
  \/ \E m \in Message : \/ Offers(m)
                        \/ \E o \in Outcome : Says(m, o) \/ Hears(m, o)

LEMMA HandlesAgent ==
  ASSUME Typed, HandleCommand
  PROVE  AgentGoes
<1> DEFINE c == Head(mailbox)
<1>1. mailbox # <<>> /\ mailbox' = Tail(mailbox) /\ took' = took
  BY DEF HandleCommand
<1>2. \/ c.cmd = "queue" /\ OnQueue(c.item)
      \/ c.cmd = "steer" /\ OnSteer(c.id)
      \/ c.cmd = "unqueue" /\ OnUnqueue(c.id)
      \/ c.cmd = "steered" /\ OnSteered(c.id, c.outcome)
      \/ c.cmd = "stop" /\ OnStop
  BY DEF HandleCommand
<1>3. /\ c.cmd \in {"steer", "unqueue", "steered"} => c.id \in Message
      /\ c.cmd = "steered" => c.outcome \in Outcome /\ c = [cmd |-> "steered", id |-> c.id, outcome |-> c.outcome]
  <2>1. c \in ACommand
    BY <1>1, TailHas DEF Typed
  <2> QED
    BY <2>1, CommandIs
<1>4. c.cmd # "steered" => AnswersSame
  BY <1>1, AnswersKept DEF Typed
<1>5. inflight \in [Message -> {"no", "yes", "back"}] /\ turn \in ATurn
  BY DEF Typed, TypedActor
<1> HIDE DEF c
<1>6. CASE c.cmd = "queue" /\ OnQueue(c.item)
  BY <1>1, <1>4, <1>6 DEF OnQueue, Still, SameInFlight, AgentGoes
<1>7. CASE c.cmd = "steer" /\ OnSteer(c.id)
  <2> DEFINE m == c.id
  <2>1. m \in Message /\ OnSteer(m) /\ AnswersSame
    BY <1>3, <1>4, <1>7
  <2> HIDE DEF m
  <2>2. CASE UNCHANGED <<entry, actorVars, offered, awaited, steered>>
    BY <1>1, <2>1, <2>2 DEF actorVars, Still, SameInFlight, AgentGoes
  <2>3. CASE ~WithAgent(m) /\ Queued(queue, m) /\ Own /\ inflight' = [inflight EXCEPT ![m] = "yes"]
             /\ offered' = offered \cup {m} /\ awaited' = awaited \cup {m} /\ UNCHANGED <<queue, turn>>
    <3>1. Offers(m)
      BY <1>1, <2>1, <2>3 DEF Offers, WithAgent, Own, WaitingIn
    <3> QED
      BY <2>1, <3>1 DEF AgentGoes
  <2>4. CASE turn' = [turn EXCEPT !.stop = @ \/ Own] /\ UNCHANGED <<inflight, offered, awaited>>
    <3>1. turn'.phase = turn.phase
      BY <1>5, <2>4 DEF ATurn
    <3> QED
      BY <1>1, <2>1, <2>4, <3>1 DEF Still, SameInFlight, AgentGoes
  <2> QED
    BY <2>1, <2>2, <2>3, <2>4 DEF OnSteer
<1>8. CASE c.cmd = "unqueue" /\ OnUnqueue(c.id)
  <2> DEFINE m == c.id
  <2>1. m \in Message /\ OnUnqueue(m) /\ AnswersSame
    BY <1>3, <1>4, <1>8
  <2> HIDE DEF m
  <2>2. inflight' = inflight \/ (inflight[m] # "no" /\ inflight' = [inflight EXCEPT ![m] = "back"])
    BY <2>1 DEF OnUnqueue, WithAgent, InFlight
  <2>3. SameInFlight
    BY <1>5, <2>1, <2>2 DEF SameInFlight
  <2>4. UNCHANGED <<turn, offered, awaited>>
    BY <2>1 DEF OnUnqueue
  <2> QED
    BY <1>1, <2>1, <2>3, <2>4 DEF Still, AgentGoes
<1>9. CASE c.cmd = "stop" /\ OnStop
  <2>1. turn'.phase = turn.phase
    BY <1>5, <1>9 DEF OnStop, ATurn
  <2> QED
    BY <1>1, <1>4, <1>9, <2>1 DEF OnStop, Still, SameInFlight, AgentGoes
<1>10. CASE c.cmd = "steered" /\ OnSteered(c.id, c.outcome)
  <2> DEFINE m == c.id
             o == c.outcome
  <2>1. m \in Message /\ o \in Outcome /\ c = AnswerOf(m, o) /\ OnSteered(m, o)
    BY <1>3, <1>10 DEF AnswerOf
  <2> HIDE DEF m, o
  <2>2. Settled(m, o) /\ inflight' = [inflight EXCEPT ![m] = "no"] /\ UNCHANGED <<offered, awaited>>
    BY <2>1 DEF OnSteered
  <2>3. turn'.phase = turn.phase \/ \A k \in Message : inflight'[k] = "no"
    <3>1. CASE LastAnswer(o)
      BY <3>1 DEF LastAnswer
    <3>2. CASE turn' = turn \/ turn' = [turn EXCEPT !.batch = Append(turn.batch, m)]
      BY <1>5, <3>2 DEF ATurn
    <3> QED
      BY <2>1, <3>1, <3>2 DEF OnSteered
  <2>4. Hears(m, o)
    BY <1>1, <2>1, <2>2, <2>3 DEF Hears, c
  <2> QED
    BY <2>1, <2>4 DEF AgentGoes
<1> QED
  BY <1>2, <1>6, <1>7, <1>8, <1>9, <1>10

LEMMA AgentSteps ==
  ASSUME Typed, Steers, AnswersLost = FALSE, [Next]_vars
  PROVE  AgentGoes
<1>1. mailbox \in Seq(ACommand)
  BY DEF Typed
<1>2. ASSUME took' = took, awaited' = awaited, offered' \subseteq offered, inflight' = inflight, AnswersSame,
             turn' = turn
      PROVE  AgentGoes
  BY <1>2 DEF Still, SameInFlight, AgentGoes
<1>3. ASSUME UNCHANGED <<actorVars, agentVars, history>>, AnswersSame
      PROVE  AgentGoes
  BY <1>2, <1>3 DEF actorVars, agentVars, history
<1>4. ASSUME NEW c \in ACommand, c.cmd # "steered", Tell(c)
      PROVE  AnswersSame
  BY <1>1, <1>4, AnswersKept DEF Tell
<1>5. ASSUME NEW s \in Sender, PostReads(s) \/ PostSaves(s)
      PROVE  AgentGoes
  BY <1>1, <1>3, <1>5, AnswersKept DEF PostReads, PostSaves
<1>6. ASSUME NEW s \in Sender, Send(s)
      PROVE  AgentGoes
  <2>1. sending[s].n \in Message
    BY <1>6 DEF Send, Typed, TypedChat
  <2>2. UserCmd(sending[s].n) \in ACommand /\ UserCmd(sending[s].n).cmd # "steered"
    BY <2>1, PostOf DEF UserCmd
  <2> QED
    BY <1>3, <1>4, <1>6, <2>2 DEF Send, UserCmd
<1>7. ASSUME NEW kind \in Other, OtherArrives(kind)
      PROVE  AgentGoes
  <2> DEFINE item == [kind |-> kind, id |-> IF kind = "request" THEN max_turn + 1 ELSE 0]
  <2>1. item \in AnItem /\ item.kind # "user"
    <3>1. max_turn + 1 \in Nat
      BY MaxTurn DEF Typed, TypedChat
    <3> QED
      BY <3>1, ConversationAssumption DEF AnItem
  <2>2. Tell([cmd |-> "queue", item |-> item])
    BY <1>7 DEF OtherArrives
  <2> HIDE DEF item
  <2>3. AnswersSame
    BY <1>4, <2>1, <2>2, NotPost
  <2> QED
    BY <1>3, <1>7, <2>3 DEF OtherArrives
<1>8. ASSUME NEW m \in Message, Touch("steer", m) \/ Touch("unqueue", m)
      PROVE  AgentGoes
  BY <1>3, <1>4, <1>8, NotPost DEF Touch
<1>9. CASE Stop
  BY <1>3, <1>4, <1>9, NotPost DEF Stop
<1>10. CASE HandleCommand
  BY <1>10, HandlesAgent
<1>11. CASE StartUserTurn \/ StartOtherTurn
  <2>1. turn.phase = "idle"
    BY <1>11 DEF StartUserTurn, StartOtherTurn
  <2>2. UNCHANGED <<took, awaited, offered, inflight, mailbox>>
    BY <1>11 DEF StartUserTurn, StartOtherTurn, agentVars
  <2> QED
    BY <1>1, <2>1, <2>2, AnswersKept DEF Still, SameInFlight, AgentGoes
<1>12. CASE Prompted
  <2>1. turn'.phase = "running"
    BY <1>12 DEF Prompted, Typed, TypedActor, ATurn
  <2> QED
    BY <1>12, <2>1 DEF Prompted, Prompts, AgentGoes, agentVars
<1>13. CASE StartFails
  BY <1>1, <1>13, AnswersKept DEF StartFails, agentVars, Still, SameInFlight, AgentGoes
<1>14. CASE TakeDone
  <2>1. UNCHANGED <<took, awaited, offered, inflight, mailbox>> /\ (TurnEnded => turn' = turn)
    BY <1>14 DEF TakeDone, history
  <2> QED
    BY <1>1, <2>1, AnswersKept DEF Still, SameInFlight, AgentGoes, TurnEnded
<1>15. CASE AgentWrites
  BY <1>1, <1>3, <1>15, AnswersKept DEF AgentWrites
<1>16. CASE AgentEnds("ok") \/ AgentEnds("err") \/ AgentDies \/ KillAgent
  <2>1. UNCHANGED <<took, awaited, mailbox>> /\ offered' \subseteq offered /\ AgentFrame
    BY <1>16 DEF AgentEnds, AgentDies, KillAgent
  <2> QED
    BY <1>1, <1>2, <2>1, AnswersKept DEF AgentFrame, actorVars
<1>17. ASSUME NEW m \in Message, NEW o \in Outcome, Answer(m, o), m \in awaited, offered' \subseteq offered \ {m}, AgentFrame,
              took' = IF o = "joined" THEN Append(took, [id |-> m, turn |-> turn.number, joined |-> TRUE]) ELSE took
       PROVE  AgentGoes
  <2>1. Says(m, o)
    BY <1>17 DEF Says, Answer, Tell, AnswerOf, AgentFrame, actorVars
  <2> QED
    BY <2>1 DEF AgentGoes
<1>18. ASSUME NEW m \in Message, AgentTakes(m)
       PROVE  AgentGoes
  BY <1>17, <1>18 DEF AgentTakes, Steers, Outcome
<1>19. ASSUME NEW m \in Message, AgentRefuses(m, "next") \/ AgentRefuses(m, "failed")
       PROVE  AgentGoes
  BY <1>17, <1>19 DEF AgentRefuses, Steers, Outcome
<1>20. ASSUME NEW m \in Message, SteerLost(m) \/ AnswerFails(m)
       PROVE  AgentGoes
  BY <1>17, <1>20 DEF SteerLost, AnswerFails, Outcome
<1>21. ASSUME NEW resume \in BOOLEAN, Restart(resume)
       PROVE  AgentGoes
  BY <1>21 DEF Restart, Forgets, AgentGoes
<1>22. CASE UNCHANGED vars
  BY <1>1, <1>3, <1>22, AnswersKept DEF vars, actorVars, agentVars, history
<1> QED
  BY <1>5, <1>6, <1>7, <1>8, <1>9, <1>10, <1>11, <1>12, <1>13, <1>14, <1>15, <1>16, <1>18, <1>19, <1>20, <1>21, <1>22 DEF Next, AgentStep

LEMMA TookAppend ==
  ASSUME took \in Seq(ATook), NEW r \in ATook, took' = Append(took, r)
  PROVE  /\ TookIds' = TookIds \cup {r.id} /\ Len(took) \in Nat /\ Len(took') = Len(took) + 1
         /\ \A i \in 1..Len(took) : took'[i] = took[i]
         /\ took'[Len(took) + 1] = r
<1>1. /\ Len(took) \in Nat /\ Len(took') = Len(took) + 1 /\ \A i \in 1..Len(took) : took'[i] = took[i]
      /\ took'[Len(took) + 1] = r
  BY AppendProperties
<1>2. \A i \in 1..Len(took') : i \in 1..Len(took) \/ i = Len(took) + 1
  BY <1>1
<1>3. \A i \in 1..Len(took) : i \in 1..Len(took')
  BY <1>1
<1>4. Len(took) + 1 \in 1..Len(took')
  BY <1>1
<1>5. {took'[i].id : i \in 1..Len(took')} \subseteq {took[i].id : i \in 1..Len(took)} \cup {r.id}
  BY <1>1, <1>2
<1>6. {took[i].id : i \in 1..Len(took)} \subseteq {took'[i].id : i \in 1..Len(took')}
  BY <1>1, <1>3
<1>7. r.id \in {took'[i].id : i \in 1..Len(took')}
  BY <1>1, <1>4
<1> QED
  BY <1>1, <1>5, <1>6, <1>7 DEF TookIds

LEMMA TookPrompted ==
  ASSUME Typed, Prompts
  PROVE  /\ TookIds' = TookIds \cup Opening /\ Opening' = {}
         /\ Len(took) \in Nat /\ Len(turn.batch) \in Nat /\ Len(took') = Len(took) + Len(turn.batch)
         /\ \A i \in 1..Len(took) : took'[i] = took[i]
         /\ \A i \in 1..Len(turn.batch) : /\ turn.batch[i] \in Message
              /\ took'[Len(took) + i] = [id |-> turn.batch[i], turn |-> turn.number, joined |-> FALSE]
<1> DEFINE b == turn.batch
           given(i) == [id |-> b[i], turn |-> turn.number, joined |-> FALSE]
           new == [i \in 1..Len(b) |-> given(i)]
<1>1. took \in Seq(ATook) /\ b \in Seq(Message) /\ turn.number \in Nat
  BY DEF Typed, TypedHistory, TypedActor, ATurn
<1>2. Len(took) \in Nat /\ Len(b) \in Nat /\ \A i \in 1..Len(b) : b[i] \in Message
  BY <1>1, ElementOfSeq
<1>3. new \in Seq(ATook) /\ Len(new) = Len(b)
  <2>1. \A i \in 1..Len(b) : given(i) \in ATook
    BY <1>1, <1>2 DEF ATook
  <2> HIDE DEF given
  <2> QED
    BY <1>2, <2>1
<1>4. took' = took \o new
  BY DEF Prompts
<1>5. \A i \in 1..Len(b) : new[i] = [id |-> b[i], turn |-> turn.number, joined |-> FALSE]
  OBVIOUS
<1> HIDE DEF new
<1>6. /\ Len(took') = Len(took) + Len(b)
      /\ \A i \in 1..Len(took') : took'[i] = IF i <= Len(took) THEN took[i] ELSE new[i - Len(took)]
  <2>1. /\ Len(took \o new) = Len(took) + Len(new)
        /\ \A i \in 1..(Len(took) + Len(new)) : (took \o new)[i] = IF i <= Len(took) THEN took[i] ELSE new[i - Len(took)]
    BY <1>1, <1>3, ConcatProperties
  <2> QED
    BY <1>3, <1>4, <2>1
<1>7. \A i \in 1..Len(took) : i \in 1..Len(took') /\ took'[i] = took[i]
  BY <1>2, <1>6
<1>8. \A i \in 1..Len(b) : Len(took) + i \in 1..Len(took') /\ took'[Len(took) + i] = new[i]
  <2>1. ASSUME NEW i \in 1..Len(b)
        PROVE  Len(took) + i \in 1..Len(took') /\ took'[Len(took) + i] = new[i]
    <3>1. Len(took) + i \in 1..Len(took') /\ ~(Len(took) + i <= Len(took)) /\ (Len(took) + i) - Len(took) = i
      BY <1>2, <1>6
    <3> QED
      BY <1>6, <3>1
  <2> QED
    BY <2>1
<1>9. \A j \in 1..Len(took') : j \in 1..Len(took) \/ \E i \in 1..Len(b) : j = Len(took) + i
  <2>1. ASSUME NEW j \in 1..Len(took'), j \notin 1..Len(took)
        PROVE  \E i \in 1..Len(b) : j = Len(took) + i
    <3>1. j - Len(took) \in 1..Len(b) /\ j = Len(took) + (j - Len(took))
      BY <1>2, <1>6, <2>1
    <3> QED
      BY <3>1
  <2> QED
    BY <2>1
<1>10. Opening = {b[i] : i \in 1..Len(b)} /\ Opening' = {}
  BY DEF Prompts, Opening
<1>11. {took'[j].id : j \in 1..Len(took')} = {took[i].id : i \in 1..Len(took)} \cup {b[i] : i \in 1..Len(b)}
  <2>1. ASSUME NEW i \in 1..Len(b)
        PROVE  took'[Len(took) + i].id = b[i]
    <3>1. took'[Len(took) + i] = [id |-> b[i], turn |-> turn.number, joined |-> FALSE]
      BY <1>5, <1>8
    <3> QED
      BY <3>1
  <2>2. ASSUME NEW j \in 1..Len(took')
        PROVE  took'[j].id \in {took[i].id : i \in 1..Len(took)} \cup {b[i] : i \in 1..Len(b)}
    BY <1>7, <1>9, <2>1
  <2>3. ASSUME NEW i \in 1..Len(took)
        PROVE  took[i].id \in {took'[j].id : j \in 1..Len(took')}
    BY <1>7
  <2>4. ASSUME NEW i \in 1..Len(b)
        PROVE  b[i] \in {took'[j].id : j \in 1..Len(took')}
    BY <1>8, <2>1
  <2> QED
    BY <2>2, <2>3, <2>4
<1> QED
  BY <1>2, <1>5, <1>6, <1>7, <1>8, <1>10, <1>11 DEF TookIds

LEMMA TookTypes ==
  ASSUME Typed
  PROVE  /\ TookIds \in SUBSET Message /\ Opening \in SUBSET Message
         /\ Len(took) \in Nat /\ \A i \in 1..Len(took) : took[i] \in ATook /\ took[i].id \in TookIds
<1>1. took \in Seq(ATook) /\ turn.batch \in Seq(Message)
  BY DEF Typed, TypedHistory, TypedActor, ATurn
<1>2. Len(took) \in Nat /\ \A i \in 1..Len(took) : took[i] \in ATook /\ took[i].id \in Message
  <2>1. Len(took) \in Nat /\ \A i \in 1..Len(took) : took[i] \in ATook
    BY <1>1, ElementOfSeq
  <2>2. \A r \in ATook : r.id \in Message
    BY DEF ATook
  <2> QED
    BY <2>1, <2>2
<1>3. \A i \in 1..Len(turn.batch) : turn.batch[i] \in Message
  BY <1>1, ElementOfSeq
<1> QED
  BY <1>2, <1>3 DEF TookIds, Opening

\* What a step does to the messages a turn is about to hand over.
LEMMA OpeningGoes ==
  ASSUME Typed, [Next]_vars
  PROVE  turn' = turn \/ turn'.phase # "starting" \/ turn'.batch = <<>> \/ StartUserTurn
<1>1. turn \in ATurn
  BY DEF Typed, TypedActor
<1>2. CASE UNCHANGED actorVars
  BY <1>2 DEF actorVars
<1>3. CASE HandleCommand
  <2>1. turn.phase # "starting"
    BY <1>3 DEF HandleCommand, AtSelect
  <2>2. turn' = turn \/ turn' = Idle \/ turn'.phase = turn.phase
    <3> DEFINE c == Head(mailbox)
    <3>1. \/ OnQueue(c.item) \/ OnSteer(c.id) \/ OnUnqueue(c.id)
          \/ OnSteered(c.id, c.outcome) \/ OnStop
      BY <1>3 DEF HandleCommand
    <3> HIDE DEF c
    <3>2. CASE OnQueue(c.item) \/ OnUnqueue(c.id)
      BY <3>2 DEF OnQueue, OnUnqueue
    <3>3. CASE OnSteer(c.id)
      BY <1>1, <3>3 DEF OnSteer, actorVars, ATurn
    <3>4. CASE OnStop
      BY <1>1, <3>4 DEF OnStop, ATurn
    <3>5. CASE OnSteered(c.id, c.outcome)
      BY <1>1, <3>5 DEF OnSteered, EndTurn, ATurn
    <3> QED
      BY <3>1, <3>2, <3>3, <3>4, <3>5
  <2> QED
    BY <2>1, <2>2 DEF Idle
<1>4. CASE StartOtherTurn
  <2>1. turn'.batch = <<>>
    BY <1>4 DEF StartOtherTurn, Idle
  <2> QED
    BY <2>1
<1>5. CASE Prompted
  BY <1>1, <1>5 DEF Prompted, ATurn
<1>6. CASE StartFails
  BY <1>6 DEF StartFails, EndTurn, Idle
<1>7. CASE TakeDone
  BY <1>7 DEF TakeDone, EndTurn, Idle
<1>8. ASSUME NEW resume \in BOOLEAN, Restart(resume)
      PROVE  turn'.batch = <<>>
  BY <1>8 DEF Restart, Idle
<1>9. CASE AgentStep \/ KillAgent
  BY <1>2, <1>9 DEF AgentStep, KillAgent, AgentWrites, AgentEnds, AgentDies, AgentTakes, AgentRefuses, SteerLost, AnswerFails, AgentFrame
<1>10. ASSUME NEW s \in Sender, PostReads(s) \/ PostSaves(s) \/ Send(s)
       PROVE  UNCHANGED actorVars
  BY <1>10 DEF PostReads, PostSaves, Send
<1>11. CASE \/ \E kind \in Other : OtherArrives(kind)
            \/ \E m \in Message : Touch("steer", m) \/ Touch("unqueue", m)
            \/ Stop
  BY <1>2, <1>11 DEF OtherArrives, Touch, Stop
<1>12. CASE UNCHANGED vars
  BY <1>12 DEF vars
<1> QED
  BY <1>2, <1>3, <1>4, <1>5, <1>6, <1>7, <1>8, <1>9, <1>10, <1>11, <1>12 DEF Next

LEMMA SteersStep ==
  ASSUME Typed, SteeredKnown, OnceInLine, Apart, Steers, AnswersLost = FALSE, [Next]_vars
  PROVE  Steers'
<1> DEFINE W == WaitingIn(queue)
           W2 == WaitingIn(queue')
           Fine(m) ==
             /\ AtMostOne(mailbox', AnswersTo(m))
             /\ m \in awaited' => ~Has(mailbox', AnswersTo(m)) /\ m \notin TookIds'
             /\ m \in awaited' \/ Has(mailbox', AnswersTo(m)) => inflight'[m] # "no"
             /\ inflight'[m] # "no" => turn'.phase = "running"
             /\ m \in W2 /\ m \in TookIds' => Has(mailbox', {AnswerOf(m, "joined")})
             /\ m \notin TookIds' \/ ~Has(mailbox', Refusals(m))
           Well == offered' \subseteq awaited' /\ \A m \in Message : Fine(m)
<1>1. SUFFICES Well
  BY DEF Steers, InFlight, Refusals, AnswersTo, AnswerOf
<1>2. AgentGoes
  BY AgentSteps
<1>3. /\ offered \subseteq awaited /\ mailbox \in Seq(ACommand) /\ inflight \in [Message -> {"no", "yes", "back"}]
      /\ queue \in Seq(AnItem) /\ awaited \in SUBSET Message
  BY DEF Steers, Typed, TypedActor, TypedAgent
<1>4. \A m \in Message :
        /\ AtMostOne(mailbox, AnswersTo(m))
        /\ m \in awaited => ~Has(mailbox, AnswersTo(m)) /\ m \notin TookIds
        /\ m \in awaited \/ Has(mailbox, AnswersTo(m)) => inflight[m] # "no"
        /\ inflight[m] # "no" => turn.phase = "running"
        /\ m \in W /\ m \in TookIds => Has(mailbox, {AnswerOf(m, "joined")})
        /\ m \notin TookIds \/ ~Has(mailbox, Refusals(m))
  BY DEF Steers, InFlight
<1>5. W2 \subseteq W \cup Fresh /\ TookIds \cap Fresh = {}
  BY FreshGoes DEF Apart
<1>6. \A m \in Message :
        /\ AnswersTo(m) \in SUBSET ACommand /\ \A c \in AnswersTo(m) : c.cmd = "steered" /\ c.id = m
        /\ Refusals(m) \in SUBSET AnswersTo(m)
        /\ \A o \in Outcome : AnswerOf(m, o) \in AnswersTo(m)
  BY AnswersTyped
<1>7. "joined" \in Outcome
  BY DEF Outcome
<1>8. \A m \in Message : Has(mailbox, {AnswerOf(m, "joined")}) => Has(mailbox, AnswersTo(m))
  BY <1>6, <1>7 DEF Has
<1>9. \A m \in Message : m \in W /\ m \in TookIds => inflight[m] # "no"
  BY <1>4, <1>8
<1> HIDE DEF W, W2
<1>10. CASE Still
  <2>1. ASSUME NEW m \in Message
        PROVE  Fine(m)
    <3>1. /\ Has(mailbox', AnswersTo(m)) <=> Has(mailbox, AnswersTo(m))
          /\ AtMostOne(mailbox, AnswersTo(m)) => AtMostOne(mailbox', AnswersTo(m))
      BY <1>6, <1>10 DEF Still, AnswersSame
    <3>2. Has(mailbox', Refusals(m)) <=> Has(mailbox, Refusals(m))
      <4>1. Refusals(m) \in SUBSET ACommand /\ \A c \in Refusals(m) : c.cmd = "steered"
        BY <1>6
      <4> QED
        BY <1>10, <4>1 DEF Still, AnswersSame
    <3>3. Has(mailbox', {AnswerOf(m, "joined")}) <=> Has(mailbox, {AnswerOf(m, "joined")})
      <4>1. {AnswerOf(m, "joined")} \in SUBSET ACommand /\ \A c \in {AnswerOf(m, "joined")} : c.cmd = "steered"
        BY <1>6, <1>7
      <4> QED
        BY <1>10, <4>1 DEF Still, AnswersSame
    <3>4. awaited' = awaited /\ TookIds' = TookIds /\ (inflight'[m] = "no" <=> inflight[m] = "no")
      BY <1>10 DEF Still, SameInFlight, TookIds
    <3>5. inflight[m] # "no" => turn'.phase = "running"
      BY <1>4, <1>10 DEF Still, InFlight
    <3>6. m \in W2 /\ m \in TookIds => m \in W
      BY <1>5
    <3> QED
      BY <1>4, <3>1, <3>2, <3>3, <3>4, <3>5, <3>6
  <2> QED
    BY <1>3, <1>10, <2>1 DEF Still
<1>11. CASE Prompts
  <2>1. \A m \in Message : inflight[m] = "no"
    BY <1>4, <1>11 DEF Prompts
  <2>2. UNCHANGED <<inflight, awaited, offered, mailbox>> /\ W2 = W
    BY <1>11 DEF Prompts, W, W2
  <2>3. TookIds' = TookIds \cup Opening
    BY <1>11, TookPrompted
  <2>4. W \cap Opening = {}
    BY DEF Apart, W
  <2>5. ASSUME NEW m \in Message
        PROVE  ~Has(mailbox, Refusals(m))
    BY <1>4, <1>6, <2>1 DEF Has
  <2> QED
    BY <1>3, <1>4, <1>9, <2>1, <2>2, <2>3, <2>4, <2>5
<1>12. ASSUME NEW k \in Message, Offers(k)
       PROVE  Well
  <2>1. /\ k \in W /\ inflight[k] = "no" /\ turn'.phase = "running" /\ W2 = W /\ TookIds' = TookIds
        /\ inflight' = [inflight EXCEPT ![k] = "yes"] /\ offered' = offered \cup {k} /\ awaited' = awaited \cup {k}
    BY <1>12 DEF Offers, InFlight, W, W2, TookIds
  <2>2. k \notin TookIds
    BY <1>9, <2>1
  <2>3. ASSUME NEW m \in Message
        PROVE  Fine(m)
    <3>1. /\ Has(mailbox', AnswersTo(m)) <=> Has(mailbox, AnswersTo(m))
          /\ AtMostOne(mailbox, AnswersTo(m)) => AtMostOne(mailbox', AnswersTo(m))
      BY <1>6, <1>12 DEF Offers, AnswersSame
    <3>2. Has(mailbox', Refusals(m)) <=> Has(mailbox, Refusals(m))
      <4>1. Refusals(m) \in SUBSET ACommand /\ \A c \in Refusals(m) : c.cmd = "steered"
        BY <1>6
      <4> QED
        BY <1>12, <4>1 DEF Offers, AnswersSame
    <3>3. Has(mailbox', {AnswerOf(m, "joined")}) <=> Has(mailbox, {AnswerOf(m, "joined")})
      <4>1. {AnswerOf(m, "joined")} \in SUBSET ACommand /\ \A c \in {AnswerOf(m, "joined")} : c.cmd = "steered"
        BY <1>6, <1>7
      <4> QED
        BY <1>12, <4>1 DEF Offers, AnswersSame
    <3>4. m # k => inflight'[m] = inflight[m]
      BY <1>3, <2>1
    <3>5. inflight'[k] = "yes"
      BY <1>3, <1>12, <2>1
    <3> QED
      BY <1>4, <2>1, <2>2, <3>1, <3>2, <3>3, <3>4, <3>5
  <2> QED
    BY <1>3, <2>1, <2>3
<1>13. ASSUME NEW k \in Message, NEW o \in Outcome, Says(k, o)
       PROVE  Well
  <2> DEFINE c == AnswerOf(k, o)
  <2>1. /\ k \in awaited /\ awaited' = awaited \ {k} /\ offered' \subseteq offered \ {k}
        /\ mailbox' = Append(mailbox, c) /\ UNCHANGED <<inflight, turn>> /\ W2 = W
    BY <1>13 DEF Says, W, W2
  <2>2. c \in ACommand
    BY <1>6
  <2>3. \A T : /\ Has(mailbox', T) <=> (Has(mailbox, T) \/ c \in T)
               /\ AtMostOne(mailbox, T) /\ ~(Has(mailbox, T) /\ c \in T) => AtMostOne(mailbox', T)
    BY <1>3, <2>1, <2>2, AppendHas
  <2>4. ~Has(mailbox, AnswersTo(k)) /\ k \notin TookIds /\ inflight[k] # "no"
    BY <1>4, <2>1
  <2>5. IF o = "joined" THEN TookIds' = TookIds \cup {k} ELSE TookIds' = TookIds
    <3> DEFINE r == [id |-> k, turn |-> turn.number, joined |-> TRUE]
    <3>1. r \in ATook /\ took \in Seq(ATook) /\ r.id = k
      BY DEF ATook, Typed, TypedActor, ATurn, TypedHistory
    <3>2. took' = IF o = "joined" THEN Append(took, r) ELSE took
      BY <1>13 DEF Says
    <3> HIDE DEF r
    <3>3. CASE o = "joined"
      BY <3>1, <3>2, <3>3, TookAppend
    <3> QED
      BY <3>2, <3>3 DEF TookIds
  <2>6. c \in AnswersTo(k) /\ c.id = k /\ c.outcome = o
    BY <1>6 DEF AnswerOf
  <2>7. o = "joined" => c = AnswerOf(k, "joined") /\ c \notin Refusals(k)
    BY <2>6 DEF Refusals, AnswerOf
  <2>8. \A m \in Message : m # k => c \notin AnswersTo(m) /\ c \notin Refusals(m) /\ c # AnswerOf(m, "joined")
    BY <1>6, <1>7, <2>6
  <2>9. ~Has(mailbox, Refusals(k))
    BY <1>6, <2>4 DEF Has
  <2> HIDE DEF c
  <2>10. ASSUME NEW m \in Message, m # k
         PROVE  Fine(m)
    <3>1. /\ Has(mailbox', AnswersTo(m)) <=> Has(mailbox, AnswersTo(m))
          /\ AtMostOne(mailbox, AnswersTo(m)) => AtMostOne(mailbox', AnswersTo(m))
          /\ Has(mailbox', Refusals(m)) <=> Has(mailbox, Refusals(m))
          /\ Has(mailbox', {AnswerOf(m, "joined")}) <=> Has(mailbox, {AnswerOf(m, "joined")})
      BY <2>3, <2>8, <2>10
    <3>2. m \in TookIds' <=> m \in TookIds
      BY <2>5, <2>10
    <3> QED
      BY <1>4, <2>1, <2>10, <3>1, <3>2
  <2>11. Fine(k)
    <3>1. AtMostOne(mailbox', AnswersTo(k)) /\ inflight'[k] # "no" /\ turn'.phase = "running" /\ k \notin awaited'
      BY <1>4, <2>1, <2>3, <2>4
    <3>2. CASE o = "joined"
      <4>1. Has(mailbox', {AnswerOf(k, "joined")}) /\ ~Has(mailbox', Refusals(k))
        BY <2>3, <2>7, <2>9, <3>2
      <4> QED
        BY <3>1, <4>1
    <3>3. CASE o # "joined"
      BY <2>4, <2>5, <3>1, <3>3
    <3> QED
      BY <3>2, <3>3
  <2> QED
    BY <1>3, <2>1, <2>10, <2>11
<1>14. ASSUME NEW k \in Message, NEW o \in Outcome, Hears(k, o)
       PROVE  Well
  <2> DEFINE c == AnswerOf(k, o)
  <2>1. /\ mailbox # <<>> /\ Head(mailbox) = c /\ mailbox' = Tail(mailbox) /\ UNCHANGED <<took, offered, awaited>>
        /\ inflight' = [inflight EXCEPT ![k] = "no"] /\ Settled(k, o)
        /\ turn'.phase = turn.phase \/ \A m \in Message : inflight'[m] = "no"
    BY <1>14 DEF Hears
  <2>2. \A T : /\ Has(mailbox, T) <=> (Has(mailbox', T) \/ c \in T)
               /\ AtMostOne(mailbox, T) => AtMostOne(mailbox', T) /\ ~(Has(mailbox', T) /\ c \in T)
    BY <1>3, <2>1, TailHas
  <2>3. TookIds' = TookIds
    BY <2>1 DEF TookIds
  <2>4. c \in AnswersTo(k) /\ c.id = k /\ c.outcome = o
    BY <1>6 DEF AnswerOf
  <2>5. \A m \in Message : m # k => c \notin AnswersTo(m) /\ c \notin Refusals(m) /\ c # AnswerOf(m, "joined")
    BY <1>6, <1>7, <2>4
  <2>6. AnswerOf(k, "joined").outcome = "joined"
    BY DEF AnswerOf
  <2> HIDE DEF c
  <2>7. ASSUME NEW m \in Message, m # k
        PROVE  Fine(m)
    <3>1. /\ Has(mailbox', AnswersTo(m)) <=> Has(mailbox, AnswersTo(m))
          /\ AtMostOne(mailbox, AnswersTo(m)) => AtMostOne(mailbox', AnswersTo(m))
          /\ Has(mailbox', Refusals(m)) <=> Has(mailbox, Refusals(m))
          /\ Has(mailbox', {AnswerOf(m, "joined")}) <=> Has(mailbox, {AnswerOf(m, "joined")})
      BY <2>2, <2>5, <2>7
    <3>2. inflight'[m] = inflight[m]
      BY <1>3, <2>1, <2>7
    <3>3. inflight'[m] # "no" => turn'.phase = "running"
      BY <1>4, <2>1, <3>2
    <3>4. m \in W2 /\ m \in TookIds => m \in W
      BY <1>5
    <3> QED
      BY <1>4, <2>1, <2>3, <3>1, <3>2, <3>3, <3>4
  <2>8. Fine(k)
    <3>1. AtMostOne(mailbox', AnswersTo(k)) /\ ~Has(mailbox', AnswersTo(k)) /\ inflight'[k] = "no"
      BY <1>3, <1>4, <2>1, <2>2, <2>4
    <3>2. k \notin awaited'
      BY <1>4, <2>1, <2>2, <2>4
    <3>3. ~Has(mailbox', Refusals(k))
      BY <1>6, <3>1 DEF Has
    <3>4. ASSUME k \in W2, k \in TookIds
          PROVE  FALSE
      <4>1. k \in W
        BY <1>5, <3>4
      <4>2. Has(mailbox, {AnswerOf(k, "joined")}) /\ inflight[k] # "no"
        BY <1>4, <1>9, <3>4, <4>1
      <4>3. ~Has(mailbox', {AnswerOf(k, "joined")})
        BY <1>6, <1>7, <3>1 DEF Has
      <4>4. c = AnswerOf(k, "joined")
        BY <2>2, <4>2, <4>3
      <4>5. o = "joined"
        BY <2>4, <2>6, <4>4
      <4>6. Queued(queue, k) /\ InFlight(k)
        BY <4>1, <4>2 DEF W, WaitingIn, InFlight
      <4>7. queue' = Without(queue, k)
        BY <2>1, <4>5, <4>6 DEF Settled
      <4>8. WaitingIn(Without(queue, k)) = WaitingIn(queue) \ {k}
        BY <1>3, <4>6, WithoutIs DEF OnceInLine
      <4> QED
        BY <3>4, <4>7, <4>8 DEF W2
    <3> QED
      BY <2>3, <3>1, <3>2, <3>3, <3>4
  <2> QED
    BY <1>3, <2>1, <2>7, <2>8
<1>15. CASE Forgets
  <2>1. mailbox' = <<>> /\ awaited' = {} /\ offered' = {} /\ \A m \in Message : inflight'[m] = "no"
    BY <1>15 DEF Forgets
  <2>2. W2 = {}
    BY <1>15, NoneWait DEF Forgets, W2
  <2> QED
    BY <2>1, <2>2, EmptyHas
<1> QED
  BY <1>2, <1>10, <1>11, <1>12, <1>13, <1>14, <1>15 DEF AgentGoes

\* Where the messages the agent has been given, and is about to be given, come from.
LEMMA TookGoes ==
  ASSUME Typed, Steers, AnswersLost = FALSE, [Next]_vars
  PROVE  \/ took' = took /\ TookIds' = TookIds
         \/ Prompts /\ TookIds' = TookIds \cup Opening /\ Opening' = {}
         \/ \E k \in Message : /\ took' = Append(took, [id |-> k, turn |-> turn.number, joined |-> TRUE])
                               /\ [id |-> k, turn |-> turn.number, joined |-> TRUE] \in ATook
                               /\ k \in awaited /\ k \notin TookIds /\ InFlight(k)
                               /\ turn.phase = "running" /\ turn' = turn /\ Opening' = {}
                               /\ TookIds' = TookIds \cup {k}
<1>1. CASE took' = took
  BY <1>1 DEF TookIds
<1>2. CASE Prompts
  BY <1>2, TookPrompted
<1>3. ASSUME NEW k \in Message, NEW o \in Outcome, Says(k, o), took' # took
      PROVE  /\ took' = Append(took, [id |-> k, turn |-> turn.number, joined |-> TRUE])
             /\ [id |-> k, turn |-> turn.number, joined |-> TRUE] \in ATook
             /\ k \in awaited /\ k \notin TookIds /\ InFlight(k)
             /\ turn.phase = "running" /\ turn' = turn /\ Opening' = {}
             /\ TookIds' = TookIds \cup {k}
  <2> DEFINE r == [id |-> k, turn |-> turn.number, joined |-> TRUE]
  <2>1. r \in ATook /\ r.id = k
    BY DEF Typed, TypedActor, ATurn, ATook
  <2>2. took' = Append(took, r) /\ k \in awaited /\ turn' = turn
    BY <1>3 DEF Says
  <2>3. k \notin TookIds /\ InFlight(k) /\ turn.phase = "running"
    BY <2>2 DEF Steers
  <2> HIDE DEF r
  <2>4. TookIds' = TookIds \cup {k}
    BY <2>1, <2>2, TookAppend DEF Typed, TypedHistory
  <2>5. Opening' = {}
    BY <2>2, <2>3 DEF Opening
  <2> QED
    BY <2>1, <2>2, <2>3, <2>4, <2>5 DEF r
<1>4. AgentGoes
  BY AgentSteps
<1>5. \/ took' = took \/ Prompts \/ \E k \in Message, o \in Outcome : Says(k, o)
  BY <1>4 DEF AgentGoes, Still, Forgets, Offers, Hears
<1> QED
  BY <1>1, <1>2, <1>3, <1>5

LEMMA OpensFrom ==
  ASSUME Typed, OnceInLine, [Next]_vars
  PROVE  \/ Opening' = {}
         \/ turn' = turn /\ Opening' = Opening
         \/ /\ StartUserTurn /\ turn.phase = "idle" /\ Opening' \subseteq WaitingIn(queue) /\ Opening' \cap WaitingIn(queue') = {}
            /\ \A i, j \in 1..Len(turn'.batch) : turn'.batch[i] = turn'.batch[j] => i = j
<1>1. CASE turn' = turn
  BY <1>1 DEF Opening
<1>2. CASE turn'.phase # "starting" \/ turn'.batch = <<>>
  BY <1>2 DEF Opening
<1>3. CASE StartUserTurn
  <2>1. queue \in Seq(AnItem) /\ entry \in [Message -> AnEntry] /\ Len(queue) \in Nat
    BY DEF Typed, TypedActor, TypedChat
  <2>2. PICK k \in 1..Len(queue) :
           /\ queue' = AfterFirst(k) /\ k \in Nat /\ \A i \in 1..k : queue[i].kind = "user"
           /\ turn' = [phase |-> "starting", number |-> entry[queue[k].id].turn, user |-> TRUE,
                       batch |-> [i \in 1..k |-> queue[i].id], stop |-> FALSE]
           /\ [i \in 1..k |-> queue[i].id] \in Seq(Message)
           /\ \A m \in Message : (\A i \in 1..k : queue[i].id # m) => entry'[m] = entry[m]
    BY <1>3, <2>1, StartIs
  <2>3. \A i \in 1..k : i \in 1..Len(queue) /\ queue[i] = UserItem(queue[i].id) /\ queue[i].id \in Message
    BY <2>1, <2>2, UserAt
  <2> DEFINE b == [i \in 1..k |-> queue[i].id]
  <2>4. turn'.batch = b /\ turn'.phase = "starting"
    BY <2>2
  <2>5. Len(b) = k /\ \A i \in 1..k : b[i] = queue[i].id
    BY <2>2
  <2> HIDE DEF b
  <2>6. Opening' = {b[i] : i \in 1..k}
    BY <2>4, <2>5 DEF Opening
  <2>7. Starts(k)
    <3>1. \A m \in Message : (\A i \in 1..k : queue[i] # UserItem(m)) => entry'[m] = entry[m]
      BY <2>2, <2>3
    <3> QED
      BY <1>3, <2>2, <3>1 DEF StartUserTurn, Starts
  <2>8. \A m \in Message, i \in 1..k : queue[i] = UserItem(m) => m \notin WaitingIn(queue') /\ m \in WaitingIn(queue)
    BY <2>7, StartsSets
  <2>9. \A i \in 1..k : b[i] \notin WaitingIn(queue') /\ b[i] \in WaitingIn(queue)
    BY <2>3, <2>5, <2>8
  <2>10. ASSUME NEW i \in 1..k, NEW j \in 1..k, b[i] = b[j]
         PROVE  i = j
    <3>1. queue[i] = queue[j] /\ queue[i] \in {UserItem(b[i])} /\ b[i] \in Message
      BY <2>3, <2>5, <2>10
    <3> QED
      BY <2>3, <3>1 DEF OnceInLine, AtMostOne
  <2>11. turn.phase = "idle"
    BY <1>3 DEF StartUserTurn
  <2>12. \A i, j \in 1..Len(turn'.batch) : turn'.batch[i] = turn'.batch[j] => i = j
    BY <2>4, <2>5, <2>10
  <2> QED
    BY <1>3, <2>6, <2>9, <2>11, <2>12
<1> QED
  BY <1>1, <1>2, <1>3, OpeningGoes

LEMMA ApartStep ==
  ASSUME Typed, SteeredKnown, OnceInLine, Apart, Steers, AnswersLost = FALSE, [Next]_vars
  PROVE  Apart'
<1> DEFINE W == WaitingIn(queue)
           W2 == WaitingIn(queue')
<1>1. /\ turn.phase = "starting" => \A i, j \in 1..Len(turn.batch) : turn.batch[i] = turn.batch[j] => i = j
      /\ Opening \cap (W \cup TookIds) = {}
      /\ (Opening \cup TookIds) \cap Fresh = {}
      /\ \A m \in Message : inflight[m] # "no" => m \notin Fresh
  BY DEF Apart, InFlight
<1>2. Fresh' \subseteq Fresh /\ W2 \subseteq W \cup Fresh
  BY FreshGoes
<1>3. W \cap Fresh = {}
  BY FreshApart
<1>4. W \cap TookIds # {} => turn.phase = "running"
  <2>1. "joined" \in Outcome
    BY DEF Outcome
  <2>2. \A m \in Message : Has(mailbox, {AnswerOf(m, "joined")}) => Has(mailbox, AnswersTo(m))
    BY <2>1 DEF Has, AnswersTo
  <2>3. \A m \in W : m \in Message
    BY DEF WaitingIn
  <2> QED
    BY <2>2, <2>3 DEF Steers
<1>5. /\ TookIds' \subseteq TookIds \cup Opening \cup {m \in Message : inflight[m] # "no"}
      /\ TookIds' = TookIds \/ Opening' = {}
  BY TookGoes DEF InFlight
<1>6. /\ Opening' \subseteq Opening \cup W
      /\ Opening' # {} => \/ turn' = turn /\ Opening' = Opening
                          \/ /\ turn.phase = "idle" /\ Opening' \subseteq W /\ Opening' \cap W2 = {}
                             /\ \A i, j \in 1..Len(turn'.batch) : turn'.batch[i] = turn'.batch[j] => i = j
  BY OpensFrom
<1>7. \A m \in Message : inflight'[m] # "no" => inflight[m] # "no" \/ m \in W
  <2>1. inflight \in [Message -> {"no", "yes", "back"}]
    BY DEF Typed, TypedActor
  <2>2. AgentGoes
    BY AgentSteps
  <2>3. CASE Still \/ Prompts \/ Forgets
    BY <2>3 DEF Still, SameInFlight, Prompts, Forgets
  <2>4. ASSUME NEW k \in Message, Offers(k)
        PROVE  \A m \in Message : inflight'[m] # "no" => inflight[m] # "no" \/ m \in W
    BY <2>1, <2>4 DEF Offers
  <2>5. ASSUME NEW k \in Message, NEW o \in Outcome, Says(k, o) \/ Hears(k, o)
        PROVE  \A m \in Message : inflight'[m] # "no" => inflight[m] # "no" \/ m \in W
    BY <2>1, <2>5 DEF Says, Hears
  <2> QED
    BY <2>2, <2>3, <2>4, <2>5 DEF AgentGoes
<1>8. \A m \in Opening' \cup TookIds' : m \notin Fresh'
  BY <1>1, <1>2, <1>3, <1>5, <1>6
<1>9. \A m \in Message : inflight'[m] # "no" => m \notin Fresh'
  BY <1>1, <1>2, <1>3, <1>7
<1>10. Opening' \cap (W2 \cup TookIds') = {}
  BY <1>1, <1>2, <1>4, <1>5, <1>6
<1>11. turn'.phase = "starting" => \A i, j \in 1..Len(turn'.batch) : turn'.batch[i] = turn'.batch[j] => i = j
  <2>1. CASE Opening' = {}
    BY <2>1 DEF Opening
  <2> QED
    BY <1>1, <1>6, <2>1
<1> QED
  BY <1>8, <1>9, <1>10, <1>11 DEF Apart, InFlight

LEMMA HandedStep ==
  ASSUME Typed, Apart, Steers, HandedOnce, AnswersLost = FALSE, [Next]_vars
  PROVE  HandedOnce'
<1> DEFINE Once(t) == \A i, j \in 1..Len(t) : t[i].id = t[j].id => i = j
<1>1. Once(took) /\ Len(took) \in Nat /\ \A i \in 1..Len(took) : took[i].id \in TookIds
  BY TookTypes DEF HandedOnce
<1>2. SUFFICES Once(took')
  BY DEF HandedOnce
<1>3. CASE Prompts
  <2> DEFINE n == Len(took)
             b == turn.batch
  <2>1. /\ Len(b) \in Nat /\ Len(took') = n + Len(b) /\ \A i \in 1..n : took'[i] = took[i]
        /\ \A i \in 1..Len(b) : took'[n + i] = [id |-> b[i], turn |-> turn.number, joined |-> FALSE]
    BY <1>3, TookPrompted
  <2>2. \A i \in 1..Len(b) : b[i] \notin TookIds
    BY <1>3 DEF Apart, Opening, Prompts
  <2>3. \A i, j \in 1..Len(b) : b[i] = b[j] => i = j
    BY <1>3 DEF Apart, Prompts
  <2>4. ASSUME NEW j \in 1..Len(took'), ~(j <= n)
        PROVE  j - n \in 1..Len(b) /\ took'[j].id = b[j - n]
    <3>1. j - n \in 1..Len(b) /\ j = n + (j - n)
      BY <1>1, <2>1, <2>4
    <3>2. took'[n + (j - n)] = [id |-> b[j - n], turn |-> turn.number, joined |-> FALSE]
      BY <2>1, <3>1
    <3> QED
      BY <3>1, <3>2
  <2>5. \A j \in 1..Len(took') : j <= n => j \in 1..n /\ took'[j].id = took[j].id /\ took[j].id \in TookIds
    BY <1>1, <2>1
  <2> HIDE DEF n, b
  <2>6. ASSUME NEW i \in 1..Len(took'), NEW j \in 1..Len(took'), took'[i].id = took'[j].id
        PROVE  i = j
    <3>1. CASE i <= n /\ j <= n
      BY <1>1, <2>5, <2>6, <3>1 DEF n
    <3>2. CASE i <= n /\ ~(j <= n)
      BY <2>2, <2>4, <2>5, <2>6, <3>2
    <3>3. CASE ~(i <= n) /\ j <= n
      BY <2>2, <2>4, <2>5, <2>6, <3>3
    <3>4. CASE ~(i <= n) /\ ~(j <= n)
      <4>1. i - n = j - n
        BY <2>3, <2>4, <2>6, <3>4
      <4> QED
        BY <1>1, <2>1, <4>1 DEF n
    <3> QED
      BY <3>1, <3>2, <3>3, <3>4
  <2> QED
    BY <2>6
<1>4. ASSUME NEW k \in Message, [id |-> k, turn |-> turn.number, joined |-> TRUE] \in ATook, k \notin TookIds,
             took' = Append(took, [id |-> k, turn |-> turn.number, joined |-> TRUE])
      PROVE  Once(took')
  <2> DEFINE r == [id |-> k, turn |-> turn.number, joined |-> TRUE]
  <2>1. r \in ATook /\ took' = Append(took, r) /\ r.id = k /\ took \in Seq(ATook)
    BY <1>4 DEF Typed, TypedHistory
  <2> HIDE DEF r
  <2>2. /\ Len(took') = Len(took) + 1 /\ \A i \in 1..Len(took) : took'[i] = took[i]
        /\ took'[Len(took) + 1] = r
    BY <2>1, TookAppend
  <2>3. \A i \in 1..Len(took') : i \in 1..Len(took) \/ i = Len(took) + 1
    BY <1>1, <2>2
  <2> QED
    BY <1>1, <1>4, <2>1, <2>2, <2>3
<1>5. CASE took' = took
  BY <1>1, <1>5
<1> QED
  BY <1>3, <1>4, <1>5, TookGoes

\* A message is taken back when it waits and the agent does not have it, or gave it back.
LEMMA RemovedGoes ==
  ASSUME Typed, OnceInLine, SteeredKnown, [Next]_vars, NEW m \in Message, entry'[m].removed, ~entry[m].removed
  PROVE  /\ m \in WaitingIn(queue) /\ HandleCommand /\ queue' = Without(queue, m)
         /\ UNCHANGED <<took, awaited>>
         /\ ~InFlight(m) \/ Has(mailbox, Refusals(m))
<1>1. entry \in [Message -> AnEntry] /\ mailbox \in Seq(ACommand) /\ turn.number \in Nat
  BY DEF Typed, TypedChat, TypedActor, ATurn
<1>2. CASE entry' = entry
  BY <1>2
<1>3. ASSUME NEW s \in Sender, PostSaves(s)
      PROVE  FALSE
  <2>1. /\ entry'[posted + 1] = [status |-> "queued", turn |-> sending[s].n, removed |-> FALSE]
        /\ \A k \in Message \ {posted + 1} : entry'[k] = entry[k]
    BY <1>3, SavesSets
  <2>2. entry'[posted + 1].removed = FALSE
    BY <2>1
  <2> QED
    BY <2>1, <2>2
<1>4. CASE StartUserTurn
  BY <1>1, <1>4, StartIs DEF Typed, TypedActor
<1>5. ASSUME NEW resume \in BOOLEAN, Restart(resume)
      PROVE  FALSE
  BY <1>1, <1>5, RestartedIs DEF Restart
<1>6. CASE HandleCommand
  <2> DEFINE c == Head(mailbox)
  <2>1. \/ c.cmd = "queue" /\ OnQueue(c.item)
        \/ c.cmd = "steer" /\ OnSteer(c.id)
        \/ c.cmd = "unqueue" /\ OnUnqueue(c.id)
        \/ c.cmd = "steered" /\ OnSteered(c.id, c.outcome)
        \/ c.cmd = "stop" /\ OnStop
    BY <1>6 DEF HandleCommand
  <2>2. /\ c.cmd \in {"steer", "unqueue", "steered"} => c.id \in Message
        /\ c.cmd = "steered" => c.outcome \in Outcome /\ c = [cmd |-> "steered", id |-> c.id, outcome |-> c.outcome]
        /\ mailbox # <<>> /\ mailbox' = Tail(mailbox) /\ took' = took
    <3>1. c \in ACommand /\ mailbox # <<>> /\ mailbox' = Tail(mailbox) /\ took' = took
      BY <1>1, <1>6, TailHas DEF HandleCommand
    <3> QED
      BY <3>1, CommandIs
  <2>3. ASSUME NEW k \in Message, entry' = Cancelled({k}, TRUE)
        PROVE  k = m
    <3>1. \A j \in Message : j \notin {k} => Cancelled({k}, TRUE)[j] = entry[j]
      BY <1>1, CancelledIs
    <3> QED
      BY <2>3, <3>1
  <2>4. Moved(c.id) /\ c.id \in Message => FALSE
    BY MovedIs
  <2> HIDE DEF c
  <2>5. CASE c.cmd = "queue" /\ OnQueue(c.item)
    BY <1>2, <2>5 DEF OnQueue
  <2>6. CASE c.cmd = "steer" /\ OnSteer(c.id)
    <3>1. UNCHANGED <<queue, entry>> \/ Moved(c.id)
      BY <2>6 DEF OnSteer, Moved, actorVars
    <3> QED
      BY <1>2, <2>2, <2>4, <2>6, <3>1
  <2>7. CASE c.cmd = "stop" /\ OnStop
    <3>1. /\ \A j \in Message : j \notin WaitingIn(queue) => Cancelled(WaitingIn(queue), FALSE)[j] = entry[j]
          /\ \A j \in Message : j \in WaitingIn(queue) => Cancelled(WaitingIn(queue), FALSE)[j].removed = FALSE
      BY <1>1, CancelledIs
    <3>2. entry' = Cancelled(WaitingIn(queue), FALSE)
      BY <2>7 DEF OnStop
    <3> QED
      BY <3>1, <3>2
  <2>8. CASE c.cmd = "unqueue" /\ OnUnqueue(c.id)
    <3>1. /\ entry' = entry \/ (/\ ~InFlight(c.id) /\ Queued(queue, c.id) /\ queue' = Without(queue, c.id)
                                /\ entry' = Cancelled({c.id}, TRUE))
          /\ awaited' = awaited /\ c.id \in Message
      BY <2>2, <2>8 DEF OnUnqueue, WithAgent
    <3>2. CASE entry' = Cancelled({c.id}, TRUE) /\ ~InFlight(c.id) /\ Queued(queue, c.id) /\ queue' = Without(queue, c.id)
      <4>1. c.id = m
        BY <2>3, <3>1, <3>2
      <4> QED
        BY <1>6, <2>2, <3>1, <3>2, <4>1 DEF WaitingIn
    <3> QED
      BY <1>2, <3>1, <3>2
  <2>9. CASE c.cmd = "steered" /\ OnSteered(c.id, c.outcome)
    <3>1. /\ c.id \in Message /\ Settled(c.id, c.outcome) /\ awaited' = awaited /\ steered' = steered
          /\ c = AnswerOf(c.id, c.outcome) /\ c.outcome \in Outcome
      BY <2>2, <2>9 DEF OnSteered, AnswerOf
    <3>2. CASE entry' = Cancelled({c.id}, TRUE) /\ Queued(queue, c.id) /\ queue' = Without(queue, c.id) /\ c.outcome # "joined"
      <4>1. c.id = m
        BY <2>3, <3>1, <3>2
      <4>2. c \in Refusals(m)
        BY <3>1, <3>2, <4>1 DEF Refusals, Outcome
      <4>3. Has(mailbox, Refusals(m))
        BY <1>1, <2>2, <4>2, TailHas DEF c
      <4> QED
        BY <1>6, <2>2, <3>1, <3>2, <4>1, <4>3 DEF WaitingIn
    <3>3. CASE entry' = Joined(c.id)
      <4>1. entry'[m].removed = entry[m].removed
        BY <1>1, <3>1, <3>3, JoinedIs
      <4> QED
        BY <4>1
    <3>4. CASE inflight[c.id] = "yes" /\ Queued(queue, c.id) /\ queue' = MoveFirst(queue, c.id) /\ entry' = Renumbered(queue')
      <4>1. Moved(c.id)
        BY <3>1, <3>4 DEF Moved, SteeredKnown, InFlight
      <4> QED
        BY <2>4, <3>1, <4>1
    <3> QED
      BY <1>2, <3>1, <3>2, <3>3, <3>4 DEF Settled
  <2> QED
    BY <2>1, <2>5, <2>6, <2>7, <2>8, <2>9
<1>7. ASSUME NEW s \in Sender, PostReads(s) \/ Send(s)
      PROVE  FALSE
  BY <1>2, <1>7 DEF PostReads, Send
<1>8. CASE \/ \E kind \in Other : OtherArrives(kind)
           \/ \E k \in Message : Touch("steer", k) \/ Touch("unqueue", k)
           \/ Stop
  BY <1>2, <1>8 DEF OtherArrives, Touch, Stop, chatVars
<1>9. CASE StartOtherTurn \/ Prompted \/ StartFails \/ TakeDone
  BY <1>2, <1>9 DEF StartOtherTurn, Prompted, StartFails, TakeDone, chatVars
<1>10. CASE AgentStep \/ KillAgent
  BY <1>2, <1>10, AgentKeeps DEF Kept
<1>11. CASE UNCHANGED vars
  BY <1>2, <1>11 DEF vars
<1> QED
  BY <1>3, <1>4, <1>5, <1>6, <1>7, <1>8, <1>9, <1>10, <1>11 DEF Next

LEMMA LineGrows ==
  ASSUME Typed, SteeredKnown, OnceInLine, [Next]_vars, NEW m \in Line', m \notin Line
  PROVE  /\ m \in Message /\ m = posted + 1 /\ ~entry'[m].removed
         /\ \E s \in Sender : PostSaves(s)
<1>1. Line = WaitingIn(queue) \cup MailedIn(mailbox) \cup Saved
  BY DEF Line
<1>2. m \in WaitingIn(queue') \cup MailedIn(mailbox') \cup Saved'
  BY DEF Line
<1>3. CASE Kept
  BY <1>1, <1>2, <1>3, KeptSets
<1>4. ASSUME NEW s \in Sender, PostSaves(s)
      PROVE  m \in Message /\ m = posted + 1 /\ ~entry'[m].removed
  <2>1. /\ WaitingIn(queue') = WaitingIn(queue) /\ MailedIn(mailbox') = MailedIn(mailbox)
        /\ Saved' = Saved \cup {posted + 1} /\ posted + 1 \in Message
        /\ entry'[posted + 1] = [status |-> "queued", turn |-> sending[s].n, removed |-> FALSE]
    BY <1>4, SavesSets
  <2>2. m = posted + 1
    BY <1>1, <1>2, <2>1
  <2> QED
    BY <2>1, <2>2
<1>5. ASSUME NEW s \in Sender, Send(s)
      PROVE  FALSE
  BY <1>1, <1>2, <1>5, SendSets
<1>6. CASE Handles
  <2>1. Saved' = Saved /\ MailedIn(mailbox') \subseteq MailedIn(mailbox) /\ WaitingIn(queue') \subseteq WaitingIn(queue) \cup MailedIn(mailbox)
    BY <1>6, HandlesSets
  <2> QED
    BY <1>1, <1>2, <2>1
<1>7. ASSUME NEW k \in 1..Len(queue), Starts(k)
      PROVE  FALSE
  BY <1>1, <1>2, <1>7, StartsSets
<1>8. CASE Emptied
  BY <1>8, EmptiedSets
<1> QED
  BY <1>3, <1>4, <1>5, <1>6, <1>7, <1>8, LineSteps DEF LineGoes

LEMMA RemovedStep ==
  ASSUME Typed, SteeredKnown, OnceInLine, Apart, Steers, Removed, AnswersLost = FALSE, [Next]_vars
  PROVE  Removed'
<1> SUFFICES ASSUME NEW m \in Message, entry'[m].removed
             PROVE  m \notin Line' /\ m \notin Opening' /\ m \notin awaited' /\ m \notin TookIds'
  BY DEF Removed
<1>1. /\ Opening' \subseteq Opening \cup WaitingIn(queue)
      /\ Opening' # {} => turn' = turn \/ turn.phase = "idle"
  BY OpensFrom
<1>2. TookIds' \subseteq TookIds \cup Opening \cup awaited
  BY TookGoes
<1>3. awaited' \subseteq awaited \cup WaitingIn(queue)
  BY AgentSteps DEF AgentGoes, Still, Prompts, Forgets, Offers, Says, Hears
<1>4. CASE entry[m].removed
  <2>1. m \notin Line \cup Opening \cup awaited \cup TookIds /\ m \notin WaitingIn(queue)
    BY <1>4 DEF Removed, Line
  <2>2. m \notin Line'
    BY <2>1, LineGrows
  <2> QED
    BY <1>1, <1>2, <1>3, <2>1, <2>2
<1>5. CASE ~entry[m].removed
  <2>1. /\ m \in WaitingIn(queue) /\ HandleCommand /\ queue' = Without(queue, m)
        /\ UNCHANGED <<took, awaited>>
        /\ ~InFlight(m) \/ Has(mailbox, Refusals(m))
    BY <1>5, RemovedGoes
  <2>2. m \notin TookIds /\ m \notin awaited
    <3>1. "joined" \in Outcome /\ Refusals(m) \subseteq AnswersTo(m)
      BY AnswersTyped DEF Outcome
    <3>2. Has(mailbox, {AnswerOf(m, "joined")}) => Has(mailbox, AnswersTo(m))
      BY <3>1 DEF Has, AnswersTo
    <3>3. Has(mailbox, Refusals(m)) => Has(mailbox, AnswersTo(m))
      BY <3>1 DEF Has
    <3> QED
      BY <2>1, <3>2, <3>3 DEF Steers
  <2>3. TookIds' = TookIds
    BY <2>1 DEF TookIds
  <2>4. m \notin Opening'
    <3>1. turn.phase # "starting"
      BY <2>1 DEF HandleCommand, AtSelect
    <3>2. ~StartUserTurn
      BY <2>1 DEF HandleCommand, AtSelect, StartUserTurn
    <3>3. Opening' = {}
      BY <3>1, <3>2, OpensFrom DEF Opening
    <3> QED
      BY <3>3
  <2>5. m \notin Line'
    <3>1. WaitingIn(queue') = WaitingIn(queue) \ {m}
      <4>1. Queued(queue, m) /\ queue \in Seq(AnItem) /\ AtMostOne(queue, {UserItem(m)})
        BY <2>1 DEF WaitingIn, Typed, TypedActor, OnceInLine
      <4> QED
        BY <2>1, <4>1, WithoutIs
    <3>2. MailedIn(mailbox') \cup Saved' \subseteq MailedIn(mailbox) \cup Saved
      <4>1. Handles
        BY <2>1, HandlesLine
      <4> QED
        BY <4>1, HandlesSets
    <3>3. m \notin MailedIn(mailbox) \cup Saved
      BY <2>1 DEF OnceInLine
    <3> QED
      BY <3>1, <3>2, <3>3 DEF Line
  <2> QED
    BY <2>1, <2>2, <2>3, <2>4, <2>5
<1> QED
  BY <1>4, <1>5

-----------------------------------------------------------------------------

Handed == Known /\ Apart /\ Steers /\ Removed /\ HandedOnce

LEMMA HandedAlways ==
  ASSUME AnswersLost = FALSE
  PROVE  Spec => []Handed
<1>1. Init => Handed
  <2>1. SUFFICES ASSUME Init PROVE Handed
    OBVIOUS
  <2>2. Known
    BY <2>1, StartsWell DEF Known
  <2>3. took = <<>> /\ mailbox = <<>> /\ turn.phase = "idle" /\ offered = {} /\ awaited = {}
    BY <2>1 DEF Init, Idle
  <2>4. TookIds = {} /\ Opening = {} /\ HandedOnce
    BY <2>3 DEF TookIds, Opening, HandedOnce
  <2>5. \A m \in Message : ~InFlight(m) /\ entry[m].removed = FALSE
    BY <2>1 DEF Init, InFlight
  <2> QED
    BY <2>2, <2>3, <2>4, <2>5, EmptyHas DEF Handed, Apart, Steers, Removed
<1>2. Handed /\ [Next]_vars => Handed'
  <2>1. Known /\ [Next]_vars => Known'
    BY TypedStep, OnceStep, KnownStep DEF Known
  <2> QED
    BY <2>1, ApartStep, SteersStep, RemovedStep, HandedStep DEF Handed, Known
<1> QED
  BY <1>1, <1>2, PTL DEF Spec

\* A message is given to the agent at most once, however it was steered, taken back,
\* stopped or cut off by a restart, as long as every answer to a steer comes in time.
THEOREM HandedOnceAlways ==
  ASSUME AnswersLost = FALSE
  PROVE  Spec => []HandedOnce
<1>1. Handed => HandedOnce
  BY DEF Handed
<1> QED
  BY <1>1, HandedAlways, PTL

\* A message the chat no longer shows was never given to the agent, as long as every
\* answer to a steer comes in time.
THEOREM RemovedNeverOutAlways ==
  ASSUME AnswersLost = FALSE
  PROVE  Spec => []RemovedNeverOut
<1>1. Handed => RemovedNeverOut
  BY DEF Handed, Removed, RemovedNeverOut
<1> QED
  BY <1>1, HandedAlways, PTL

-----------------------------------------------------------------------------
(* The order along the way to a turn, of any key of the messages outside X, *)
(* when one client posts.                                                   *)

OneClient == \A s, t \in Sender : s = t
Before(S, T, key, X) == \A a \in S \ X, b \in T \ X : key[a] < key[b]
Rises(q, box, saved, key, X) ==
  /\ Rising(q, key, X) /\ MailRises(box, key, X)
  /\ Before(WaitingIn(q), MailedIn(box), key, X) /\ Before(WaitingIn(q) \cup MailedIn(box), saved, key, X)

LEMMA RisesFewer ==
  ASSUME NEW q, NEW box, NEW saved, NEW key, NEW X, NEW Y, X \subseteq Y, Rises(q, box, saved, key, X)
  PROVE  Rises(q, box, saved, key, Y)
<1>1. Rising(q, key, Y) /\ MailRises(box, key, Y)
  BY DEF Rises, Rising, MailRises
<1>2. \A S, T : Before(S, T, key, X) => Before(S, T, key, Y)
  BY DEF Before
<1> QED
  BY <1>1, <1>2 DEF Rises

LEMMA RisesRekeyed ==
  ASSUME NEW q \in Seq(AnItem), NEW box \in Seq(ACommand), NEW saved \in SUBSET Message, NEW key, NEW X, NEW other,
         Rises(q, box, saved, key, X),
         \A m \in WaitingIn(q) \cup MailedIn(box) \cup saved : other[m] = key[m]
  PROVE  Rises(q, box, saved, other, X)
<1>1. Rising(q, other, X)
  <2>1. \A i \in 1..Len(q) : q[i].kind = "user" => q[i].id \in WaitingIn(q)
    BY UserAt
  <2> QED
    BY <2>1 DEF Rises, Rising
<1>2. MailRises(box, other, X)
  <2>1. \A i \in 1..Len(box) : IsPost(box[i]) => box[i].item.id \in MailedIn(box)
    BY PostAt
  <2> QED
    BY <2>1 DEF Rises, MailRises
<1> QED
  BY <1>1, <1>2 DEF Rises, Before

\* Along a step, when the message posted now has a higher key than those on the way,
\* and those that go first in the queue do not count.
LEMMA RisesStep ==
  ASSUME Typed, SteeredKnown, OnceInLine, OneClient, [Next]_vars, NEW key, NEW X,
         Rises(queue, mailbox, Saved, key, X),
         \A s \in Sender : PostSaves(s) => \A m \in Line \ X : key[m] < key[posted + 1],
         \A m \in Message : Handles /\ Moved(m) => m \in X
  PROVE  Rises(queue', mailbox', Saved', key, X)
<1> DEFINE W == WaitingIn(queue)
           M == MailedIn(mailbox)
<1>1. /\ Rising(queue, key, X) /\ MailRises(mailbox, key, X)
      /\ \A a \in W \ X, b \in M \ X : key[a] < key[b]
      /\ \A a \in (W \cup M) \ X, b \in Saved \ X : key[a] < key[b]
  BY DEF Rises, Before
<1>2. queue \in Seq(AnItem) /\ mailbox \in Seq(ACommand) /\ \A m \in Message : AtMostOne(queue, {UserItem(m)}) /\ AtMostOne(mailbox, {UserCmd(m)})
  BY DEF Typed, TypedActor, OnceInLine
<1>3. Line = W \cup M \cup Saved
  BY DEF Line
<1>4. SUFFICES /\ Rising(queue', key, X) /\ MailRises(mailbox', key, X)
               /\ \A a \in WaitingIn(queue') \ X, b \in MailedIn(mailbox') \ X : key[a] < key[b]
               /\ \A a \in (WaitingIn(queue') \cup MailedIn(mailbox')) \ X, b \in Saved' \ X : key[a] < key[b]
  BY DEF Rises, Before
<1> DEFINE Fine == /\ Rising(queue', key, X) /\ MailRises(mailbox', key, X)
                   /\ \A a \in WaitingIn(queue') \ X, b \in MailedIn(mailbox') \ X : key[a] < key[b]
                   /\ \A a \in (WaitingIn(queue') \cup MailedIn(mailbox')) \ X, b \in Saved' \ X : key[a] < key[b]
<1> HIDE DEF W, M
<1>5. CASE Kept
  <2>1. WaitingIn(queue') = W /\ MailedIn(mailbox') = M /\ Saved' = Saved /\ queue' = queue
    BY <1>5, KeptSets DEF Kept, W, M
  <2>2. MailRises(mailbox', key, X)
    BY <1>1, <1>2, <1>5, MailAppendRises DEF Kept, MailSame
  <2> QED
    BY <1>1, <2>1, <2>2
<1>6. ASSUME NEW s \in Sender, PostSaves(s)
      PROVE  Fine
  <2>1. WaitingIn(queue') = W /\ MailedIn(mailbox') = M /\ Saved' = Saved \cup {posted + 1}
    BY <1>6, SavesSets DEF W, M
  <2>2. UNCHANGED <<queue, mailbox>>
    BY <1>6 DEF PostSaves, actorVars
  <2>3. \A m \in (W \cup M) \ X : key[m] < key[posted + 1]
    BY <1>3, <1>6
  <2> QED
    BY <1>1, <2>1, <2>2, <2>3
<1>7. ASSUME NEW s \in Sender, Send(s)
      PROVE  Fine
  <2> DEFINE n == sending[s].n
  <2>1. /\ n \in Saved /\ n \in Message
        /\ WaitingIn(queue') = W /\ MailedIn(mailbox') = M \cup {n}
        /\ Saved' = Saved \ {n} /\ mailbox' = Append(mailbox, UserCmd(n))
    BY <1>7, SendSets DEF W, M
  <2>2. queue' = queue
    BY <1>7 DEF Send, actorVars
  <2>3. Saved' = {}
    BY <2>1 DEF Saved, OneClient
  <2> HIDE DEF n
  <2>4. UserCmd(n) \in ACommand /\ UserCmd(n).item.id = n
    BY <2>1, PostOf, ItemOf
  <2>5. MailRises(mailbox', key, X)
    BY <1>1, <1>2, <2>1, <2>4, MailAppendRises DEF M
  <2> QED
    BY <1>1, <2>1, <2>2, <2>3, <2>5
<1>8. CASE Handles
  <2>1. mailbox # <<>> /\ mailbox' = Tail(mailbox)
    BY <1>8 DEF Handles
  <2>2. MailRises(mailbox', key, X)
    BY <1>1, <1>2, <2>1, MailTailRises
  <2>3. Saved' = Saved
    BY <1>8, HandlesSets
  <2>4. CASE MailedIn(mailbox') = M /\ WaitingIn(queue') \subseteq W /\ Rising(queue', key, X)
    BY <1>1, <2>2, <2>3, <2>4
  <2>5. CASE /\ Queues /\ ~IsPost(Head(mailbox)) /\ Head(mailbox).item \in AnItem
             /\ WaitingIn(queue') = W /\ MailedIn(mailbox') = M
    <3>1. queue' = Append(queue, Head(mailbox).item) /\ Head(mailbox).item.kind # "user"
      BY <2>5 DEF Queues, IsPost
    <3>2. Rising(queue', key, X)
      BY <1>1, <1>2, <2>5, <3>1, AppendRises
    <3> QED
      BY <2>4, <2>5, <3>2
  <2>6. ASSUME NEW m \in M, Queues, Head(mailbox) = UserCmd(m), WaitingIn(queue') = W \cup {m}, MailedIn(mailbox') = M \ {m}
        PROVE  Fine
    <3>1. m \in Message
      BY DEF M, MailedIn
    <3>2. /\ IsPost(Head(mailbox)) /\ Head(mailbox).item = UserItem(m) /\ UserItem(m) \in AnItem
          /\ UserItem(m).id = m
      BY <2>6, <3>1, PostOf, ItemOf
    <3>3. queue' = Append(queue, UserItem(m))
      BY <2>6, <3>2 DEF Queues
    <3>4. m \notin X => \A k \in W \ X : key[k] < key[m]
      BY <1>1
    <3>5. Rising(queue', key, X)
      BY <1>1, <1>2, <3>2, <3>3, <3>4, AppendRises DEF W
    <3>6. m \notin X => \A k \in MailedIn(mailbox') \ X : key[m] < key[k]
      <4>1. Head(mailbox).item.id = m
        BY <3>2
      <4> QED
        BY <1>1, <1>2, <2>1, <3>2, <4>1, MailTailRises
    <3> QED
      BY <1>1, <2>2, <2>3, <2>6, <3>5, <3>6
  <2>7. CASE /\ UNCHANGED <<queue, entry>> \/ \E m \in Message : Moved(m)
             /\ WaitingIn(queue') = W /\ MailedIn(mailbox') = M
    <3>1. ASSUME NEW m \in Message, Moved(m)
          PROVE  Rising(queue', key, X)
      <4>1. m \in X /\ Queued(queue, m) /\ queue' = MoveFirst(queue, m)
        BY <1>8, <3>1 DEF Moved
      <4>2. Rising(MoveFirst(queue, m), key, X)
        BY <1>1, <1>2, <4>1, MoveFirstIs
      <4> QED
        BY <4>1, <4>2
    <3> QED
      BY <1>1, <2>4, <2>7, <3>1
  <2>8. ASSUME NEW m \in W, Dropped(m), WaitingIn(queue') = W \ {m}, MailedIn(mailbox') = M
        PROVE  Fine
    <3>1. m \in Message /\ Queued(queue, m) /\ queue' = Without(queue, m)
      BY <2>8 DEF Dropped, W, WaitingIn
    <3>2. Rising(Without(queue, m), key, X)
      BY <1>1, <1>2, <3>1, WithoutIs
    <3> QED
      BY <2>4, <2>8, <3>1, <3>2
  <2>9. CASE Stopped /\ WaitingIn(queue') = {} /\ MailedIn(mailbox') = M
    <3>1. Rising(queue', key, X)
      BY <2>9 DEF Stopped, Rising
    <3> QED
      BY <2>4, <2>9, <3>1
  <2>10. \/ /\ Queues /\ ~IsPost(Head(mailbox)) /\ Head(mailbox).item \in AnItem
            /\ WaitingIn(queue') = W /\ MailedIn(mailbox') = M
         \/ \E m \in M : Queues /\ Head(mailbox) = UserCmd(m) /\ WaitingIn(queue') = W \cup {m} /\ MailedIn(mailbox') = M \ {m}
         \/ /\ UNCHANGED <<queue, entry>> \/ \E m \in Message : Moved(m)
            /\ WaitingIn(queue') = W /\ MailedIn(mailbox') = M
         \/ \E m \in W : Dropped(m) /\ WaitingIn(queue') = W \ {m} /\ MailedIn(mailbox') = M
         \/ Stopped /\ WaitingIn(queue') = {} /\ MailedIn(mailbox') = M
    BY <1>8, HandlesSets DEF W, M
  <2> QED
    BY <2>5, <2>6, <2>7, <2>8, <2>9, <2>10
<1>9. ASSUME NEW k \in 1..Len(queue), Starts(k)
      PROVE  Fine
  <2>1. WaitingIn(queue') \subseteq W /\ MailedIn(mailbox') = M /\ Saved' = Saved
    BY <1>9, StartsSets DEF W, M
  <2>2. Rising(queue', key, X) /\ mailbox' = mailbox
    BY <1>1, <1>2, <1>9, AfterFirstIs DEF Starts
  <2> QED
    BY <1>1, <2>1, <2>2
<1>10. CASE Emptied
  <2>1. WaitingIn(queue') = {} /\ MailedIn(mailbox') = {} /\ Saved' = {} /\ queue' = <<>> /\ mailbox' = <<>>
    BY <1>10, EmptiedSets DEF Emptied
  <2>2. Rising(<<>>, key, X) /\ MailRises(<<>>, key, X)
    BY DEF Rising, MailRises
  <2> QED
    BY <2>1, <2>2
<1>11. LineGoes
  BY LineSteps
<1> QED
  BY <1>5, <1>6, <1>7, <1>8, <1>9, <1>10, <1>11 DEF LineGoes

\* The messages a turn starts with are the first of the queue.
LEMMA BatchIs ==
  ASSUME Typed, OnceInLine, StartUserTurn
  PROVE  \E k \in 1..Len(queue) :
           /\ k \in Nat /\ turn'.phase = "starting" /\ Len(turn'.batch) = k /\ queue' = AfterFirst(k)
           /\ turn'.number = entry[queue[k].id].turn /\ shown' = Higher(entry[queue[k].id].turn) /\ ~turn'.stop
           /\ \A i \in 1..k : /\ i \in 1..Len(queue) /\ turn'.batch[i] = queue[i].id /\ queue[i] = UserItem(queue[i].id)
                              /\ queue[i].kind = "user" /\ queue[i].id \in Message
                              /\ queue[i].id \in WaitingIn(queue) /\ queue[i].id \notin WaitingIn(queue')
           /\ Opening' = {queue[i].id : i \in 1..k}
           /\ \A m \in WaitingIn(queue') : \E j \in 1..Len(queue) : k < j /\ queue[j] = UserItem(m)
           /\ \A m \in Message : /\ entry'[m].turn = entry[m].turn /\ entry'[m].removed = entry[m].removed
                                 /\ m \in Opening' => entry'[m].status = "sent"
                                 /\ m \notin Opening' => entry'[m] = entry[m]
<1>1. queue \in Seq(AnItem) /\ entry \in [Message -> AnEntry] /\ Len(queue) \in Nat
  BY DEF Typed, TypedActor, TypedChat
<1>2. PICK k \in 1..Len(queue) :
         /\ queue' = AfterFirst(k) /\ k \in Nat /\ \A i \in 1..k : queue[i].kind = "user"
         /\ turn' = [phase |-> "starting", number |-> entry[queue[k].id].turn, user |-> TRUE,
                     batch |-> [i \in 1..k |-> queue[i].id], stop |-> FALSE]
         /\ [i \in 1..k |-> queue[i].id] \in Seq(Message)
         /\ \A m \in Message : /\ entry'[m].turn = entry[m].turn /\ entry'[m].removed = entry[m].removed
                               /\ (\E i \in 1..k : queue[i].id = m) => entry'[m].status = "sent"
                               /\ (\A i \in 1..k : queue[i].id # m) => entry'[m] = entry[m]
         /\ shown' = Higher(entry[queue[k].id].turn)
  BY <1>1, StartIs
<1>3. \A i \in 1..k : /\ i \in 1..Len(queue) /\ queue[i] = UserItem(queue[i].id) /\ queue[i].kind = "user"
                      /\ queue[i].id \in Message
  BY <1>1, <1>2, UserAt
<1> DEFINE b == [i \in 1..k |-> queue[i].id]
<1>4. turn'.batch = b /\ turn'.phase = "starting" /\ turn'.number = entry[queue[k].id].turn /\ ~turn'.stop
  BY <1>2
<1>5. Len(b) = k /\ \A i \in 1..k : b[i] = queue[i].id
  BY <1>2
<1> HIDE DEF b
<1>6. Opening' = {queue[i].id : i \in 1..k}
  <2>1. Opening' = {b[i] : i \in 1..k}
    BY <1>4, <1>5 DEF Opening
  <2> QED
    BY <1>5, <2>1
<1>7. Starts(k)
  <2>1. \A m \in Message : (\A i \in 1..k : queue[i] # UserItem(m)) => entry'[m] = entry[m]
    BY <1>2, <1>3
  <2> QED
    BY <1>2, <2>1 DEF StartUserTurn, Starts
<1>8. \A i \in 1..k : queue[i].id \in WaitingIn(queue) /\ queue[i].id \notin WaitingIn(queue')
  BY <1>3, <1>7, StartsSets
<1>9. ASSUME NEW m \in WaitingIn(queue')
      PROVE  \E j \in 1..Len(queue) : k < j /\ queue[j] = UserItem(m)
  <2>1. /\ Len(queue') = Len(queue) - k
        /\ \A i \in 1..(Len(queue) - k) : queue'[i] = queue[i + k] /\ i + k \in 1..Len(queue)
    BY <1>1, <1>2, AfterFirstIs
  <2>2. PICK i \in 1..Len(queue') : queue'[i] = UserItem(m)
    BY WaitingHas DEF WaitingIn, Queued, ItemsOf
  <2>3. i + k \in 1..Len(queue) /\ queue[i + k] = UserItem(m) /\ k < i + k
    BY <1>1, <1>2, <2>1, <2>2
  <2> QED
    BY <2>3
<1>10. \A m \in Message : /\ m \in Opening' => entry'[m].status = "sent"
                          /\ m \notin Opening' => entry'[m] = entry[m]
  BY <1>2, <1>6
<1>11. /\ k \in Nat /\ turn'.phase = "starting" /\ Len(turn'.batch) = k /\ queue' = AfterFirst(k)
       /\ turn'.number = entry[queue[k].id].turn /\ shown' = Higher(entry[queue[k].id].turn) /\ ~turn'.stop
  BY <1>2, <1>4, <1>5
<1>12. \A i \in 1..k : /\ i \in 1..Len(queue) /\ turn'.batch[i] = queue[i].id /\ queue[i] = UserItem(queue[i].id)
                       /\ queue[i].kind = "user" /\ queue[i].id \in Message
                       /\ queue[i].id \in WaitingIn(queue) /\ queue[i].id \notin WaitingIn(queue')
  BY <1>3, <1>4, <1>5, <1>8
<1>13. \A m \in Message : entry'[m].turn = entry[m].turn /\ entry'[m].removed = entry[m].removed
  BY <1>2
<1> HIDE DEF Opening
<1> QED
  BY <1>6, <1>9, <1>10, <1>11, <1>12, <1>13

LEMMA StartRises ==
  ASSUME Typed, OnceInLine, StartUserTurn, NEW key, NEW X, Rising(queue, key, X)
  PROVE  /\ Opening' \subseteq WaitingIn(queue) /\ Before(Opening', WaitingIn(queue'), key, X)
         /\ \A i, j \in 1..Len(turn'.batch) : i < j /\ turn'.batch[i] \notin X /\ turn'.batch[j] \notin X
                                               => key[turn'.batch[i]] < key[turn'.batch[j]]
<1>1. PICK k \in 1..Len(queue) :
           /\ k \in Nat /\ Len(turn'.batch) = k
           /\ \A i \in 1..k : /\ i \in 1..Len(queue) /\ turn'.batch[i] = queue[i].id /\ queue[i] = UserItem(queue[i].id)
                              /\ queue[i].kind = "user" /\ queue[i].id \in Message
                              /\ queue[i].id \in WaitingIn(queue) /\ queue[i].id \notin WaitingIn(queue')
           /\ Opening' = {queue[i].id : i \in 1..k}
           /\ \A m \in WaitingIn(queue') : \E j \in 1..Len(queue) : k < j /\ queue[j] = UserItem(m)
  BY BatchIs
<1>2. ASSUME NEW m \in Opening' \ X, NEW n \in WaitingIn(queue') \ X
      PROVE  key[m] < key[n]
  <2>1. PICK i \in 1..k : m = queue[i].id
    BY <1>1, <1>2
  <2>2. PICK j \in 1..Len(queue) : k < j /\ queue[j] = UserItem(n)
    BY <1>1, <1>2
  <2>3. queue[j].kind = "user" /\ queue[j].id = n
    BY <2>2, ItemOf DEF WaitingIn
  <2>4. i < j /\ i \in 1..Len(queue) /\ queue[i].kind = "user"
    BY <1>1, <2>2
  <2> QED
    BY <1>2, <2>1, <2>3, <2>4 DEF Rising
<1>3. ASSUME NEW i \in 1..k, NEW j \in 1..k, i < j, queue[i].id \notin X, queue[j].id \notin X
      PROVE  key[queue[i].id] < key[queue[j].id]
  <2>1. i \in 1..Len(queue) /\ j \in 1..Len(queue) /\ queue[i].kind = "user" /\ queue[j].kind = "user"
    BY <1>1
  <2> QED
    BY <1>3, <2>1 DEF Rising
<1> QED
  BY <1>1, <1>2, <1>3 DEF Before

\* What the agent is given: a turn's prompt, or a message it was offered.
LEMMA TookKinds ==
  ASSUME Typed, [Next]_vars
  PROVE  \/ took' = took
         \/ Prompts
         \/ \E k \in offered : /\ took' = Append(took, [id |-> k, turn |-> turn.number, joined |-> TRUE])
                               /\ turn.phase = "running" /\ turn' = turn
<1>1. CASE HandleCommand \/ StartUserTurn \/ StartOtherTurn \/ StartFails \/ TakeDone
  BY <1>1 DEF HandleCommand, StartUserTurn, StartOtherTurn, StartFails, TakeDone, history
<1>2. CASE Prompted
  <2>1. turn'.phase = "running"
    BY <1>2 DEF Prompted, Typed, TypedActor, ATurn
  <2> QED
    BY <1>2, <2>1 DEF Prompted, Prompts, agentVars
<1>3. ASSUME NEW m \in Message, AgentTakes(m)
      PROVE  /\ took' = Append(took, [id |-> m, turn |-> turn.number, joined |-> TRUE])
             /\ turn.phase = "running" /\ turn' = turn /\ m \in offered
  BY <1>3 DEF AgentTakes, AgentFrame, actorVars, Working
<1>4. ASSUME NEW m \in Message, AgentRefuses(m, "next") \/ AgentRefuses(m, "failed") \/ SteerLost(m) \/ AnswerFails(m)
      PROVE  took' = took
  BY <1>4 DEF AgentRefuses, SteerLost, AnswerFails
<1>5. CASE AgentWrites \/ AgentEnds("ok") \/ AgentEnds("err") \/ AgentDies \/ KillAgent
  BY <1>5 DEF AgentWrites, AgentEnds, AgentDies, KillAgent, history
<1>6. ASSUME NEW s \in Sender, PostReads(s) \/ PostSaves(s) \/ Send(s)
      PROVE  took' = took
  BY <1>6 DEF PostReads, PostSaves, Send, history
<1>7. CASE \/ \E kind \in Other : OtherArrives(kind)
           \/ \E k \in Message : Touch("steer", k) \/ Touch("unqueue", k)
           \/ Stop
  BY <1>7 DEF OtherArrives, Touch, Stop, history
<1>8. ASSUME NEW resume \in BOOLEAN, Restart(resume)
      PROVE  took' = took
  BY <1>8 DEF Restart
<1>9. CASE UNCHANGED vars
  BY <1>9 DEF vars
<1> QED
  BY <1>1, <1>2, <1>3, <1>4, <1>5, <1>6, <1>7, <1>8, <1>9 DEF Next, AgentStep

LEMMA SteeredGrows ==
  ASSUME [Next]_vars
  PROVE  steered \subseteq steered'
<1>1. CASE HandleCommand
  <2>1. \/ OnQueue(Head(mailbox).item) \/ OnSteer(Head(mailbox).id) \/ OnUnqueue(Head(mailbox).id)
        \/ OnSteered(Head(mailbox).id, Head(mailbox).outcome) \/ OnStop
    BY <1>1 DEF HandleCommand
  <2> QED
    BY <2>1 DEF OnQueue, OnSteer, OnUnqueue, OnSteered, OnStop
<1>2. ASSUME NEW m \in Message, AgentTakes(m) \/ AgentRefuses(m, "next") \/ AgentRefuses(m, "failed") \/ SteerLost(m) \/ AnswerFails(m)
      PROVE  steered' = steered
  BY <1>2 DEF AgentTakes, AgentRefuses, SteerLost, AnswerFails, AgentFrame
<1>3. CASE AgentWrites \/ AgentEnds("ok") \/ AgentEnds("err") \/ AgentDies \/ KillAgent
  BY <1>3 DEF AgentWrites, AgentEnds, AgentDies, KillAgent, AgentFrame, history
<1>4. CASE StartUserTurn \/ StartOtherTurn \/ Prompted \/ StartFails \/ TakeDone
  BY <1>4 DEF StartUserTurn, StartOtherTurn, Prompted, StartFails, TakeDone, history
<1>5. ASSUME NEW s \in Sender, PostReads(s) \/ PostSaves(s) \/ Send(s)
      PROVE  steered' = steered
  BY <1>5 DEF PostReads, PostSaves, Send, history
<1>6. CASE \/ \E kind \in Other : OtherArrives(kind)
           \/ \E k \in Message : Touch("steer", k) \/ Touch("unqueue", k)
           \/ Stop
  BY <1>6 DEF OtherArrives, Touch, Stop, history
<1>7. ASSUME NEW resume \in BOOLEAN, Restart(resume)
      PROVE  steered' = steered
  BY <1>7 DEF Restart
<1>8. CASE UNCHANGED vars
  BY <1>8 DEF vars
<1> QED
  BY <1>1, <1>2, <1>3, <1>4, <1>5, <1>6, <1>7, <1>8 DEF Next, AgentStep

Posted == [m \in Message |-> m]

\* The messages nobody steered are in the order of posting, from the first the agent
\* was given to the last on its way.
Ordered ==
  /\ Rises(queue, mailbox, Saved, Posted, steered)
  /\ Before(TookIds, Opening \cup Line, Posted, steered) /\ Before(Opening, Line, Posted, steered)
  /\ \A m \in (Opening \cup TookIds) \ steered : m <= posted
  /\ turn.phase = "starting" => \A i, j \in 1..Len(turn.batch) :
       i < j /\ turn.batch[i] \notin steered /\ turn.batch[j] \notin steered => turn.batch[i] < turn.batch[j]
  /\ OrderKept

\* What a step may add to the messages on the way, those a turn opens with, and those given.
LEMMA OrderSources ==
  ASSUME Typed, SteeredKnown, OnceInLine, [Next]_vars
  PROVE  /\ \A m \in Line' \ Line : m = posted + 1
         /\ \/ Opening' = {}
            \/ turn' = turn /\ Opening' = Opening
            \/ StartUserTurn /\ Opening' \subseteq WaitingIn(queue) /\ Opening' \cap WaitingIn(queue') = {}
         /\ \/ took' = took /\ TookIds' = TookIds
            \/ Prompts /\ TookIds' = TookIds \cup Opening /\ Opening' = {}
            \/ \E k \in offered : TookIds' = TookIds \cup {k} /\ Opening' = {}
         /\ posted \in Nat /\ posted' >= posted /\ \A m \in Line : m <= posted
         /\ TookIds \in SUBSET Message /\ Opening \in SUBSET Message
<1>1. \A m \in Line' \ Line : m = posted + 1
  BY LineGrows
<1>2. \/ took' = took /\ TookIds' = TookIds
      \/ Prompts /\ TookIds' = TookIds \cup Opening /\ Opening' = {}
      \/ \E k \in offered : TookIds' = TookIds \cup {k} /\ Opening' = {}
  <2>1. ASSUME NEW k \in offered, took' = Append(took, [id |-> k, turn |-> turn.number, joined |-> TRUE]),
               turn.phase = "running", turn' = turn
        PROVE  TookIds' = TookIds \cup {k} /\ Opening' = {}
    <3> DEFINE r == [id |-> k, turn |-> turn.number, joined |-> TRUE]
    <3>1. k \in Message /\ turn.number \in Nat /\ took \in Seq(ATook)
      BY DEF Typed, TypedAgent, TypedActor, ATurn, TypedHistory
    <3>2. r \in ATook /\ r.id = k /\ took' = Append(took, r)
      BY <2>1, <3>1 DEF ATook
    <3> HIDE DEF r
    <3>3. TookIds' = TookIds \cup {k}
      BY <3>1, <3>2, TookAppend
    <3>4. Opening' = {}
      BY <2>1 DEF Opening
    <3> QED
      BY <3>3, <3>4
  <2>2. Prompts => TookIds' = TookIds \cup Opening /\ Opening' = {}
    BY TookPrompted
  <2>3. took' = took => TookIds' = TookIds
    BY DEF TookIds
  <2> QED
    BY <2>1, <2>2, <2>3, TookKinds
<1>3. posted \in Nat /\ posted' >= posted
  <2>1. posted \in Nat
    BY DEF Typed, TypedChat
  <2>2. posted' = posted \/ posted' = posted + 1
    BY LineSteps DEF LineGoes, Kept, PostSaves, Send, Handles, Starts, Emptied
  <2> QED
    BY <2>1, <2>2
<1>4. \A m \in Line : m <= posted
  BY DEF OnceInLine
<1>5. TookIds \in SUBSET Message /\ Opening \in SUBSET Message
  BY TookTypes
<1> QED
  BY <1>1, <1>2, <1>3, <1>4, <1>5, OpensFrom

LEMMA OrderedStep ==
  ASSUME Typed, SteeredKnown, OnceInLine, OneClient, Ordered, [Next]_vars
  PROVE  Ordered'
<1>1. PICK X : X = steered'
  OBVIOUS
<1>2. steered \subseteq X
  BY <1>1, SteeredGrows
<1>3. \A m \in Message : Posted[m] = m /\ m \in Nat
  BY DEF Posted, Message
<1>4. /\ Rises(queue, mailbox, Saved, Posted, X)
      /\ \A a \in TookIds \ X, b \in (Opening \cup Line) \ X : a < b
      /\ \A a \in Opening \ X, b \in Line \ X : a < b
      /\ \A m \in (Opening \cup TookIds) \ X : m <= posted
      /\ turn.phase = "starting" => \A i, j \in 1..Len(turn.batch) :
           i < j /\ turn.batch[i] \notin X /\ turn.batch[j] \notin X => turn.batch[i] < turn.batch[j]
      /\ \A i, j \in 1..Len(took) : i < j /\ took[i].id \notin X /\ took[j].id \notin X => took[i].id < took[j].id
  <2>1. TookIds \in SUBSET Message /\ Opening \in SUBSET Message /\ Line \in SUBSET Message
    BY TookTypes, LineTypes
  <2>2. Rises(queue, mailbox, Saved, Posted, X)
    BY <1>2, RisesFewer DEF Ordered
  <2>3. /\ \A a \in TookIds \ X, b \in (Opening \cup Line) \ X : a < b
        /\ \A a \in Opening \ X, b \in Line \ X : a < b
    BY <1>2, <1>3, <2>1 DEF Ordered, Before
  <2>4. \A i, j \in 1..Len(took) : i < j /\ took[i].id \notin X /\ took[j].id \notin X => took[i].id < took[j].id
    BY <1>2 DEF Ordered, OrderKept
  <2>5. turn.phase = "starting" => \A i, j \in 1..Len(turn.batch) :
           i < j /\ turn.batch[i] \notin X /\ turn.batch[j] \notin X => turn.batch[i] < turn.batch[j]
    BY <1>2 DEF Ordered
  <2>6. \A m \in (Opening \cup TookIds) \ X : m <= posted
    BY <1>2 DEF Ordered
  <2> QED
    BY <2>2, <2>3, <2>4, <2>5, <2>6
<1>5. /\ \A m \in Line' \ Line : m = posted + 1
      /\ \/ Opening' = {}
         \/ turn' = turn /\ Opening' = Opening
         \/ StartUserTurn /\ Opening' \subseteq WaitingIn(queue) /\ Opening' \cap WaitingIn(queue') = {}
      /\ \/ took' = took /\ TookIds' = TookIds
         \/ Prompts /\ TookIds' = TookIds \cup Opening /\ Opening' = {}
         \/ \E k \in offered : TookIds' = TookIds \cup {k} /\ Opening' = {}
      /\ posted \in Nat /\ posted' >= posted /\ \A m \in Line : m <= posted
      /\ TookIds \in SUBSET Message /\ Opening \in SUBSET Message
  BY OrderSources
<1>6. offered \subseteq X
  BY <1>2 DEF SteeredKnown
<1>7. Line \in SUBSET Message /\ WaitingIn(queue) \subseteq Line /\ Line' \in SUBSET Message
      /\ TookIds' \in SUBSET Message /\ Opening' \in SUBSET Message
  <2>1. Typed'
    BY TypedStep
  <2>2. Line' \in SUBSET Message
    BY DEF Line, WaitingIn, MailedIn, Saved
  <2>3. TookIds' \in SUBSET Message /\ Opening' \in SUBSET Message
    <3>1. offered \subseteq Message
      BY DEF Typed, TypedAgent
    <3> QED
      BY <1>5, <3>1 DEF WaitingIn
  <2> QED
    BY <2>2, <2>3, LineTypes DEF Line
<1>8. Rises(queue', mailbox', Saved', Posted, X)
  <2>1. ASSUME NEW s \in Sender, PostSaves(s), NEW m \in Line \ X
        PROVE  Posted[m] < Posted[posted + 1]
    <3>1. posted + 1 \in Message
      BY <2>1, SavesSets
    <3> QED
      BY <1>3, <1>5, <1>7, <3>1
  <2>2. \A m \in Message : Moved(m) => m \in X
    BY <1>1 DEF Moved
  <2> QED
    BY <1>4, <2>1, <2>2, RisesStep
<1>9. StartUserTurn =>
        /\ \A a \in Opening' \ X, b \in WaitingIn(queue') \ X : a < b
        /\ \A i, j \in 1..Len(turn'.batch) : i < j /\ turn'.batch[i] \notin X /\ turn'.batch[j] \notin X
                                               => turn'.batch[i] < turn'.batch[j]
  <2>1. SUFFICES ASSUME StartUserTurn
                 PROVE  /\ \A a \in Opening' \ X, b \in WaitingIn(queue') \ X : a < b
                        /\ \A i, j \in 1..Len(turn'.batch) : i < j /\ turn'.batch[i] \notin X /\ turn'.batch[j] \notin X
                                                               => turn'.batch[i] < turn'.batch[j]
    OBVIOUS
  <2>2. /\ Before(Opening', WaitingIn(queue'), Posted, X)
        /\ \A i, j \in 1..Len(turn'.batch) : i < j /\ turn'.batch[i] \notin X /\ turn'.batch[j] \notin X
                                               => Posted[turn'.batch[i]] < Posted[turn'.batch[j]]
    BY <1>4, <2>1, StartRises DEF Rises
  <2>3. \A i \in 1..Len(turn'.batch) : turn'.batch[i] \in Message
    BY <2>1, BatchIs
  <2>4. WaitingIn(queue') \subseteq Message
    BY DEF WaitingIn
  <2> QED
    BY <1>3, <1>7, <2>2, <2>3, <2>4 DEF Before
<1>10. \A a \in Opening' \ X, b \in Line' \ X : a < b
  <2>1. SUFFICES ASSUME NEW a \in Opening' \ X, NEW b \in Line' \ X
                 PROVE  a < b
    OBVIOUS
  <2>2. a \in Nat /\ b \in Nat /\ (b \in Line \/ b = posted + 1)
    BY <1>3, <1>5, <1>7
  <2>3. CASE Opening' = Opening
    BY <1>4, <1>5, <2>2, <2>3
  <2>4. CASE StartUserTurn /\ Opening' \subseteq WaitingIn(queue)
    <3>1. a \in WaitingIn(queue) /\ a \in Line /\ a <= posted
      BY <1>5, <1>7, <2>4
    <3>2. CASE b \in WaitingIn(queue')
      BY <1>9, <2>4, <3>2
    <3>3. CASE b \notin WaitingIn(queue')
      <4>1. b \in MailedIn(mailbox) \cup Saved
        <5>1. UNCHANGED <<mailbox, sending>>
          BY <2>4 DEF StartUserTurn
        <5> QED
          BY <3>3, <5>1 DEF Line, Saved
      <4> QED
        <5>1. Posted[a] < Posted[b]
          BY <1>4, <2>1, <3>1, <4>1 DEF Rises, Before
        <5>2. a \in Message /\ b \in Message
          BY <1>7, <2>1
        <5> QED
          BY <1>3, <5>1, <5>2
    <3> QED
      BY <3>2, <3>3
  <2> QED
    BY <1>5, <2>3, <2>4
<1>11. \A a \in TookIds' \ X, b \in (Opening' \cup Line') \ X : a < b
  <2>1. SUFFICES ASSUME NEW a \in TookIds' \ X, NEW b \in (Opening' \cup Line') \ X
                 PROVE  a < b
    OBVIOUS
  <2>2. a \in Nat /\ b \in Nat /\ b \in Opening' \cup Line \cup {posted + 1}
    BY <1>3, <1>5, <1>7
  <2>3. CASE a \in TookIds
    BY <1>4, <1>5, <1>7, <2>2, <2>3
  <2>4. CASE a \in Opening /\ Opening' = {}
    BY <1>4, <1>5, <2>2, <2>4
  <2> QED
    BY <1>5, <1>6, <2>3, <2>4
<1>12. \A m \in (Opening' \cup TookIds') \ X : m <= posted'
  <2>1. SUFFICES ASSUME NEW m \in (Opening' \cup TookIds') \ X
                 PROVE  m <= posted'
    OBVIOUS
  <2>2. m \in Nat /\ posted' \in Nat
    <3>1. posted' \in Nat
      BY TypedStep DEF Typed, TypedChat
    <3> QED
      BY <1>3, <1>7, <3>1
  <2>3. m <= posted
    BY <1>4, <1>5, <1>6, <1>7
  <2> QED
    BY <1>5, <2>2, <2>3
<1>13. turn'.phase = "starting" => \A i, j \in 1..Len(turn'.batch) :
         i < j /\ turn'.batch[i] \notin X /\ turn'.batch[j] \notin X => turn'.batch[i] < turn'.batch[j]
  <2>1. CASE Opening' = {}
    <3>1. turn'.phase = "starting" => \A i \in 1..Len(turn'.batch) : FALSE
      BY <2>1 DEF Opening
    <3> QED
      BY <3>1
  <2>2. CASE turn' = turn
    BY <1>4, <2>2
  <2> QED
    BY <1>5, <1>9, <2>1, <2>2
<1>14. \A i, j \in 1..Len(took') : i < j /\ took'[i].id \notin X /\ took'[j].id \notin X => took'[i].id < took'[j].id
  <2> DEFINE n == Len(took)
  <2>1. took \in Seq(ATook) /\ n \in Nat /\ \A i \in 1..n : took[i].id \in TookIds
    BY TookTypes DEF Typed, TypedHistory
  <2>2. CASE took' = took
    BY <1>4, <2>2
  <2>3. CASE Prompts
    <3> DEFINE b == turn.batch
    <3>1. /\ Len(b) \in Nat /\ Len(took') = n + Len(b) /\ \A i \in 1..n : took'[i] = took[i]
          /\ \A i \in 1..Len(b) : took'[n + i] = [id |-> b[i], turn |-> turn.number, joined |-> FALSE]
      BY <2>3, TookPrompted
    <3>2. ASSUME NEW j \in 1..Len(took'), ~(j <= n)
          PROVE  j - n \in 1..Len(b) /\ took'[j].id = b[j - n]
      <4>1. j - n \in 1..Len(b) /\ j = n + (j - n)
        BY <2>1, <3>1, <3>2
      <4>2. took'[n + (j - n)] = [id |-> b[j - n], turn |-> turn.number, joined |-> FALSE]
        BY <3>1, <4>1
      <4> QED
        BY <4>1, <4>2
    <3>3. \A j \in 1..Len(took') : j <= n => j \in 1..n /\ took'[j].id = took[j].id /\ took[j].id \in TookIds
      BY <2>1, <3>1
    <3>4. \A i \in 1..Len(b) : b[i] \in Opening
      BY <2>3 DEF Prompts, Opening
    <3>5. \A i, j \in 1..Len(b) : i < j /\ b[i] \notin X /\ b[j] \notin X => b[i] < b[j]
      BY <1>4, <2>3 DEF Prompts
    <3>6. Len(took') \in Nat
      BY <2>1, <3>1
    <3> HIDE DEF n, b
    <3>7. ASSUME NEW i \in 1..Len(took'), NEW j \in 1..Len(took'), i < j, took'[i].id \notin X, took'[j].id \notin X
          PROVE  took'[i].id < took'[j].id
      <4>1. CASE j <= n
        <5>1. i <= n
          BY <2>1, <3>6, <3>7, <4>1
        <5> QED
          BY <1>4, <3>3, <3>7, <4>1, <5>1 DEF n
      <4>2. CASE i <= n /\ ~(j <= n)
        BY <1>4, <3>2, <3>3, <3>4, <3>7, <4>2
      <4>3. CASE ~(i <= n) /\ ~(j <= n)
        <5>1. i - n \in 1..Len(b) /\ j - n \in 1..Len(b) /\ i - n < j - n
          BY <2>1, <3>2, <3>6, <3>7, <4>3
        <5> QED
          BY <3>2, <3>5, <3>7, <4>3, <5>1
      <4> QED
        BY <2>1, <3>6, <3>7, <4>1, <4>2, <4>3
    <3> QED
      BY <3>7
  <2>4. ASSUME NEW k \in offered, took' = Append(took, [id |-> k, turn |-> turn.number, joined |-> TRUE])
        PROVE  \A i, j \in 1..Len(took') : i < j /\ took'[i].id \notin X /\ took'[j].id \notin X => took'[i].id < took'[j].id
    <3> DEFINE r == [id |-> k, turn |-> turn.number, joined |-> TRUE]
    <3>1. r \in ATook /\ r.id = k /\ took' = Append(took, r)
      BY <2>4 DEF ATook, Typed, TypedAgent, TypedActor, ATurn
    <3> HIDE DEF r
    <3>2. /\ Len(took') = n + 1 /\ \A i \in 1..n : took'[i] = took[i]
          /\ took'[n + 1] = r
      BY <2>1, <3>1, TookAppend
    <3>3. k \in X
      BY <1>6
    <3>4. \A i \in 1..Len(took') : i \in 1..n \/ took'[i].id \in X
      BY <2>1, <3>1, <3>2, <3>3
    <3> QED
      BY <1>4, <2>1, <3>2, <3>4
  <2> QED
    BY <2>2, <2>3, <2>4, TookKinds
<1>15. OrderKept'
  BY <1>1, <1>14 DEF OrderKept
<1>16. Rises(queue, mailbox, Saved, Posted, steered)'
  BY <1>1, <1>8 DEF Rises, Rising, MailRises, IsPost, Before, WaitingIn, Queued, ItemsOf, MailedIn, Has
<1>17. Before(TookIds, Opening \cup Line, Posted, steered)' /\ Before(Opening, Line, Posted, steered)'
  BY <1>1, <1>3, <1>7, <1>10, <1>11 DEF Before
<1> QED
  BY <1>1, <1>12, <1>13, <1>15, <1>16, <1>17 DEF Ordered

-----------------------------------------------------------------------------
(* The numbers of turns, when one client posts and no answer misses its time. *)

Turns == [m \in Message |-> entry[m].turn]

LEMMA EntryGoes ==
  ASSUME Typed, SteeredKnown, OnceInLine, [Next]_vars, NEW m \in Message
  PROVE  /\ m \notin WaitingIn(queue) /\ m \notin Fresh => entry'[m] = entry[m] \/ (entry[m].status = "queued" /\ entry'[m].status = "failed")
         /\ m \in WaitingIn(queue) /\ entry'[m].status = "sent"
              => turn.phase = "idle" \/ (entry'[m].turn = turn.number /\ m \notin WaitingIn(queue'))
         /\ m \in Line /\ m \in Line' /\ (\A k \in Message : ~(Handles /\ Moved(k))) => entry'[m].turn = entry[m].turn
<1> DEFINE W == WaitingIn(queue)
           Fine == /\ m \notin W /\ m \notin Fresh => entry'[m] = entry[m] \/ (entry[m].status = "queued" /\ entry'[m].status = "failed")
                   /\ m \in W /\ entry'[m].status = "sent"
                        => turn.phase = "idle" \/ (entry'[m].turn = turn.number /\ m \notin WaitingIn(queue'))
                   /\ m \in Line /\ m \in Line' /\ (\A k \in Message : ~(Handles /\ Moved(k))) => entry'[m].turn = entry[m].turn
<1>1. entry \in [Message -> AnEntry] /\ turn.number \in Nat /\ posted \in Nat
  BY DEF Typed, TypedChat, TypedActor, ATurn
<1>2. m \in W => m \in Line /\ entry[m].status = "queued" /\ entry[m].status # "sent"
  BY DEF OnceInLine, Line
<1>3. W \subseteq Line
  BY DEF Line
<1>4. CASE entry' = entry
  BY <1>2, <1>4
<1>5. ASSUME NEW s \in Sender, PostSaves(s)
      PROVE  Fine
  <2>1. /\ posted + 1 \in Message /\ posted + 1 \notin Line
        /\ \A k \in Message \ {posted + 1} : entry'[k] = entry[k]
    BY <1>5, SavesSets
  <2>2. posted + 1 \in Fresh
    BY <1>1, <2>1 DEF Fresh
  <2> QED
    BY <1>2, <1>3, <2>1, <2>2
<1>6. CASE Handles
  <2>1. CASE Queues \/ UNCHANGED <<queue, entry>>
    BY <1>4, <2>1 DEF Queues
  <2>2. ASSUME NEW k \in Message, Moved(k)
        PROVE  Fine
    <3>1. entry'[m].status = entry[m].status /\ (m \notin W => entry'[m] = entry[m])
      BY <2>2, MovedIs
    <3> QED
      BY <1>2, <1>6, <2>2, <3>1
  <2>3. ASSUME NEW k \in W, Dropped(k), WaitingIn(queue') = W \ {k}, MailedIn(mailbox') = MailedIn(mailbox)
        PROVE  Fine
    <3>1. k \in Message /\ \A l \in Message : l # k => entry'[l] = entry[l]
      BY <2>3, DroppedIs DEF WaitingIn
    <3>2. CASE m # k
      BY <1>2, <3>1, <3>2
    <3>3. CASE m = k
      <4>1. m \notin Line'
        <5>1. m \notin MailedIn(mailbox) /\ m \notin Saved /\ Saved' = Saved
          BY <1>6, <2>3, <3>3, HandlesSets DEF OnceInLine
        <5> QED
          BY <2>3, <3>3, <5>1 DEF Line
      <4>2. CASE entry' = Joined(k)
        <5>1. Joined(k)[k].turn = turn.number
          BY <1>1, <3>1, JoinedIs
        <5> QED
          BY <2>3, <3>3, <4>1, <4>2, <5>1
      <4>3. CASE entry' = Cancelled({k}, TRUE)
        <5>1. \A l \in Message : l \in {k} => Cancelled({k}, TRUE)[l].status = "cancelled"
          BY <1>1, CancelledIs
        <5>2. entry'[m].status = "cancelled"
          BY <3>1, <3>3, <4>3, <5>1
        <5> QED
          BY <2>3, <3>3, <4>1, <5>2
      <4> QED
        BY <2>3, <4>2, <4>3 DEF Dropped
    <3> QED
      BY <3>2, <3>3
  <2>4. CASE Stopped
    <3>1. /\ \A l \in Message : l \notin W => Cancelled(W, FALSE)[l] = entry[l]
          /\ \A l \in Message : l \in W => /\ Cancelled(W, FALSE)[l].status = "cancelled"
                                           /\ Cancelled(W, FALSE)[l].turn = entry[l].turn
      BY <1>1, CancelledIs
    <3>2. entry' = Cancelled(W, FALSE)
      BY <2>4 DEF Stopped
    <3> QED
      BY <3>1, <3>2
  <2>5. \/ Queues \/ UNCHANGED <<queue, entry>> \/ \E k \in Message : Moved(k)
        \/ \E k \in W : Dropped(k) /\ WaitingIn(queue') = W \ {k} /\ MailedIn(mailbox') = MailedIn(mailbox)
        \/ Stopped
    BY <1>6, HandlesSets
  <2> QED
    BY <2>1, <2>2, <2>3, <2>4, <2>5
<1>7. ASSUME NEW k \in 1..Len(queue), Starts(k)
      PROVE  Fine
  <2>1. turn.phase = "idle" /\ UNCHANGED <<mailbox, sending>>
    BY <1>7 DEF Starts
  <2>2. /\ \A i \in 1..k : queue[i] = UserItem(m) => m \notin WaitingIn(queue') /\ m \in W
        /\ (\A i \in 1..k : queue[i] # UserItem(m)) => entry'[m] = entry[m]
    BY <1>7, StartsSets
  <2>3. m \in W => m \notin MailedIn(mailbox') \cup Saved'
    BY <2>1 DEF OnceInLine, Saved
  <2> QED
    BY <1>2, <2>1, <2>2, <2>3 DEF Line
<1>8. CASE Emptied
  <2>1. /\ Restarted[m].status = IF entry[m].status = "queued" THEN "failed" ELSE entry[m].status
        /\ Restarted[m] = IF entry[m].status = "queued" THEN [entry[m] EXCEPT !.status = "failed"] ELSE entry[m]
    BY <1>1, RestartedIs DEF Restarted
  <2>2. Line' = {} /\ entry' = Restarted
    BY <1>8, EmptiedSets DEF Emptied
  <2> QED
    BY <1>2, <2>1, <2>2
<1>9. ASSUME NEW s \in Sender, Send(s)
      PROVE  entry' = entry
  BY <1>9, SendSets
<1>10. LineGoes
  BY LineSteps
<1> QED
  BY <1>4, <1>5, <1>6, <1>7, <1>8, <1>9, <1>10 DEF LineGoes, Kept

LEMMA TurnKeeps ==
  ASSUME Typed, [Next]_vars, turn.phase = "running"
  PROVE  turn'.number = turn.number \/ \A k \in Message : inflight'[k] = "no"
<1>1. turn \in ATurn
  BY DEF Typed, TypedActor
<1>2. CASE UNCHANGED actorVars
  BY <1>2 DEF actorVars
<1>3. CASE HandleCommand
  <2> DEFINE c == Head(mailbox)
  <2>1. \/ OnQueue(c.item) \/ OnSteer(c.id) \/ OnUnqueue(c.id)
        \/ OnSteered(c.id, c.outcome) \/ OnStop
    BY <1>3 DEF HandleCommand
  <2> HIDE DEF c
  <2>2. CASE OnQueue(c.item) \/ OnUnqueue(c.id)
    BY <2>2 DEF OnQueue, OnUnqueue
  <2>3. CASE OnSteer(c.id)
    BY <1>1, <2>3 DEF OnSteer, actorVars, ATurn
  <2>4. CASE OnStop
    BY <1>1, <2>4 DEF OnStop, ATurn
  <2>5. CASE OnSteered(c.id, c.outcome)
    <3>1. CASE LastAnswer(c.outcome)
      BY <3>1 DEF LastAnswer
    <3>2. CASE turn' = turn \/ turn' = [turn EXCEPT !.batch = Append(turn.batch, c.id)]
      BY <1>1, <3>2 DEF ATurn
    <3> QED
      BY <2>5, <3>1, <3>2 DEF OnSteered
  <2> QED
    BY <2>1, <2>2, <2>3, <2>4, <2>5
<1>4. CASE StartUserTurn \/ StartOtherTurn \/ Prompted \/ StartFails
  BY <1>4 DEF StartUserTurn, StartOtherTurn, Prompted, StartFails
<1>5. CASE TakeDone
  BY <1>5 DEF TakeDone, TurnEnded, InFlight
<1>6. ASSUME NEW resume \in BOOLEAN, Restart(resume)
      PROVE  \A k \in Message : inflight'[k] = "no"
  BY <1>6 DEF Restart
<1>7. CASE AgentStep \/ KillAgent
  BY <1>2, <1>7 DEF AgentStep, KillAgent, AgentWrites, AgentEnds, AgentDies, AgentTakes, AgentRefuses, SteerLost, AnswerFails, AgentFrame
<1>8. ASSUME NEW s \in Sender, PostReads(s) \/ PostSaves(s) \/ Send(s)
      PROVE  UNCHANGED actorVars
  BY <1>8 DEF PostReads, PostSaves, Send
<1>9. CASE \/ \E kind \in Other : OtherArrives(kind)
           \/ \E m \in Message : Touch("steer", m) \/ Touch("unqueue", m)
           \/ Stop
  BY <1>2, <1>9 DEF OtherArrives, Touch, Stop
<1>10. CASE UNCHANGED vars
  BY <1>10 DEF vars
<1> QED
  BY <1>2, <1>3, <1>4, <1>5, <1>6, <1>7, <1>8, <1>9, <1>10 DEF Next

\* The numbers of the messages on their way rise, and a client about to save one holds a higher.
Climbing ==
  /\ Rises(queue, mailbox, Saved, Turns, {})
  /\ \A s \in Sender : sending[s].step = "read" => \A m \in Line : entry[m].turn < sending[s].n

LEMMA ReadsStep ==
  ASSUME [Next]_vars, NEW s \in Sender, sending'[s].step = "read", sending \in [Sender -> [step : {"none", "read", "saved"}, n : Nat]],
         OneClient
  PROVE  sending'[s] = sending[s] \/ (PostReads(s) /\ sending'[s].n = max_turn + 1)
<1>1. ASSUME NEW t \in Sender, PostReads(t)
      PROVE  PostReads(s) /\ sending'[s].n = max_turn + 1
  <2>1. t = s
    BY DEF OneClient
  <2>2. sending' = [sending EXCEPT ![s] = [step |-> "read", n |-> max_turn + 1]]
    BY <1>1, <2>1 DEF PostReads, NextTurn
  <2>3. sending'[s] = [step |-> "read", n |-> max_turn + 1]
    BY <2>2
  <2> QED
    BY <1>1, <2>1, <2>3
<1>2. ASSUME NEW t \in Sender, PostSaves(t) \/ Send(t)
      PROVE  FALSE
  <2>1. t = s
    BY DEF OneClient
  <2> QED
    BY <1>2, <2>1 DEF PostSaves, Send, NotPosting
<1>3. ASSUME NEW resume \in BOOLEAN, Restart(resume)
      PROVE  FALSE
  BY <1>3 DEF Restart, NotPosting
<1>4. CASE \/ \E kind \in Other : OtherArrives(kind)
           \/ \E k \in Message : Touch("steer", k) \/ Touch("unqueue", k)
           \/ Stop
  BY <1>4 DEF OtherArrives, Touch, Stop, chatVars
<1>5. CASE HandleCommand \/ StartUserTurn \/ StartOtherTurn \/ Prompted \/ StartFails \/ TakeDone
  BY <1>5 DEF HandleCommand, StartUserTurn, StartOtherTurn, Prompted, StartFails, TakeDone, chatVars
<1>6. CASE AgentStep \/ KillAgent
  <2>1. CASE AgentWrites
    BY <2>1 DEF AgentWrites
  <2>2. CASE AgentFrame
    BY <2>2 DEF AgentFrame, chatVars
  <2> QED
    BY <1>6, <2>1, <2>2 DEF AgentStep, KillAgent, AgentEnds, AgentDies, AgentTakes, AgentRefuses, SteerLost, AnswerFails
<1>7. CASE UNCHANGED vars
  BY <1>7 DEF vars
<1> QED
  BY <1>1, <1>2, <1>3, <1>4, <1>5, <1>6, <1>7 DEF Next

LEMMA MovedClimbs ==
  ASSUME Typed, OnceInLine, Handles, NEW m \in Message, Moved(m), Climbing
  PROVE  Rises(queue', mailbox', Saved', Turns', {})
<1> DEFINE W == WaitingIn(queue)
           M == MailedIn(mailbox)
<1>1. /\ queue \in Seq(AnItem) /\ mailbox \in Seq(ACommand) /\ entry \in [Message -> AnEntry]
      /\ mailbox # <<>> /\ mailbox' = Tail(mailbox)
  BY DEF Typed, TypedChat, TypedActor, Handles
<1>2. /\ queue' \in Seq(AnItem) /\ WaitingIn(queue') = W
      /\ \A k \in Message : AtMostOne(queue', {UserItem(k)})
      /\ entry' = Renumbered(queue')
      /\ \A k \in Message : k \notin W => entry'[k] = entry[k]
      /\ \A k \in W : \E l \in W : entry'[k].turn = entry[l].turn
  BY MovedIs
<1>3. PICK key : key = Turns'
  OBVIOUS
<1>4. \A k \in Message : key[k] = entry'[k].turn
  BY <1>3 DEF Turns
<1>5. PICK old : old = Turns
  OBVIOUS
<1>6. \A k \in Message : old[k] = entry[k].turn
  BY <1>5 DEF Turns
<1>7. /\ Rising(queue, old, {}) /\ MailRises(mailbox, old, {})
      /\ \A a \in W, b \in M : old[a] < old[b]
      /\ \A a \in W \cup M, b \in Saved : old[a] < old[b]
  BY <1>5 DEF Climbing, Rises, Before
<1>8. W \subseteq Message /\ M \subseteq Message /\ Saved \subseteq Message
  BY DEF WaitingIn, MailedIn, Saved
<1>9. Rising(queue', key, {})
  <2>1. ASSUME NEW k \in W, NEW l \in W, entry[k].turn = entry[l].turn
        PROVE  k = l
    <3>1. PICK i \in 1..Len(queue) : queue[i] = UserItem(k)
      BY DEF WaitingIn, Queued, ItemsOf
    <3>2. PICK j \in 1..Len(queue) : queue[j] = UserItem(l)
      BY DEF WaitingIn, Queued, ItemsOf
    <3>3. queue[i].kind = "user" /\ queue[i].id = k /\ queue[j].kind = "user" /\ queue[j].id = l
      BY <1>8, <3>1, <3>2, ItemOf
    <3>4. old[k] = old[l] /\ old[k] \in Nat
      BY <1>1, <1>6, <1>8, <2>1 DEF AnEntry
    <3>5. ~(i < j) /\ ~(j < i)
      BY <1>7, <3>3, <3>4 DEF Rising
    <3>6. i = j
      <4>1. Len(queue) \in Nat
        BY <1>1
      <4> QED
        BY <3>5, <4>1
    <3> QED
      BY <3>3, <3>6
  <2>2. \A k, l \in WaitingIn(queue') : entry[k].turn = entry[l].turn => k = l
    BY <1>2, <2>1
  <2>3. Rising(queue', [k \in Message |-> Renumbered(queue')[k].turn], {})
    BY <1>1, <1>2, <2>2, RenumberedRises
  <2>4. key = [k \in Message |-> Renumbered(queue')[k].turn]
    BY <1>2, <1>3 DEF Turns
  <2> QED
    BY <2>3, <2>4
<1>10. Saved' = Saved /\ MailedIn(mailbox') \subseteq M /\ W \cap M = {} /\ (W \cup M) \cap Saved = {}
  BY HandlesSets DEF OnceInLine
<1>11. \A k \in M \cup Saved : key[k] = old[k]
  BY <1>2, <1>4, <1>6, <1>8, <1>10
<1>12. MailRises(mailbox', key, {})
  <2>1. MailRises(mailbox', old, {})
    BY <1>1, <1>7, MailTailRises
  <2>2. mailbox' \in Seq(ACommand)
    BY <1>1, TailHas
  <2>3. \A i \in 1..Len(mailbox') : IsPost(mailbox'[i]) => mailbox'[i].item.id \in M
    BY <1>10, <2>2, PostAt
  <2> QED
    BY <1>11, <2>1, <2>3 DEF MailRises
<1>13. \A a \in W : \E l \in W : key[a] = old[l]
  BY <1>2, <1>4, <1>6, <1>8
<1>14. Before(WaitingIn(queue'), MailedIn(mailbox'), key, {}) /\ Before(WaitingIn(queue') \cup MailedIn(mailbox'), Saved', key, {})
  <2>1. ASSUME NEW a \in W, NEW b \in M \cup Saved
        PROVE  key[a] < key[b]
    BY <1>7, <1>11, <1>13
  <2>2. ASSUME NEW a \in M, NEW b \in Saved
        PROVE  key[a] < key[b]
    BY <1>7, <1>11
  <2> QED
    BY <1>2, <1>10, <2>1, <2>2 DEF Before
<1>15. Rises(queue', mailbox', Saved', key, {})
  BY <1>9, <1>12, <1>14 DEF Rises
<1> QED
  BY <1>3, <1>15

LEMMA ClimbingStep ==
  ASSUME Typed, SteeredKnown, OnceInLine, OneClient, Climbing, [Next]_vars
  PROVE  Climbing'
<1>1. /\ entry \in [Message -> AnEntry] /\ sending \in [Sender -> [step : {"none", "read", "saved"}, n : Nat]]
      /\ queue \in Seq(AnItem) /\ mailbox \in Seq(ACommand)
  BY DEF Typed, TypedChat, TypedActor
<1>2. Line \in SUBSET Message /\ Line' \in SUBSET Message
  BY LineTypes DEF Line, WaitingIn, MailedIn, Saved
<1>3. \A m \in Line' \ Line : m = posted + 1 /\ \E s \in Sender : PostSaves(s)
  BY LineGrows
<1>5. Rises(queue', mailbox', Saved', Turns', {})
  <2>1. ASSUME NEW m \in Message, Moved(m), Handles
        PROVE  Rises(queue', mailbox', Saved', Turns', {})
    BY <2>1, MovedClimbs
  <2>2. CASE \A m \in Message : ~(Handles /\ Moved(m))
    <3>1. PICK key : key = [m \in Message |-> IF m \in Line THEN Turns[m] ELSE Turns'[m]]
      OBVIOUS
    <3>2. PICK old : old = Turns
      OBVIOUS
    <3>3. PICK now : now = Turns'
      OBVIOUS
    <3>4. \A m \in Message : old[m] = entry[m].turn /\ now[m] = entry'[m].turn /\ key[m] = IF m \in Line THEN old[m] ELSE now[m]
      BY <3>1, <3>2, <3>3 DEF Turns
    <3>5. Rises(queue, mailbox, Saved, key, {})
      <4>1. Rises(queue, mailbox, Saved, old, {})
        BY <3>2 DEF Climbing
      <4>2. \A m \in WaitingIn(queue) \cup MailedIn(mailbox) \cup Saved : key[m] = old[m]
        BY <1>2, <3>4 DEF Line
      <4>3. Saved \in SUBSET Message
        BY DEF Saved
      <4> QED
        BY <1>1, <4>1, <4>2, <4>3, RisesRekeyed
    <3>6. ASSUME NEW s \in Sender, PostSaves(s), NEW m \in Line \ {}
          PROVE  key[m] < key[posted + 1]
      <4>1. /\ posted + 1 \in Message /\ posted + 1 \notin Line
            /\ entry'[posted + 1] = [status |-> "queued", turn |-> sending[s].n, removed |-> FALSE]
        BY <3>6, SavesSets
      <4>2. key[posted + 1] = sending[s].n
        BY <3>4, <4>1
      <4>3. key[m] = entry[m].turn
        BY <1>2, <3>4, <3>6
      <4> QED
        BY <3>6, <4>2, <4>3 DEF PostSaves, Climbing
    <3>7. Rises(queue', mailbox', Saved', key, {})
      BY <2>2, <3>5, <3>6, RisesStep
    <3>8. \A m \in WaitingIn(queue') \cup MailedIn(mailbox') \cup Saved' : now[m] = key[m]
      <4>1. ASSUME NEW m \in Line'
            PROVE  now[m] = key[m]
        <5>1. m \in Message
          BY <1>2
        <5>2. m \in Line => entry'[m].turn = entry[m].turn
          BY <2>2, <5>1, EntryGoes
        <5> QED
          BY <3>4, <5>1, <5>2
      <4> QED
        BY <4>1 DEF Line
    <3>9. queue' \in Seq(AnItem) /\ mailbox' \in Seq(ACommand) /\ Saved' \in SUBSET Message
      <4>1. Typed'
        BY TypedStep
      <4> QED
        BY <4>1 DEF Typed, TypedActor, Saved
    <3>10. Rises(queue', mailbox', Saved', now, {})
      BY <3>7, <3>8, <3>9, RisesRekeyed
    <3> QED
      BY <3>3, <3>10
  <2> QED
    BY <2>1, <2>2
<1>6. ASSUME NEW s \in Sender, sending'[s].step = "read", NEW m \in Line'
      PROVE  entry'[m].turn < sending'[s].n
  <2>1. m \in Message
    BY <1>2
  <2>2. CASE PostReads(s) /\ sending'[s].n = max_turn + 1
    <3>1. entry' = entry
      BY <2>2 DEF PostReads
    <3>2. max_turn \in Nat /\ entry[m].turn <= max_turn /\ entry[m].turn \in Nat
      BY <1>1, <2>1, MaxTurn DEF Typed, TypedChat, AnEntry
    <3> QED
      BY <2>2, <3>1, <3>2
  <2>3. CASE sending'[s] = sending[s]
    <3>1. m \in Line
      <4>1. ASSUME NEW t \in Sender, PostSaves(t)
            PROVE  FALSE
        <5>1. t = s
          BY DEF OneClient
        <5>2. sending'[s] = [step |-> "saved", n |-> posted + 1]
          BY <1>1, <4>1, <5>1 DEF PostSaves
        <5> QED
          BY <1>6, <5>2
      <4> QED
        BY <1>3, <1>6, <4>1
    <3>2. \A l \in Line : entry[l].turn < sending'[s].n
      BY <1>6, <2>3 DEF Climbing
    <3>3. CASE \A k \in Message : ~(Handles /\ Moved(k))
      BY <1>6, <2>1, <3>1, <3>2, <3>3, EntryGoes
    <3>4. ASSUME NEW k \in Message, Moved(k)
          PROVE  entry'[m].turn < sending'[s].n
      <4>1. /\ m \notin WaitingIn(queue) => entry'[m] = entry[m]
            /\ m \in WaitingIn(queue) => \E l \in WaitingIn(queue) : entry'[m].turn = entry[l].turn
        BY <2>1, <3>4, MovedIs
      <4> QED
        BY <3>1, <3>2, <4>1 DEF Line
    <3> QED
      BY <3>3, <3>4
  <2> QED
    BY <1>1, <1>6, <2>2, <2>3, ReadsStep
<1>7. PICK now : now = Turns'
  OBVIOUS
<1>8. Rises(queue, mailbox, Saved, Turns, {})'
  <2>1. Rises(queue', mailbox', Saved', now, {})
    BY <1>5, <1>7
  <2> QED
    BY <1>7, <2>1 DEF Rises, Rising, MailRises, IsPost, Before, WaitingIn, Queued, ItemsOf, MailedIn, Has
<1> QED
  BY <1>6, <1>8 DEF Climbing

\* A message that waits becomes sent with a turn that starts, or when the agent's word
\* that it took it arrives, which ends its flight.
LEMMA JoinsLand ==
  ASSUME Typed, SteeredKnown, OnceInLine, [Next]_vars, NEW m \in WaitingIn(queue), entry'[m].status = "sent", turn.phase # "idle"
  PROVE  inflight'[m] = "no"
<1>1. /\ entry \in [Message -> AnEntry] /\ mailbox \in Seq(ACommand) /\ turn.number \in Nat
      /\ inflight \in [Message -> {"no", "yes", "back"}]
  BY DEF Typed, TypedChat, TypedActor, ATurn
<1>2. m \in Message /\ m \in Line /\ entry[m].status = "queued"
  BY DEF WaitingIn, OnceInLine, Line
<1>3. entry' # entry
  BY <1>2
<1>4. ASSUME NEW s \in Sender, PostReads(s) \/ PostSaves(s) \/ Send(s)
      PROVE  FALSE
  <2>1. ~PostReads(s) /\ ~Send(s)
    BY <1>3 DEF PostReads, Send
  <2>2. posted + 1 \notin Line /\ \A k \in Message \ {posted + 1} : entry'[k] = entry[k]
    BY <1>4, <2>1, SavesSets
  <2> QED
    BY <1>2, <2>2
<1>5. CASE HandleCommand
  <2> DEFINE c == Head(mailbox)
  <2>1. \/ c.cmd = "queue" /\ OnQueue(c.item)
        \/ c.cmd = "steer" /\ OnSteer(c.id)
        \/ c.cmd = "unqueue" /\ OnUnqueue(c.id)
        \/ c.cmd = "steered" /\ OnSteered(c.id, c.outcome)
        \/ c.cmd = "stop" /\ OnStop
    BY <1>5 DEF HandleCommand
  <2>2. c.cmd \in {"steer", "unqueue", "steered"} => c.id \in Message
    <3>1. c \in ACommand
      BY <1>5, TailHas DEF Typed, HandleCommand
    <3> QED
      BY <3>1, CommandIs
  <2>3. ASSUME NEW S \in SUBSET Message, NEW gone \in BOOLEAN, entry' = Cancelled(S, gone)
        PROVE  FALSE
    <3>1. m \in S => Cancelled(S, gone)[m].status = "cancelled"
      BY <1>1, <1>2, CancelledIs
    <3>2. m \notin S => Cancelled(S, gone)[m] = entry[m]
      BY <1>1, <1>2, CancelledIs
    <3> QED
      BY <1>2, <2>3, <3>1, <3>2
  <2>4. ~(Moved(c.id) /\ c.id \in Message)
    BY <1>2, MovedIs
  <2> HIDE DEF c
  <2>5. CASE c.cmd = "queue" /\ OnQueue(c.item)
    BY <1>3, <2>5 DEF OnQueue
  <2>6. CASE c.cmd = "steer" /\ OnSteer(c.id)
    <3>1. entry' = entry \/ Moved(c.id)
      BY <2>6 DEF OnSteer, Moved
    <3> QED
      BY <1>3, <2>2, <2>4, <2>6, <3>1
  <2>7. CASE c.cmd = "unqueue" /\ OnUnqueue(c.id)
    <3>1. entry' = entry \/ entry' = Cancelled({c.id}, TRUE)
      BY <2>7 DEF OnUnqueue
    <3>2. {c.id} \in SUBSET Message
      BY <2>2, <2>7
    <3> QED
      BY <1>3, <2>3, <3>1, <3>2
  <2>8. CASE c.cmd = "stop" /\ OnStop
    <3>1. WaitingIn(queue) \in SUBSET Message
      BY DEF WaitingIn
    <3> QED
      BY <2>3, <2>8, <3>1 DEF OnStop
  <2>9. CASE c.cmd = "steered" /\ OnSteered(c.id, c.outcome)
    <3>1. c.id \in Message /\ Settled(c.id, c.outcome) /\ inflight' = [inflight EXCEPT ![c.id] = "no"] /\ steered' = steered
      BY <2>2, <2>9 DEF OnSteered
    <3>2. entry' = entry \/ entry' = Joined(c.id) \/ entry' = Cancelled({c.id}, TRUE) \/ Moved(c.id)
      BY <3>1 DEF Settled, Moved, SteeredKnown, InFlight
    <3>3. entry' = Joined(c.id)
      <4>1. {c.id} \in SUBSET Message
        BY <3>1
      <4> QED
        BY <1>3, <2>3, <2>4, <3>1, <3>2, <4>1
    <3>4. m = c.id
      <4>1. \A k \in Message : k # c.id => Joined(c.id)[k] = entry[k]
        BY <1>1, <3>1, JoinedIs
      <4> QED
        BY <1>2, <3>3, <4>1
    <3> QED
      BY <1>1, <1>2, <3>1, <3>4
  <2> QED
    BY <2>1, <2>5, <2>6, <2>7, <2>8, <2>9
<1>6. CASE StartUserTurn
  BY <1>6 DEF StartUserTurn
<1>7. CASE \/ \E kind \in Other : OtherArrives(kind)
           \/ \E k \in Message : Touch("steer", k) \/ Touch("unqueue", k)
           \/ Stop
  BY <1>3, <1>7 DEF OtherArrives, Touch, Stop, chatVars
<1>8. CASE StartOtherTurn \/ Prompted \/ StartFails \/ TakeDone
  BY <1>3, <1>8 DEF StartOtherTurn, Prompted, StartFails, TakeDone, chatVars
<1>9. CASE AgentStep \/ KillAgent
  BY <1>3, <1>9, AgentKeeps DEF Kept
<1>10. ASSUME NEW resume \in BOOLEAN, Restart(resume)
       PROVE  inflight'[m] = "no"
  BY <1>2, <1>10 DEF Restart
<1>11. CASE UNCHANGED vars
  BY <1>3, <1>11 DEF vars
<1> QED
  BY <1>4, <1>5, <1>6, <1>7, <1>8, <1>9, <1>10, <1>11 DEF Next

\* A message is sent with the number of its turn or a lower one; the answer to a steer,
\* while it is on its way, still finds the turn that took the message.
Numbered ==
  /\ \A m \in Opening : entry[m].turn <= turn.number /\ entry[m].status = "sent"
  /\ \A m \in Message : InFlight(m) => entry[m].status # "sent"
  /\ \A i \in 1..Len(took) : took[i].id \in WaitingIn(queue) => took[i].joined /\ took[i].turn = turn.number
  /\ InItsTurn

LEMMA FlightsGo ==
  ASSUME Typed, Steers, AnswersLost = FALSE, [Next]_vars, NEW m \in Message, inflight'[m] # "no"
  PROVE  inflight[m] # "no" \/ (m \in WaitingIn(queue) /\ m \in WaitingIn(queue') /\ turn.phase = "running")
<1>1. inflight \in [Message -> {"no", "yes", "back"}]
  BY DEF Typed, TypedActor
<1>2. AgentGoes
  BY AgentSteps
<1>3. CASE Still \/ Prompts \/ Forgets
  BY <1>3 DEF Still, SameInFlight, Prompts, Forgets
<1>4. ASSUME NEW k \in Message, Offers(k)
      PROVE  inflight[m] # "no" \/ (m \in WaitingIn(queue) /\ m \in WaitingIn(queue') /\ turn.phase = "running")
  BY <1>1, <1>4 DEF Offers
<1>5. ASSUME NEW k \in Message, NEW o \in Outcome, Says(k, o) \/ Hears(k, o)
      PROVE  inflight[m] # "no"
  BY <1>1, <1>5 DEF Says, Hears
<1> QED
  BY <1>2, <1>3, <1>4, <1>5 DEF AgentGoes

LEMMA NumberedStep ==
  ASSUME Typed, SteeredKnown, OnceInLine, Apart, Steers, OneClient, Climbing, Numbered, AnswersLost = FALSE, [Next]_vars
  PROVE  Numbered'
<1> DEFINE W == WaitingIn(queue)
           W2 == WaitingIn(queue')
           Right(r) == entry'[r.id].status = "sent"
                         => IF r.joined THEN entry'[r.id].turn = r.turn ELSE entry'[r.id].turn <= r.turn
           Joins(r) == r.id \in W2 => r.joined /\ r.turn = turn'.number
<1>1. /\ \A m \in Opening : entry[m].turn <= turn.number /\ entry[m].status = "sent"
      /\ \A m \in Message : inflight[m] # "no" => entry[m].status # "sent"
      /\ \A i \in 1..Len(took) : /\ took[i].id \in W => took[i].joined /\ took[i].turn = turn.number
                                 /\ entry[took[i].id].status = "sent"
                                      => IF took[i].joined THEN entry[took[i].id].turn = took[i].turn
                                                           ELSE entry[took[i].id].turn <= took[i].turn
  BY DEF Numbered, InItsTurn, InFlight
<1>2. /\ took \in Seq(ATook) /\ entry \in [Message -> AnEntry] /\ turn \in ATurn
      /\ TookIds \in SUBSET Message /\ Opening \in SUBSET Message
      /\ Len(took) \in Nat /\ \A i \in 1..Len(took) : took[i] \in ATook /\ took[i].id \in TookIds
  BY TookTypes DEF Typed, TypedHistory, TypedChat, TypedActor
<1>3. /\ Opening \cap (W \cup TookIds) = {} /\ (Opening \cup TookIds) \cap Fresh = {}
      /\ \A m \in Message : inflight[m] # "no" => m \notin Fresh /\ turn.phase = "running"
  BY DEF Apart, Steers, InFlight
<1>4. W2 \subseteq W \cup Fresh
  BY FreshGoes
<1>5. \A m \in Message :
        /\ m \notin W /\ m \notin Fresh => entry'[m] = entry[m] \/ (entry[m].status = "queued" /\ entry'[m].status = "failed")
        /\ m \in W /\ entry'[m].status = "sent" => turn.phase = "idle" \/ (entry'[m].turn = turn.number /\ m \notin W2)
  BY EntryGoes
<1>6. \A m \in W \cap TookIds : inflight[m] # "no"
  <2>1. "joined" \in Outcome
    BY DEF Outcome
  <2>2. \A m \in Message : Has(mailbox, {AnswerOf(m, "joined")}) => Has(mailbox, AnswersTo(m))
    BY <2>1 DEF Has, AnswersTo
  <2> QED
    BY <1>2, <2>2 DEF Steers, InFlight
<1>7. \A m \in W2 \cap TookIds' : m \in Message => inflight'[m] # "no"
  <2>1. Steers'
    BY SteersStep
  <2>2. "joined" \in Outcome
    BY DEF Outcome
  <2>3. \A m \in Message : Has(mailbox', {AnswerOf(m, "joined")}) => Has(mailbox', AnswersTo(m))
    BY <2>2 DEF Has, AnswersTo
  <2>4. \A m \in Message : m \in W2 \cap TookIds' => Has(mailbox', {AnswerOf(m, "joined")})
    BY <2>1 DEF Steers, AnswerOf
  <2>5. \A m \in Message : Has(mailbox', AnswersTo(m)) => inflight'[m] # "no"
    BY <2>1 DEF Steers, AnswersTo, AnswerOf, InFlight
  <2> QED
    BY <2>3, <2>4, <2>5
<1> HIDE DEF W, W2
<1>8. \A m \in Opening' : entry'[m].turn <= turn'.number /\ entry'[m].status = "sent"
  <2>1. ASSUME NEW m \in Opening, turn' = turn, Opening' = Opening
        PROVE  entry'[m].turn <= turn'.number /\ entry'[m].status = "sent"
    <3>1. m \in Message /\ m \notin W /\ m \notin Fresh
      BY <1>2, <1>3
    <3>2. turn.phase = "starting"
      BY <2>1 DEF Opening
    <3> QED
      BY <1>1, <1>5, <2>1, <3>1
  <2>2. CASE StartUserTurn
    <3>1. PICK k \in 1..Len(queue) :
           /\ k \in Nat /\ turn'.number = entry[queue[k].id].turn
           /\ \A i \in 1..k : i \in 1..Len(queue) /\ queue[i].kind = "user" /\ queue[i].id \in Message
           /\ Opening' = {queue[i].id : i \in 1..k}
           /\ \A m \in Message : entry'[m].turn = entry[m].turn /\ (m \in Opening' => entry'[m].status = "sent")
      BY <2>2, BatchIs
    <3>2. ASSUME NEW i \in 1..k
          PROVE  entry[queue[i].id].turn <= entry[queue[k].id].turn
      <4>1. i \in 1..Len(queue) /\ k \in 1..Len(queue) /\ k \in 1..k
        BY <3>1
      <4>2. /\ queue[i].kind = "user" /\ queue[k].kind = "user" /\ queue[i].id \in Message /\ queue[k].id \in Message
        BY <3>1, <4>1
      <4>3. \A a, b \in 1..Len(queue) : a < b /\ queue[a].kind = "user" /\ queue[b].kind = "user"
              => Turns[queue[a].id] < Turns[queue[b].id]
        BY DEF Climbing, Rises, Rising
      <4>4. \A m \in Message : Turns[m] = entry[m].turn /\ entry[m].turn \in Nat
        BY <1>2 DEF Turns, AnEntry
      <4>5. CASE i < k
        BY <4>1, <4>2, <4>3, <4>4, <4>5
      <4>6. CASE i = k
        BY <4>2, <4>4, <4>6
      <4> QED
        BY <3>1, <4>5, <4>6
    <3> QED
      BY <3>1, <3>2
  <2> QED
    BY <2>1, <2>2, OpensFrom
<1>9. ASSUME NEW m \in Message, inflight'[m] # "no", entry'[m].status = "sent"
      PROVE  FALSE
  <2>1. inflight[m] # "no" \/ (m \in W /\ m \in W2 /\ turn.phase = "running")
    BY <1>9, FlightsGo DEF W, W2
  <2>2. turn.phase = "running"
    BY <1>3, <2>1
  <2>3. m \notin W
    BY <1>9, <2>2, JoinsLand DEF W
  <2> QED
    BY <1>1, <1>3, <1>5, <1>9, <2>1, <2>3
<1>10. ASSUME NEW i \in 1..Len(took)
       PROVE  Right(took[i]) /\ Joins(took[i])
  <2> DEFINE r == took[i]
             m == r.id
  <2>1. /\ m \in Message /\ m \in TookIds /\ m \notin Fresh /\ r \in ATook
        /\ m \in W => r.joined /\ r.turn = turn.number /\ turn.phase = "running"
        /\ entry[m].status = "sent" => IF r.joined THEN entry[m].turn = r.turn ELSE entry[m].turn <= r.turn
    BY <1>1, <1>2, <1>3, <1>6
  <2> HIDE DEF m, r
  <2>2. m \in TookIds'
    BY <2>1, TookGoes
  <2>3. Right(r)
    <3>1. CASE m \in W
      BY <1>5, <2>1, <3>1 DEF m
    <3>2. CASE m \notin W
      BY <1>5, <2>1, <3>2 DEF m
    <3> QED
      BY <3>1, <3>2
  <2>4. ASSUME m \in W2
        PROVE  r.joined /\ r.turn = turn'.number
    <3>1. m \in W
      BY <1>4, <2>1, <2>4
    <3>2. inflight'[m] # "no"
      BY <1>7, <2>1, <2>2, <2>4
    <3>3. turn'.number = turn.number
      BY <2>1, <3>1, <3>2, TurnKeeps
    <3> QED
      BY <2>1, <3>1, <3>3
  <2> QED
    BY <2>3, <2>4 DEF m, r
<1>11. \A i \in 1..Len(took') : Right(took'[i]) /\ Joins(took'[i])
  <2>1. CASE took' = took
    <3> HIDE DEF Right, Joins
    <3> QED
      BY <1>10, <2>1
  <2>2. CASE Prompts
    <3> DEFINE n == Len(took)
               b == turn.batch
    <3>1. /\ Len(b) \in Nat /\ Len(took') = n + Len(b) /\ \A i \in 1..n : took'[i] = took[i]
          /\ \A i \in 1..Len(b) : took'[n + i] = [id |-> b[i], turn |-> turn.number, joined |-> FALSE]
      BY <2>2, TookPrompted
    <3>2. ASSUME NEW i \in 1..Len(b)
          PROVE  LET r == [id |-> b[i], turn |-> turn.number, joined |-> FALSE] IN Right(r) /\ Joins(r)
      <4>1. b[i] \in Opening /\ b[i] \in Message /\ b[i] \notin W /\ b[i] \notin Fresh
        <5>1. b[i] \in Opening
          BY <2>2 DEF Prompts, Opening
        <5> QED
          BY <1>2, <1>3, <5>1
      <4>2. b[i] \notin W2
        BY <1>4, <4>1
      <4>3. entry'[b[i]].status = "sent" => entry'[b[i]].turn <= turn.number
        BY <1>1, <1>5, <4>1
      <4> QED
        BY <4>2, <4>3
    <3>3. \A i \in 1..Len(took') : (i \in 1..n /\ took'[i] = took[i]) \/ \E j \in 1..Len(b) : i = n + j
      <4>1. ASSUME NEW i \in 1..Len(took'), i \notin 1..n
            PROVE  \E j \in 1..Len(b) : i = n + j
        <5>1. i - n \in 1..Len(b) /\ i = n + (i - n)
          BY <1>2, <3>1, <4>1
        <5> QED
          BY <5>1
      <4> QED
        BY <3>1, <4>1
    <3> HIDE DEF Right, Joins
    <3>4. \A j \in 1..Len(b) : Right(took'[n + j]) /\ Joins(took'[n + j])
      BY <3>1, <3>2
    <3> QED
      BY <1>10, <3>3, <3>4
  <2>3. ASSUME NEW k \in Message, took' = Append(took, [id |-> k, turn |-> turn.number, joined |-> TRUE]),
               [id |-> k, turn |-> turn.number, joined |-> TRUE] \in ATook, InFlight(k), turn' = turn, k \in awaited
        PROVE  \A i \in 1..Len(took') : Right(took'[i]) /\ Joins(took'[i])
    <3> DEFINE r == [id |-> k, turn |-> turn.number, joined |-> TRUE]
    <3>1. Right(r) /\ Joins(r)
      <4>1. entry[k].status # "sent" /\ k \notin Fresh /\ turn.phase = "running"
        BY <1>1, <1>3, <2>3 DEF InFlight
      <4>2. entry'[k].status = "sent" => entry'[k].turn = turn.number
        <5>1. CASE k \in W
          BY <1>5, <4>1, <5>1
        <5>2. CASE k \notin W
          BY <1>5, <4>1, <5>2
        <5> QED
          BY <5>1, <5>2
      <4> QED
        BY <2>3, <4>2
    <3>2. /\ r \in ATook /\ took' = Append(took, r)
      BY <2>3
    <3> HIDE DEF r, Right, Joins
    <3>3. /\ Len(took') = Len(took) + 1 /\ \A i \in 1..Len(took) : took'[i] = took[i]
          /\ took'[Len(took) + 1] = r
      BY <1>2, <3>2, TookAppend
    <3>4. \A i \in 1..Len(took') : (i \in 1..Len(took) /\ took'[i] = took[i]) \/ took'[i] = r
      BY <1>2, <3>3
    <3> QED
      BY <1>10, <3>1, <3>4
  <2> QED
    BY <2>1, <2>2, <2>3, TookGoes
<1>12. InItsTurn'
  BY <1>11 DEF InItsTurn
<1>13. \A i \in 1..Len(took') : took'[i].id \in WaitingIn(queue') => took'[i].joined /\ took'[i].turn = turn'.number
  BY <1>11 DEF W2
<1> QED
  BY <1>8, <1>9, <1>12, <1>13 DEF Numbered, InFlight

-----------------------------------------------------------------------------
(* Order and numbers, in every behaviour of one client. *)

LEMMA NothingOnItsWay ==
  ASSUME Init
  PROVE  /\ Known /\ WaitingIn(queue) = {} /\ MailedIn(mailbox) = {} /\ Saved = {} /\ Line = {} /\ Opening = {} /\ TookIds = {}
         /\ queue = <<>> /\ mailbox = <<>> /\ took = <<>>
<1>1. Known
  BY StartsWell DEF Known
<1>2. queue = <<>> /\ mailbox = <<>> /\ took = <<>> /\ turn.phase = "idle" /\ \A s \in Sender : sending[s].step = "none"
  BY DEF Init, Idle, NotPosting
<1>3. WaitingIn(queue) = {} /\ MailedIn(mailbox) = {}
  BY <1>2, NoneWait
<1>4. Saved = {}
  BY <1>2 DEF Saved
<1> QED
  BY <1>1, <1>2, <1>3, <1>4 DEF Line, Opening, TookIds

\* Whatever is steered, taken back, stopped or cut off by a restart, the messages nobody
\* steered reach the agent in the order they were posted, when one client posts them.
THEOREM OrderKeptAlways ==
  ASSUME OneClient
  PROVE  Spec => []OrderKept
<1>1. Init => Known /\ Ordered
  <2>1. SUFFICES ASSUME Init PROVE Known /\ Ordered
    OBVIOUS
  <2>2. \A key, X, S : Rising(queue, key, X) /\ MailRises(mailbox, key, X) /\ Before({}, S, key, X)
    BY <2>1, NothingOnItsWay DEF Rising, MailRises, Before
  <2>3. OrderKept /\ turn.phase = "idle"
    BY <2>1, NothingOnItsWay DEF OrderKept, Init, Idle
  <2> QED
    BY <2>1, <2>2, <2>3, NothingOnItsWay DEF Ordered, Rises
<1>2. Known /\ Ordered /\ [Next]_vars => (Known /\ Ordered)'
  BY TypedStep, OnceStep, KnownStep, OrderedStep DEF Known
<1>3. Ordered => OrderKept
  BY DEF Ordered
<1> QED
  BY <1>1, <1>2, <1>3, PTL DEF Spec

LEMMA ClimbsFirst ==
  ASSUME Init
  PROVE  Known /\ Climbing
<1>1. \A key, X, S : Rising(queue, key, X) /\ MailRises(mailbox, key, X) /\ Before({}, S, key, X)
  BY NothingOnItsWay DEF Rising, MailRises, Before
<1> QED
  BY <1>1, NothingOnItsWay DEF Climbing, Rises

\* The numbers of the waiting messages rise along the queue, whatever was steered or
\* renumbered, when one client posts: a batch runs as its highest number.
THEOREM WaitingInOrderAlways ==
  ASSUME OneClient
  PROVE  Spec => []WaitingInOrder
<1>1. Init => Known /\ Climbing
  BY ClimbsFirst
<1>2. Known /\ Climbing /\ [Next]_vars => (Known /\ Climbing)'
  BY TypedStep, OnceStep, KnownStep, ClimbingStep DEF Known
<1>3. Known /\ Climbing => WaitingInOrder
  <2>1. SUFFICES ASSUME Known, Climbing, NEW i \in 1..Len(queue), NEW j \in 1..Len(queue),
                        i < j, queue[i].kind = "user", queue[j].kind = "user"
                 PROVE  entry[queue[i].id].turn < entry[queue[j].id].turn
    BY DEF WaitingInOrder
  <2>2. queue[i].id \in Message /\ queue[j].id \in Message
    BY <2>1, UserAt DEF Known, Typed, TypedActor
  <2>3. Turns[queue[i].id] < Turns[queue[j].id]
    BY <2>1 DEF Climbing, Rises, Rising
  <2> QED
    BY <2>2, <2>3 DEF Turns
<1> QED
  BY <1>1, <1>2, <1>3, PTL DEF Spec

\* A message that joined a turn carries that turn's number, and one that opened a turn
\* has at most its number, when one client posts and every answer to a steer comes in time.
THEOREM InItsTurnAlways ==
  ASSUME OneClient, AnswersLost = FALSE
  PROVE  Spec => []InItsTurn
<1>1. Init => Climbing /\ Numbered
  <2>1. SUFFICES ASSUME Init PROVE Climbing /\ Numbered
    OBVIOUS
  <2>2. \A m \in Message : ~InFlight(m)
    BY <2>1 DEF Init, InFlight
  <2> QED
    BY <2>1, <2>2, ClimbsFirst, NothingOnItsWay DEF Numbered, InItsTurn
<1>2. Handed /\ Climbing /\ Numbered /\ [Next]_vars => (Climbing /\ Numbered)'
  BY ClimbingStep, NumberedStep DEF Handed, Known
<1>3. Numbered => InItsTurn
  BY DEF Numbered
<1>4. Spec => []Handed
  BY HandedAlways
<1> QED
  BY <1>1, <1>2, <1>3, <1>4, PTL DEF Spec

-----------------------------------------------------------------------------
(* The running turn is the newest, when one client posts and only the user  *)
(* starts turns.                                                            *)

Notices == {x \in AnItem : x.kind # "user"}
NoticesSent == {c \in ACommand : c.cmd = "queue" /\ c.item \in Notices}
UsersOnly == ~Has(queue, Notices) /\ ~Has(mailbox, NoticesSent)

LEMMA WithoutFewer ==
  ASSUME NEW q \in Seq(AnItem), NEW m \in Message, Queued(q, m), NEW T
  PROVE  /\ Has(Without(q, m), T) => Has(q, T)
         /\ Has(MoveFirst(q, m), T) => Has(q, T) \/ UserItem(m) \in T
<1>1. QueuedAt(q, m) \in 1..Len(q)
  BY DEF Queued, ItemsOf, QueuedAt
<1>2. Without(q, m) \in Seq(AnItem) /\ \E f : Part(Without(q, m), q, f)
  BY <1>1, RemoveIs DEF Without
<1>3. Has(Without(q, m), T) => Has(q, T)
  BY <1>2, PartHas
<1>4. UserItem(m) \in AnItem
  BY DEF UserItem, AnItem
<1> QED
  BY <1>2, <1>3, <1>4, FirstHas DEF MoveFirst

LEMMA UsersOnlyStep ==
  ASSUME Typed, SteeredKnown, OnceInLine, UsersOnly, Other = {}, [Next]_vars
  PROVE  UsersOnly'
<1>1. mailbox \in Seq(ACommand) /\ queue \in Seq(AnItem)
  BY DEF Typed, TypedActor
<1>2. ~Has(mailbox', NoticesSent)
  <2>1. CASE mailbox' = mailbox
    BY <2>1 DEF UsersOnly
  <2>2. ASSUME NEW c \in ACommand, c \notin NoticesSent, Tell(c)
        PROVE  ~Has(mailbox', NoticesSent)
    BY <1>1, <2>2, AppendHas DEF Tell, UsersOnly
  <2>3. CASE HandleCommand
    BY <1>1, <2>3, TailHas DEF HandleCommand, UsersOnly
  <2>4. ASSUME NEW s \in Sender, PostReads(s) \/ PostSaves(s)
        PROVE  mailbox' = mailbox
    BY <2>4 DEF PostReads, PostSaves
  <2>5. ASSUME NEW s \in Sender, Send(s)
        PROVE  ~Has(mailbox', NoticesSent)
    <3>1. sending[s].n \in Message
      BY <2>5 DEF Send, Typed, TypedChat
    <3>2. UserCmd(sending[s].n) \in ACommand /\ UserCmd(sending[s].n) \notin NoticesSent
      BY <3>1, PostOf DEF UserCmd, UserItem, NoticesSent, Notices
    <3> QED
      BY <2>2, <2>5, <3>2 DEF Send, UserCmd
  <2>6. ASSUME NEW m \in Message, Touch("steer", m) \/ Touch("unqueue", m)
        PROVE  ~Has(mailbox', NoticesSent)
    BY <2>2, <2>6 DEF Touch, ACommand, NoticesSent
  <2>7. CASE Stop
    BY <2>2, <2>7 DEF Stop, ACommand, NoticesSent
  <2>8. ASSUME NEW m \in Message, NEW o \in Outcome, Answer(m, o)
        PROVE  ~Has(mailbox', NoticesSent)
    <3>1. [cmd |-> "steered", id |-> m, outcome |-> o] \in ACommand \ NoticesSent
      BY DEF ACommand, NoticesSent
    <3> QED
      BY <2>1, <2>2, <2>8, <3>1 DEF Answer
  <2>9. ASSUME NEW m \in Message, AgentTakes(m) \/ AgentRefuses(m, "next") \/ AgentRefuses(m, "failed") \/ SteerLost(m) \/ AnswerFails(m)
        PROVE  ~Has(mailbox', NoticesSent)
    BY <2>8, <2>9 DEF AgentTakes, AgentRefuses, SteerLost, AnswerFails, Outcome
  <2>10. CASE \/ StartUserTurn \/ StartOtherTurn \/ Prompted \/ StartFails \/ TakeDone \/ KillAgent
              \/ AgentWrites \/ AgentEnds("ok") \/ AgentEnds("err") \/ AgentDies \/ UNCHANGED vars
    BY <2>1, <2>10 DEF StartUserTurn, StartOtherTurn, Prompted, StartFails, TakeDone, KillAgent, AgentWrites,
                       AgentEnds, AgentDies, vars
  <2>11. ASSUME NEW resume \in BOOLEAN, Restart(resume)
         PROVE  ~Has(mailbox', NoticesSent)
    BY <2>11, EmptyHas DEF Restart
  <2> QED
    BY <2>1, <2>3, <2>4, <2>5, <2>6, <2>7, <2>9, <2>10, <2>11 DEF Next, AgentStep
<1>3. ~Has(queue', Notices)
  <2>1. CASE queue' = queue
    BY <2>1 DEF UsersOnly
  <2>2. CASE Handles /\ Queues
    <3> DEFINE c == Head(mailbox)
    <3>1. c \in ACommand /\ c \notin NoticesSent /\ c.cmd = "queue" /\ queue' = Append(queue, c.item)
      BY <1>1, <2>2, TailHas DEF Handles, Queues, UsersOnly
    <3> HIDE DEF c
    <3>2. c.item \in AnItem /\ c.item \notin Notices
      BY <3>1, CommandIs DEF NoticesSent
    <3> QED
      BY <1>1, <3>1, <3>2, AppendHas DEF UsersOnly
  <2>3. ASSUME NEW m \in Message, Moved(m) \/ Dropped(m)
        PROVE  ~Has(queue', Notices)
    <3>1. UserItem(m) \notin Notices
      BY DEF UserItem, Notices
    <3> QED
      BY <1>1, <2>3, <3>1, WithoutFewer DEF Moved, Dropped, UsersOnly
  <2>4. CASE queue' = <<>>
    BY <2>4, EmptyHas
  <2>5. ASSUME NEW k \in 1..Len(queue), Starts(k)
        PROVE  ~Has(queue', Notices)
    BY <1>1, <2>5, AfterFirstIs DEF Starts, UsersOnly
  <2>6. ASSUME NEW s \in Sender, PostSaves(s) \/ Send(s)
        PROVE  queue' = queue
    BY <2>6 DEF PostSaves, Send, actorVars
  <2> QED
    BY <2>1, <2>2, <2>3, <2>4, <2>5, <2>6, LineSteps DEF LineGoes, Kept, Handles, Stopped, Emptied
<1> QED
  BY <1>2, <1>3 DEF UsersOnly

\* A message the agent has holds the turn: it runs on until the answer is in.
TurnHeld == \A m \in Message : InFlight(m) => turn.phase = "running"

\* The turn a step leaves: none, or the same one, stopping if it was.
SameTurn ==
  /\ turn'.phase = "idle" \/ (turn.phase # "idle" /\ turn'.phase # "idle" /\ turn'.number = turn.number /\ (turn.stop => turn'.stop))
  /\ shown' = shown
  /\ TurnHeld => TurnHeld'

LEMMA HandleSameTurn ==
  ASSUME Typed, HandleCommand
  PROVE  SameTurn
<1> DEFINE c == Head(mailbox)
<1>1. turn \in ATurn /\ inflight \in [Message -> {"no", "yes", "back"}]
  BY DEF Typed, TypedActor
<1>2. \/ OnQueue(c.item) \/ OnSteer(c.id) \/ OnUnqueue(c.id)
      \/ OnStop \/ (c.cmd = "steered" /\ OnSteered(c.id, c.outcome))
  BY DEF HandleCommand
<1>3. shown' = shown
  BY DEF HandleCommand
<1>4. c \in ACommand
  BY TailHas DEF Typed, HandleCommand
<1> HIDE DEF c
<1>5. turn.phase = "idle" \/ turn.phase # "idle"
  OBVIOUS
<1>6. CASE turn' = turn /\ inflight' = inflight
  BY <1>3, <1>6 DEF SameTurn, TurnHeld, InFlight
<1>7. CASE OnSteer(c.id)
  <2>1. CASE turn' = [turn EXCEPT !.stop = @ \/ Own] /\ inflight' = inflight
    <3>1. turn'.phase = turn.phase /\ turn'.number = turn.number /\ (turn.stop => turn'.stop)
      BY <1>1, <2>1 DEF ATurn
    <3> QED
      BY <1>3, <2>1, <3>1 DEF SameTurn, TurnHeld, InFlight
  <2>2. CASE Own /\ turn' = turn
    BY <1>3, <2>2 DEF SameTurn, TurnHeld, Own
  <2> QED
    BY <1>6, <1>7, <2>1, <2>2 DEF OnSteer, actorVars
<1>8. CASE OnUnqueue(c.id)
  <2>1. turn' = turn /\ \A m \in Message : InFlight(m)' => InFlight(m)
    BY <1>1, <1>8 DEF OnUnqueue, WithAgent, InFlight
  <2> QED
    BY <1>3, <2>1 DEF SameTurn, TurnHeld
<1>9. CASE OnStop
  <2>1. turn'.phase = turn.phase /\ turn'.number = turn.number /\ (turn.phase # "idle" => turn'.stop) /\ inflight' = inflight
    BY <1>1, <1>9 DEF OnStop, ATurn
  <2> QED
    BY <1>3, <2>1 DEF SameTurn, TurnHeld, InFlight
<1>10. CASE c.cmd = "steered" /\ OnSteered(c.id, c.outcome)
  <2>1. c.id \in Message /\ inflight' = [inflight EXCEPT ![c.id] = "no"]
    BY <1>4, <1>10, CommandIs DEF OnSteered
  <2>2. CASE LastAnswer(c.outcome)
    <3>1. turn'.phase = "idle" /\ \A k \in Message : ~InFlight(k)'
      BY <1>10, <2>2 DEF OnSteered, EndTurn, Idle, LastAnswer, InFlight
    <3> QED
      BY <1>3, <3>1 DEF SameTurn, TurnHeld
  <2>3. CASE ~LastAnswer(c.outcome)
    <3>1. turn'.phase = turn.phase /\ turn'.number = turn.number /\ turn'.stop = turn.stop
      <4>1. turn' = turn \/ turn' = [turn EXCEPT !.batch = Append(turn.batch, c.id)]
        BY <1>10, <2>3 DEF OnSteered
      <4> QED
        BY <1>1, <4>1 DEF ATurn
    <3>2. \A m \in Message : InFlight(m)' => InFlight(m)
      BY <1>1, <2>1 DEF InFlight
    <3> QED
      BY <1>3, <3>1, <3>2 DEF SameTurn, TurnHeld
  <2> QED
    BY <2>2, <2>3
<1> QED
  BY <1>2, <1>6, <1>7, <1>8, <1>9, <1>10 DEF OnQueue

Closed(m) == entry[m].status \notin {"none", "queued"} /\ ~entry[m].removed
Reading(s) == sending[s].step = "read"

\* Whatever waits, or is about to be saved, is numbered above the turns that ran and
\* the messages that are through; the running turn is the last that ran.
Newest ==
  /\ \A m \in Line : shown < entry[m].turn /\ \A k \in Message : Closed(k) => entry[k].turn < entry[m].turn
  /\ \A s \in Sender : Reading(s) =>
       shown < sending[s].n /\ \A k \in Message : Closed(k) => entry[k].turn < sending[s].n
  /\ written = {}
  /\ \E m \in Message : shown <= entry[m].turn
  /\ TurnHeld
  /\ turn.phase # "idle" => shown = turn.number
  /\ turn.phase # "idle" /\ ~turn.stop => \A m \in Message : Closed(m) => entry[m].turn <= turn.number

LEMMA LastTurn ==
  ASSUME Typed, Newest
  PROVE  /\ max_turn \in Nat /\ shown <= max_turn /\ \A m \in Message : entry[m].turn <= max_turn
         /\ \E m \in Message : max_turn = entry[m].turn
<1>1. /\ entry \in [Message -> AnEntry] /\ shown \in Nat /\ written = {} /\ written \in SUBSET Nat /\ IsFiniteSet(written)
  BY DEF Typed, TypedChat, TypedHistory, Newest
<1>2. /\ max_turn \in Nat /\ max_turn \in {0} \cup written \cup {entry[m].turn : m \in Message}
      /\ \A m \in Message : entry[m].turn <= max_turn
  BY <1>1, MaxTurn
<1>3. \A m \in Message : entry[m].turn \in Nat
  BY <1>1 DEF AnEntry
<1>4. PICK m \in Message : shown <= entry[m].turn
  BY DEF Newest
<1> HIDE DEF max_turn
<1>5. max_turn = 0 => max_turn = entry[m].turn
  BY <1>2, <1>3
<1> QED
  BY <1>1, <1>2, <1>3, <1>4, <1>5

\* A step that changes no message, and starts no turn.
LEMMA QuietNewest ==
  ASSUME Typed, Newest, entry' = entry, written' = written, SameTurn, Line' \subseteq Line,
         \A s \in Sender : Reading(s)' => sending'[s] = sending[s] \/ sending'[s].n = max_turn + 1
  PROVE  Newest'
<1>1. \A m \in Message : Closed(m)' = Closed(m)
  BY DEF Closed
<1>2. /\ shown' = shown /\ (TurnHeld => TurnHeld')
      /\ turn'.phase # "idle" => turn.phase # "idle" /\ turn'.number = turn.number /\ (turn.stop => turn'.stop)
  BY DEF SameTurn
<1>3. ASSUME NEW s \in Sender, Reading(s)'
      PROVE  shown < sending'[s].n /\ \A k \in Message : Closed(k) => entry[k].turn < sending'[s].n
  <2>1. CASE sending'[s] = sending[s]
    BY <1>3, <2>1 DEF Newest, Reading
  <2>2. CASE sending'[s].n = max_turn + 1
    <3>1. /\ max_turn \in Nat /\ shown <= max_turn /\ \A m \in Message : entry[m].turn <= max_turn
      BY LastTurn
    <3>2. shown \in Nat /\ \A m \in Message : entry[m].turn \in Nat
      BY DEF Typed, TypedChat, TypedHistory, AnEntry
    <3> HIDE DEF max_turn
    <3> QED
      BY <2>2, <3>1, <3>2
  <2> QED
    BY <1>3, <2>1, <2>2
<1> QED
  BY <1>1, <1>2, <1>3 DEF Newest, Closed

LEMMA HandleNewest ==
  ASSUME Typed, SteeredKnown, OnceInLine, Climbing, Newest, HandleCommand
  PROVE  Newest'
<1> DEFINE W == WaitingIn(queue)
           M == MailedIn(mailbox)
<1>1. /\ entry \in [Message -> AnEntry] /\ shown \in Nat /\ turn \in ATurn /\ \A m \in Message : entry[m].turn \in Nat
      /\ sending \in [Sender -> [step : {"none", "read", "saved"}, n : Nat]]
  BY DEF Typed, TypedChat, TypedActor, TypedHistory, AnEntry
<1>2. /\ sending' = sending /\ written' = written /\ written = {}
      /\ shown' = shown /\ TurnHeld'
      /\ turn'.phase # "idle" => turn.phase # "idle" /\ turn'.number = turn.number /\ (turn.stop => turn'.stop)
  BY HandleSameTurn DEF HandleCommand, SameTurn, Newest
<1>3. /\ W \subseteq Message /\ M \subseteq Message /\ Saved \subseteq Message
      /\ W \cap M = {} /\ (W \cup M) \cap Saved = {}
      /\ \A m \in W \cup M \cup Saved : entry[m].status = "queued" /\ ~Closed(m)
  BY DEF OnceInLine, Line, Closed, WaitingIn, MailedIn, Saved
<1>4. /\ \A m \in W \cup M \cup Saved : shown < entry[m].turn /\ \A k \in Message : Closed(k) => entry[k].turn < entry[m].turn
      /\ \A s \in Sender : Reading(s) =>
           shown < sending[s].n /\ \A k \in Message : Closed(k) => entry[k].turn < sending[s].n
      /\ \E m \in Message : shown <= entry[m].turn
      /\ turn.phase # "idle" => shown = turn.number
      /\ turn.phase # "idle" /\ ~turn.stop => \A m \in Message : Closed(m) => entry[m].turn <= turn.number
  BY DEF Newest, Line
<1>5. Handles
  BY HandlesLine
<1>6. Saved' = Saved /\ \A s \in Sender : Reading(s)' = Reading(s)
  BY <1>2 DEF Saved, Reading
<1>7. Line' = WaitingIn(queue') \cup MailedIn(mailbox') \cup Saved
  BY <1>6 DEF Line
<1>8. Line = W \cup M \cup Saved
  BY DEF Line
<1> DEFINE Last == \/ turn'.phase = "idle" \/ turn'.stop
                   \/ \A m \in Message : Closed(m)' => entry'[m].turn <= shown
<1>9. ASSUME \A m \in Line' : m \in Message /\ shown < entry'[m].turn,
             \A m \in Line', k \in Message : Closed(k)' => entry'[k].turn < entry'[m].turn,
             \A s \in Sender, k \in Message : Reading(s) /\ Closed(k)' => entry'[k].turn < sending[s].n,
             \E m \in Message : shown <= entry'[m].turn,
             Last
      PROVE  Newest'
  <2>1. turn'.phase # "idle" => shown' = turn'.number
    BY <1>2, <1>4
  <2>2. turn'.phase # "idle" /\ ~turn'.stop => \A m \in Message : Closed(m)' => entry'[m].turn <= turn'.number
    BY <1>2, <1>9, <2>1
  <2>3. \A s \in Sender : Reading(s)' => shown' < sending'[s].n /\ \A k \in Message : Closed(k)' => entry'[k].turn < sending'[s].n
    BY <1>2, <1>4, <1>6, <1>9
  <2> QED
    BY <1>2, <1>9, <2>1, <2>2, <2>3 DEF Newest
<1>10. CASE entry' = entry /\ Line' \subseteq Line
  <2>1. \A s \in Sender : Reading(s)' => sending'[s] = sending[s]
    BY <1>2
  <2> QED
    BY <1>2, <1>10, <2>1, QuietNewest, HandleSameTurn
<1>11. ASSUME NEW m \in Message, Moved(m), WaitingIn(queue') = W, MailedIn(mailbox') = M
       PROVE  Newest'
  <2>1. /\ \A k \in Message : entry'[k].status = entry[k].status /\ entry'[k].removed = entry[k].removed
        /\ \A k \in Message : k \notin W => entry'[k] = entry[k]
        /\ \A k \in W : \E l \in W : entry'[k].turn = entry[l].turn
    BY <1>11, MovedIs
  <2>2. \A k \in Message : Closed(k)' = Closed(k) /\ (Closed(k) => entry'[k] = entry[k])
    BY <1>3, <2>1 DEF Closed
  <2>3. \A k \in W \cup M \cup Saved : \E l \in W \cup M \cup Saved : entry'[k].turn = entry[l].turn
    BY <1>3, <2>1
  <2>4. PICK k \in Message : shown <= entry[k].turn
    BY <1>4
  <2>5. shown <= entry'[k].turn
    BY <1>1, <1>3, <1>4, <2>1, <2>4
  <2>6. Last
    BY <1>1, <1>2, <1>4, <2>2
  <2> HIDE DEF Last
  <2> QED
    BY <1>3, <1>4, <1>7, <1>9, <1>11, <2>2, <2>3, <2>5, <2>6
<1>12. ASSUME NEW k \in W, Dropped(k), WaitingIn(queue') = W \ {k}, MailedIn(mailbox') = M
       PROVE  Newest'
  <2>1. k \in Message /\ \A l \in Message : l # k => entry'[l] = entry[l] /\ Closed(l)' = Closed(l)
    BY <1>3, <1>12, DroppedIs DEF Closed
  <2>2. Line' \subseteq Line \ {k} /\ Line' \subseteq Message
    BY <1>3, <1>7, <1>8, <1>12
  <2>3. CASE entry' = Cancelled({k}, TRUE)
    <3>1. /\ Cancelled({k}, TRUE)[k].removed = TRUE /\ Cancelled({k}, TRUE)[k].turn = entry[k].turn
      BY <1>1, <2>1, CancelledIs
    <3>2. ~Closed(k)' /\ entry'[k].turn = entry[k].turn
      BY <2>3, <3>1 DEF Closed
    <3>3. \A l \in Message : entry'[l].turn = entry[l].turn /\ (Closed(l)' => Closed(l))
      BY <2>1, <3>2
    <3>4. Last
      BY <1>1, <1>2, <1>4, <3>3
    <3> HIDE DEF Last
    <3> QED
      BY <1>4, <1>8, <1>9, <2>2, <3>3, <3>4
  <2>4. CASE entry' = Joined(k) /\ InFlight(k)
    <3>1. turn.phase = "running" /\ shown = turn.number
      BY <1>4, <2>1, <2>4 DEF Newest, TurnHeld
    <3>2. entry'[k].turn = shown
      <4>1. Joined(k)[k].turn = turn.number
        BY <1>1, <2>1, JoinedIs DEF ATurn
      <4> QED
        BY <2>4, <3>1, <4>1
    <3>3. \A l \in Message : Closed(l)' => l = k \/ (Closed(l) /\ entry'[l] = entry[l])
      BY <2>1
    <3>4. Last
      BY <1>1, <1>2, <1>4, <3>1, <3>2, <3>3
    <3> HIDE DEF Last
    <3> QED
      BY <1>1, <1>4, <1>8, <1>9, <2>1, <2>2, <3>2, <3>3, <3>4
  <2> QED
    BY <1>12, <2>3, <2>4 DEF Dropped
<1>13. CASE Stopped /\ WaitingIn(queue') = {} /\ MailedIn(mailbox') = M
  <2>1. /\ \A l \in Message : l \notin W => Cancelled(W, FALSE)[l] = entry[l]
        /\ \A l \in Message : l \in W => Cancelled(W, FALSE)[l].turn = entry[l].turn
    BY <1>1, CancelledIs
  <2>2. \A l \in Message : entry'[l].turn = entry[l].turn /\ (Closed(l)' => Closed(l) \/ l \in W)
    BY <1>13, <2>1 DEF Stopped, Closed
  <2>3. \A a \in W, b \in M \cup Saved : entry[a].turn < entry[b].turn
    <3>1. \A a \in W, b \in M \cup Saved : Turns[a] < Turns[b]
      BY DEF Climbing, Rises, Before
    <3> QED
      BY <1>3, <3>1 DEF Turns
  <2>4. \A s \in Sender, a \in W : Reading(s) => entry[a].turn < sending[s].n
    BY <1>8 DEF Climbing, Reading
  <2>5. turn'.phase = "idle" \/ turn'.stop
    BY <1>1, <1>13 DEF Stopped, ATurn
  <2>6. Line' = M \cup Saved
    BY <1>7, <1>13
  <2> QED
    BY <1>3, <1>4, <1>9, <2>2, <2>3, <2>4, <2>5, <2>6
<1>14. CASE UNCHANGED <<queue, entry>> /\ MailedIn(mailbox') = M
  BY <1>7, <1>8, <1>10, <1>14
<1>15. \/ entry' = entry /\ Line' \subseteq Line
       \/ \E m \in Message : Moved(m) /\ WaitingIn(queue') = W /\ MailedIn(mailbox') = M
       \/ \E k \in W : Dropped(k) /\ WaitingIn(queue') = W \ {k} /\ MailedIn(mailbox') = M
       \/ Stopped /\ WaitingIn(queue') = {} /\ MailedIn(mailbox') = M
  <2>1. \/ Queues /\ WaitingIn(queue') = W /\ MailedIn(mailbox') = M
        \/ \E m \in M : Queues /\ WaitingIn(queue') = W \cup {m} /\ MailedIn(mailbox') = M \ {m}
        \/ UNCHANGED <<queue, entry>> /\ WaitingIn(queue') = W /\ MailedIn(mailbox') = M
        \/ \E m \in Message : Moved(m) /\ WaitingIn(queue') = W /\ MailedIn(mailbox') = M
        \/ \E k \in W : Dropped(k) /\ WaitingIn(queue') = W \ {k} /\ MailedIn(mailbox') = M
        \/ Stopped /\ WaitingIn(queue') = {} /\ MailedIn(mailbox') = M
    BY <1>5, HandlesSets
  <2> HIDE DEF W, M
  <2> QED
    BY <1>7, <1>8, <2>1 DEF Queues
<1> QED
  BY <1>10, <1>11, <1>12, <1>13, <1>15

LEMMA StartNewest ==
  ASSUME Typed, SteeredKnown, OnceInLine, Climbing, Newest, StartUserTurn
  PROVE  Newest'
<1> DEFINE W == WaitingIn(queue)
           M == MailedIn(mailbox)
           W2 == WaitingIn(queue')
<1>1. /\ shown \in Nat /\ \A m \in Message : entry[m].turn \in Nat
      /\ sending \in [Sender -> [step : {"none", "read", "saved"}, n : Nat]]
      /\ W \subseteq Message /\ W2 \subseteq Message /\ M \subseteq Message /\ Saved \subseteq Message
  BY DEF Typed, TypedChat, TypedHistory, AnEntry, WaitingIn, MailedIn, Saved
<1>2. /\ sending' = sending /\ written' = written /\ inflight' = inflight /\ mailbox' = mailbox /\ turn.phase = "idle"
  BY DEF StartUserTurn
<1>3. PICK k \in 1..Len(queue) :
           /\ k \in Nat /\ turn'.phase = "starting"
           /\ turn'.number = entry[queue[k].id].turn /\ shown' = Higher(entry[queue[k].id].turn) /\ ~turn'.stop
           /\ \A i \in 1..k : /\ i \in 1..Len(queue) /\ queue[i].kind = "user" /\ queue[i].id \in Message
                              /\ queue[i].id \in W
           /\ Opening' = {queue[i].id : i \in 1..k}
           /\ \A m \in W2 : \E j \in 1..Len(queue) : k < j /\ queue[j] = UserItem(m)
           /\ \A m \in Message : /\ entry'[m].turn = entry[m].turn /\ entry'[m].removed = entry[m].removed
                                 /\ m \notin Opening' => entry'[m] = entry[m]
  BY BatchIs
<1> DEFINE last == queue[k].id
<1>4. k \in 1..k /\ last \in W /\ last \in Message
  BY <1>3
<1>5. \A a, b \in 1..Len(queue) : a < b /\ queue[a].kind = "user" /\ queue[b].kind = "user"
         => Turns[queue[a].id] < Turns[queue[b].id]
  BY DEF Climbing, Rises, Rising
<1>6. /\ \A a \in W, b \in M \cup Saved : Turns[a] < Turns[b]
      /\ \A s \in Sender : Reading(s) => \A m \in W \cup M \cup Saved : entry[m].turn < sending[s].n
  BY DEF Climbing, Rises, Before, Line, Reading
<1>7. \A m \in Message : Turns[m] = entry[m].turn
  BY DEF Turns
<1>8. /\ \A m \in W \cup M \cup Saved : shown < entry[m].turn /\ \A l \in Message : Closed(l) => entry[l].turn < entry[m].turn
      /\ written = {} /\ TurnHeld
  BY DEF Newest, Line
<1>9. shown' = entry[last].turn /\ turn'.number = entry[last].turn
  BY <1>1, <1>3, <1>4, <1>8 DEF Higher
<1>10. \A m \in Opening' : m \in Message /\ entry[m].turn <= entry[last].turn
  <2>1. ASSUME NEW i \in 1..k
        PROVE  entry[queue[i].id].turn <= entry[last].turn
    <3>1. i \in 1..Len(queue) /\ k \in 1..Len(queue) /\ queue[i].kind = "user" /\ queue[k].kind = "user" /\ queue[i].id \in Message
      BY <1>3, <1>4
    <3>2. i < k \/ i = k
      BY <1>3
    <3> QED
      BY <1>1, <1>4, <1>5, <1>7, <3>1, <3>2
  <2> QED
    BY <1>3, <2>1
<1>11. \A m \in Message : Closed(m)' => entry'[m].turn <= entry[last].turn
  <2>1. \A m \in Message : Closed(m)' => Closed(m) \/ m \in Opening'
    BY <1>3 DEF Closed
  <2> QED
    BY <1>1, <1>3, <1>4, <1>8, <1>10, <2>1
<1>12. Line' = W2 \cup M \cup Saved
  BY <1>2 DEF Line, Saved
<1>13. \A m \in Line' : m \in Message /\ entry[last].turn < entry'[m].turn
  <2>1. ASSUME NEW m \in W2
        PROVE  entry[last].turn < entry[m].turn
    <3>1. PICK j \in 1..Len(queue) : k < j /\ queue[j] = UserItem(m)
      BY <1>3
    <3>2. queue[j].kind = "user" /\ queue[j].id = m
      BY <3>1 DEF UserItem
    <3>3. queue[k].kind = "user"
      BY <1>3, <1>4
    <3>4. m \in Message
      BY <1>1
    <3> QED
      BY <1>4, <1>5, <1>7, <3>1, <3>2, <3>3, <3>4
  <2>2. ASSUME NEW m \in M \cup Saved
        PROVE  entry[last].turn < entry[m].turn
    BY <1>1, <1>4, <1>6, <1>7
  <2> QED
    BY <1>1, <1>3, <1>12, <2>1, <2>2
<1>14. \A s \in Sender : Reading(s) => entry[last].turn < sending[s].n
  BY <1>4, <1>6
<1>15. TurnHeld' /\ \A s \in Sender : Reading(s)' = Reading(s)
  <2>1. \A m \in Message : ~InFlight(m)
    BY <1>2, <1>8 DEF TurnHeld
  <2> QED
    BY <1>2, <2>1 DEF TurnHeld, InFlight, Reading
<1>16. \A m \in Message : entry'[m].turn \in Nat
  BY <1>1, <1>3
<1>17. \A s \in Sender : Reading(s)' => shown' < sending'[s].n /\ \A l \in Message : Closed(l)' => entry'[l].turn < sending'[s].n
  BY <1>1, <1>2, <1>4, <1>9, <1>11, <1>14, <1>15, <1>16
<1>18. \A m \in Line' : shown' < entry'[m].turn /\ \A l \in Message : Closed(l)' => entry'[l].turn < entry'[m].turn
  BY <1>1, <1>4, <1>9, <1>11, <1>13, <1>16
<1>19. \E m \in Message : shown' <= entry'[m].turn
  BY <1>1, <1>3, <1>4, <1>9
<1> HIDE DEF last
<1> QED
  BY <1>2, <1>8, <1>9, <1>11, <1>15, <1>17, <1>18, <1>19 DEF Newest

LEMMA SavesNewest ==
  ASSUME Typed, SteeredKnown, OnceInLine, OneClient, Newest, NEW s \in Sender, PostSaves(s)
  PROVE  Newest'
<1> PICK new : new = posted + 1
  OBVIOUS
<1>1. /\ shown \in Nat /\ \A m \in Message : entry[m].turn \in Nat
      /\ sending \in [Sender -> [step : {"none", "read", "saved"}, n : Nat]]
  BY DEF Typed, TypedChat, TypedHistory, AnEntry
<1>2. /\ WaitingIn(queue') = WaitingIn(queue) /\ MailedIn(mailbox') = MailedIn(mailbox)
      /\ Saved' = Saved \cup {new} /\ new \in Message /\ new \notin Line
      /\ entry'[new] = [status |-> "queued", turn |-> sending[s].n, removed |-> FALSE]
      /\ \A m \in Message \ {new} : entry'[m] = entry[m]
  BY SavesSets
<1>3. /\ Reading(s) /\ sending' = [sending EXCEPT ![s] = [step |-> "saved", n |-> new]]
      /\ written' = written /\ shown' = shown /\ turn' = turn /\ inflight' = inflight
  BY DEF PostSaves, Reading, actorVars, history
<1>4. Line' = Line \cup {new} /\ Line \subseteq Message
  BY <1>2 DEF Line, WaitingIn, MailedIn, Saved
<1>5. \A t \in Sender : ~Reading(t)'
  <2>1. sending'[s].step = "saved"
    BY <1>1, <1>3
  <2> QED
    BY <2>1 DEF Reading, OneClient
<1>6. shown < sending[s].n /\ \A k \in Message : Closed(k) => entry[k].turn < sending[s].n
  BY <1>3 DEF Newest
<1>7. ~Closed(new)' /\ entry'[new].turn = sending[s].n
  BY <1>2 DEF Closed
<1>8. \A m \in Message : m # new => entry'[m] = entry[m] /\ Closed(m)' = Closed(m)
  BY <1>2 DEF Closed
<1>9. \A m \in Line' : shown < entry'[m].turn /\ \A k \in Message : Closed(k)' => entry'[k].turn < entry'[m].turn
  <2>1. ASSUME NEW m \in Line
        PROVE  shown < entry'[m].turn /\ \A k \in Message : Closed(k)' => entry'[k].turn < entry'[m].turn
    BY <1>2, <1>4, <1>7, <1>8 DEF Newest
  <2>2. shown < entry'[new].turn /\ \A k \in Message : Closed(k)' => entry'[k].turn < entry'[new].turn
    BY <1>6, <1>7, <1>8
  <2> QED
    BY <1>4, <2>1, <2>2
<1>10. \E m \in Message : shown <= entry'[m].turn
  BY <1>1, <1>2, <1>6, <1>7
<1>11. turn.phase # "idle" /\ ~turn.stop => \A m \in Message : Closed(m)' => entry'[m].turn <= turn.number
  BY <1>7, <1>8 DEF Newest
<1>12. TurnHeld' /\ written = {} /\ (turn.phase # "idle" => shown = turn.number)
  BY <1>3 DEF Newest, TurnHeld, InFlight
<1> QED
  BY <1>3, <1>5, <1>9, <1>10, <1>11, <1>12 DEF Newest

LEMMA RestartNewest ==
  ASSUME Typed, SteeredKnown, OnceInLine, Newest, NEW resume \in BOOLEAN, Restart(resume)
  PROVE  Newest'
<1>1. /\ entry \in [Message -> AnEntry] /\ shown \in Nat
  BY DEF Typed, TypedChat, TypedHistory
<1>2. /\ entry' = Restarted /\ written' = written /\ written = {}
      /\ \A s \in Sender : ~Reading(s)'
      /\ \A m \in Message : ~InFlight(m)'
  BY DEF Restart, Newest, Reading, NotPosting, InFlight
<1>3. \A m \in Message : entry'[m].turn = entry[m].turn
  BY <1>1, <1>2, RestartedIs
<1>4. Line' = {}
  <2>1. queue' = <<>> /\ mailbox' = <<>> /\ Saved' = {}
    BY DEF Restart, Saved, NotPosting
  <2> QED
    BY <2>1, NoneWait DEF Line
<1>5. /\ max_turn \in Nat /\ shown <= max_turn /\ \A m \in Message : entry[m].turn <= max_turn
      /\ \E m \in Message : max_turn = entry[m].turn
  BY LastTurn
<1>6. TurnHeld'
  BY <1>2 DEF TurnHeld
<1>7. CASE marked /\ resume
  <2>1. turn'.number = max_turn /\ shown' = max_turn
    BY <1>1, <1>5, <1>7 DEF Restart, Idle, Higher
  <2> HIDE DEF max_turn
  <2> QED
    BY <1>2, <1>3, <1>4, <1>5, <1>6, <2>1 DEF Newest
<1>8. CASE ~(marked /\ resume)
  <2>1. turn'.phase = "idle" /\ shown' = shown
    BY <1>8 DEF Restart, Idle
  <2>2. \E m \in Message : shown <= entry[m].turn
    BY DEF Newest
  <2> QED
    BY <1>2, <1>3, <1>4, <1>6, <2>1, <2>2 DEF Newest
<1> QED
  BY <1>7, <1>8

LEMMA NewestStep ==
  ASSUME Typed, SteeredKnown, OnceInLine, OneClient, UsersOnly, Other = {}, Climbing, Newest, [Next]_vars
  PROVE  Newest'
<1>1. ASSUME entry' = entry, written' = written, posted' = posted, SameTurn
      PROVE  Newest'
  <2>1. Line' \subseteq Line
    <3>1. posted \in Nat
      BY DEF Typed, TypedChat
    <3>2. \A s \in Sender : ~PostSaves(s)
      BY <1>1, <3>1 DEF PostSaves
    <3> QED
      BY <3>2, LineGrows
  <2>2. sending \in [Sender -> [step : {"none", "read", "saved"}, n : Nat]]
    BY DEF Typed, TypedChat
  <2>3. \A s \in Sender : Reading(s)' => sending'[s] = sending[s] \/ sending'[s].n = max_turn + 1
    BY <2>2, ReadsStep DEF Reading
  <2> QED
    BY <1>1, <2>1, <2>3, QuietNewest
<1>2. ASSUME turn' = turn \/ (turn'.phase = "idle" /\ \A m \in Message : ~InFlight(m)'), inflight' = inflight, shown' = shown
      PROVE  SameTurn
  BY <1>2 DEF SameTurn, TurnHeld, InFlight
<1>3. ASSUME NEW s \in Sender, PostReads(s) \/ Send(s)
      PROVE  Newest'
  <2>1. entry' = entry /\ written' = written /\ posted' = posted /\ turn' = turn /\ inflight' = inflight /\ shown' = shown
    BY <1>3 DEF PostReads, Send, actorVars, history
  <2>2. SameTurn
    BY <1>2, <2>1
  <2> QED
    BY <1>1, <2>1, <2>2
<1>4. ASSUME NEW m \in Message, Touch("steer", m) \/ Touch("unqueue", m) \/ Stop
      PROVE  Newest'
  <2>1. entry' = entry /\ written' = written /\ posted' = posted /\ turn' = turn /\ inflight' = inflight /\ shown' = shown
    BY <1>4 DEF Touch, Stop, chatVars, actorVars, history
  <2>2. SameTurn
    BY <1>2, <2>1
  <2> QED
    BY <1>1, <2>1, <2>2
<1>5. CASE Prompted
  <2>1. turn \in ATurn
    BY DEF Typed, TypedActor
  <2>2. SameTurn
    BY <1>5, <2>1 DEF Prompted, SameTurn, ATurn, TurnHeld, InFlight
  <2> QED
    BY <1>1, <1>5, <2>2 DEF Prompted, chatVars
<1>6. CASE StartFails
  <2>1. turn'.phase = "idle" /\ inflight' = inflight /\ shown' = shown /\ turn.phase = "starting"
    BY <1>6 DEF StartFails, EndTurn, Idle
  <2>2. \A m \in Message : ~InFlight(m)'
    BY <2>1 DEF Newest, TurnHeld, InFlight
  <2> QED
    BY <1>1, <1>2, <1>6, <2>1, <2>2 DEF StartFails, chatVars
<1>7. CASE TakeDone
  <2>1. entry' = entry /\ written' = written /\ posted' = posted /\ inflight' = inflight /\ shown' = shown
    BY <1>7 DEF TakeDone, chatVars, history
  <2>2. CASE TurnEnded
    <3>1. turn' = turn
      BY <1>7, <2>2 DEF TakeDone
    <3>2. SameTurn
      BY <1>2, <2>1, <3>1
    <3> QED
      BY <1>1, <2>1, <3>2
  <2>3. CASE ~TurnEnded
    <3>1. turn'.phase = "idle"
      BY <1>7, <2>3 DEF TakeDone, EndTurn, Idle
    <3>2. \A m \in Message : ~InFlight(m)'
      BY <2>1, <2>3 DEF TurnEnded, InFlight
    <3>3. SameTurn
      BY <1>2, <2>1, <3>1, <3>2
    <3> QED
      BY <1>1, <2>1, <3>3
  <2> QED
    BY <2>2, <2>3
<1>8. ASSUME AgentFrame
      PROVE  Newest'
  <2>1. entry' = entry /\ written' = written /\ posted' = posted /\ turn' = turn /\ inflight' = inflight /\ shown' = shown
    BY <1>8 DEF AgentFrame, chatVars, actorVars
  <2>2. SameTurn
    BY <1>2, <2>1
  <2> QED
    BY <1>1, <2>1, <2>2
<1>9. CASE AgentWrites
  <2>1. turn.number > max_turn /\ shown <= max_turn /\ shown = turn.number /\ max_turn \in Nat /\ shown \in Nat
    BY <1>9, LastTurn DEF AgentWrites, Working, Newest, Typed, TypedHistory
  <2> HIDE DEF max_turn
  <2> QED
    BY <2>1
<1>10. CASE AgentStep \/ KillAgent
  BY <1>8, <1>9, <1>10 DEF AgentStep, KillAgent, AgentEnds, AgentDies, AgentTakes, AgentRefuses, SteerLost, AnswerFails
<1>11. CASE StartOtherTurn
  <2>1. queue \in Seq(AnItem) /\ queue # <<>> /\ Head(queue).kind # "user"
    BY <1>11 DEF StartOtherTurn, Typed, TypedActor
  <2>2. Head(queue) \in Notices
    BY <2>1, TailHas DEF Notices
  <2> QED
    BY <2>1, <2>2, TailHas DEF UsersOnly
<1>12. CASE UNCHANGED vars
  <2>1. entry' = entry /\ written' = written /\ posted' = posted /\ turn' = turn /\ inflight' = inflight /\ shown' = shown
    BY <1>12 DEF vars
  <2>2. SameTurn
    BY <1>2, <2>1
  <2> QED
    BY <1>1, <2>1, <2>2
<1>13. CASE Stop
  <2>1. entry' = entry /\ written' = written /\ posted' = posted /\ turn' = turn /\ inflight' = inflight /\ shown' = shown
    BY <1>13 DEF Stop, chatVars, actorVars, history
  <2>2. SameTurn
    BY <1>2, <2>1
  <2> QED
    BY <1>1, <2>1, <2>2
<1> QED
  BY <1>3, <1>4, <1>5, <1>6, <1>7, <1>10, <1>11, <1>12, <1>13,
     HandleNewest, StartNewest, SavesNewest, RestartNewest DEF Next

LEMMA NewestAlways ==
  ASSUME OneClient, Other = {}
  PROVE  Spec => [](Known /\ Climbing /\ UsersOnly /\ Newest)
<1>1. Init => Known /\ Climbing /\ UsersOnly /\ Newest
  <2>1. SUFFICES ASSUME Init PROVE UsersOnly /\ Newest
    BY ClimbsFirst
  <2>2. UsersOnly
    BY <2>1, NothingOnItsWay, EmptyHas DEF UsersOnly
  <2>3. 1 \in Message
    BY ConversationAssumption DEF Message
  <2>4. /\ written = {} /\ shown = 0 /\ turn.phase = "idle" /\ \A s \in Sender : ~Reading(s)
        /\ \A m \in Message : ~InFlight(m) /\ entry[m].turn = 0
    BY <2>1 DEF Init, Idle, NotPosting, Reading, InFlight
  <2>5. \E m \in Message : shown <= entry[m].turn
    BY <2>3, <2>4
  <2> QED
    BY <2>1, <2>2, <2>4, <2>5, NothingOnItsWay DEF Newest, TurnHeld
<1>2. Known /\ Climbing /\ UsersOnly /\ Newest /\ [Next]_vars => (Known /\ Climbing /\ UsersOnly /\ Newest)'
  BY TypedStep, OnceStep, KnownStep, ClimbingStep, UsersOnlyStep, NewestStep DEF Known
<1> QED
  BY <1>1, <1>2, PTL DEF Spec

\* While a turn of the user's runs and is not being stopped, no turn that ran and no
\* message that is through has a higher number, when one client posts and only the user
\* starts turns: the clients' way of finding the running turn is right.
THEOREM RunningIsNewestAlways ==
  ASSUME OneClient, Other = {}
  PROVE  Spec => []RunningIsNewest
<1>1. Typed /\ Newest => RunningIsNewest
  <2>1. SUFFICES ASSUME Typed, Newest, turn.phase = "running", ~turn.stop PROVE RunningIsNewest
    BY DEF RunningIsNewest
  <2>2. shown \in Nat /\ shown = turn.number /\ \A m \in Message : Closed(m) => entry[m].turn <= turn.number
    BY <2>1 DEF Typed, TypedHistory, Newest
  <2> QED
    BY <2>2 DEF RunningIsNewest, Closed
<1> QED
  BY <1>1, NewestAlways, PTL DEF Known

\* While a turn runs, every waiting message has a higher number than it, when one
\* client posts and only the user starts turns.
THEOREM QueuedHoldsNextAlways ==
  ASSUME OneClient, Other = {}
  PROVE  Spec => []QueuedHoldsNext
<1>1. Typed /\ Newest => QueuedHoldsNext
  <2>1. SUFFICES ASSUME Typed, Newest, turn.phase = "running", NEW m \in WaitingIn(queue) PROVE entry[m].turn > turn.number
    BY DEF QueuedHoldsNext
  <2>2. m \in Line /\ m \in Message /\ shown = turn.number
    BY <2>1 DEF Line, WaitingIn, Newest
  <2>3. shown \in Nat /\ entry[m].turn \in Nat /\ shown < entry[m].turn
    BY <2>1, <2>2 DEF Typed, TypedChat, TypedHistory, AnEntry, Newest
  <2> QED
    BY <2>2, <2>3
<1> QED
  BY <1>1, NewestAlways, PTL DEF Known

-----------------------------------------------------------------------------
(* Types with the bounds on numbers: each of them is covered by a post or by *)
(* another turn, and a reply has none while it waits.                        *)

At(q, T) == {i \in 1..Len(q) : q[i] \in T}

LEMMA AtFinite ==
  ASSUME NEW S, NEW q \in Seq(S), NEW T
  PROVE  IsFiniteSet(At(q, T)) /\ Cardinality(At(q, T)) \in Nat
<1>1. Len(q) \in Nat /\ At(q, T) \in SUBSET (1..Len(q))
  BY DEF At
<1>2. IsFiniteSet(1..Len(q))
  BY <1>1, FS_Interval
<1> QED
  BY <1>1, <1>2, FS_Subset, FS_CardinalityType

\* f finds each place of r in q, the first of q's at most excepted.
LEMMA AtFewer ==
  ASSUME NEW S, NEW q \in Seq(S), NEW r \in Seq(S), NEW T, NEW f, NEW gone \in BOOLEAN,
         \A i \in At(r, T) : f[i] \in At(q, T) /\ (gone => f[i] # 1),
         \A i, j \in At(r, T) : f[i] = f[j] => i = j,
         gone => 1 \in At(q, T)
  PROVE  /\ gone => Cardinality(At(r, T)) <= Cardinality(At(q, T)) - 1
         /\ Cardinality(At(r, T)) <= Cardinality(At(q, T))
<1> DEFINE A == At(r, T)
           B == IF gone THEN At(q, T) \ {1} ELSE At(q, T)
           g == [i \in A |-> f[i]]
<1>1. IsFiniteSet(A) /\ Cardinality(A) \in Nat /\ IsFiniteSet(At(q, T)) /\ Cardinality(At(q, T)) \in Nat
  BY AtFinite
<1>2. IsFiniteSet(B) /\ Cardinality(B) = Cardinality(At(q, T)) - (IF gone THEN 1 ELSE 0)
  <2>1. /\ IsFiniteSet(At(q, T) \ {1})
        /\ Cardinality(At(q, T) \ {1}) = IF 1 \in At(q, T) THEN Cardinality(At(q, T)) - 1 ELSE Cardinality(At(q, T))
    BY <1>1, FS_RemoveElement, Zenon
  <2>2. CASE gone
    BY <2>1, <2>2
  <2>3. CASE ~gone
    BY <1>1, <2>3
  <2> QED
    BY <2>2, <2>3
<1>3. g \in Injection(A, B)
  <2>1. \A i \in A : f[i] \in B
    OBVIOUS
  <2> HIDE DEF B
  <2> QED
    BY <2>1 DEF Injection, IsInjective
<1> HIDE DEF A, B, g
<1>4. Cardinality(A) <= Cardinality(B)
  BY <1>2, <1>3, FS_Injection
<1> QED
  BY <1>1, <1>2, <1>4 DEF A

LEMMA AtAppend ==
  ASSUME NEW S, NEW q \in Seq(S), NEW x \in S, NEW T
  PROVE  Cardinality(At(Append(q, x), T)) <= Cardinality(At(q, T)) + (IF x \in T THEN 1 ELSE 0)
<1> DEFINE n == Len(q) + 1
           A == At(Append(q, x), T)
<1>1. /\ Len(q) \in Nat /\ Append(q, x) \in Seq(S) /\ Len(Append(q, x)) = n /\ Append(q, x)[n] = x
      /\ \A i \in 1..Len(q) : Append(q, x)[i] = q[i]
  BY AppendProperties
<1>2. \A i \in 1..n : i \in 1..Len(q) \/ i = n
  BY <1>1
<1>3. /\ IsFiniteSet(At(q, T)) /\ Cardinality(At(q, T)) \in Nat /\ Cardinality(A) \in Nat
  BY <1>1, AtFinite
<1>4. CASE x \in T
  <2>1. A \subseteq At(q, T) \cup {n}
    BY <1>1, <1>2 DEF At
  <2> HIDE DEF n, A
  <2>2. /\ IsFiniteSet(At(q, T) \cup {n}) /\ Cardinality(At(q, T) \cup {n}) \in Nat
        /\ Cardinality(At(q, T) \cup {n}) <= Cardinality(At(q, T)) + 1
    <3>1. /\ IsFiniteSet(At(q, T) \cup {n})
          /\ Cardinality(At(q, T) \cup {n}) = IF n \in At(q, T) THEN Cardinality(At(q, T)) ELSE Cardinality(At(q, T)) + 1
      BY <1>3, FS_AddElement, Zenon
    <3>2. Cardinality(At(q, T) \cup {n}) \in Nat
      BY <3>1, FS_CardinalityType
    <3> QED
      BY <1>3, <3>1, <3>2
  <2>3. Cardinality(A) <= Cardinality(At(q, T) \cup {n})
    BY <2>1, <2>2, FS_Subset
  <2> QED
    BY <1>3, <1>4, <2>2, <2>3 DEF A
<1>5. CASE x \notin T
  <2>1. A \subseteq At(q, T)
    BY <1>1, <1>2, <1>5 DEF At
  <2> HIDE DEF A
  <2>2. Cardinality(A) <= Cardinality(At(q, T))
    BY <1>3, <2>1, FS_Subset
  <2> QED
    BY <1>3, <1>5, <2>2 DEF A
<1> QED
  BY <1>4, <1>5

\* What follows the first k items, of which the first may be one that counts.
LEMMA AtAfter ==
  ASSUME NEW S, NEW q \in Seq(S), NEW r \in Seq(S), NEW T, NEW k \in 1..Len(q),
         Len(r) = Len(q) - k, \A i \in 1..(Len(q) - k) : r[i] = q[i + k]
  PROVE  Cardinality(At(r, T)) <= Cardinality(At(q, T)) - (IF q[1] \in T THEN 1 ELSE 0)
<1>1. Len(q) \in Nat /\ k \in Nat /\ k >= 1
  OBVIOUS
<1>2. \A i \in At(r, T) : i \in Nat /\ i + k \in At(q, T) /\ i + k # 1
  BY <1>1 DEF At
<1>3. \A i, j \in At(r, T) : i + k = j + k => i = j
  BY <1>1, <1>2
<1>4. q[1] \in T => 1 \in At(q, T)
  BY <1>1 DEF At
<1> DEFINE f == [i \in At(r, T) |-> i + k]
           gone == q[1] \in T
<1>5. /\ gone \in BOOLEAN /\ (gone => 1 \in At(q, T)) /\ (gone <=> q[1] \in T)
      /\ \A i \in At(r, T) : f[i] = i + k
  BY <1>4
<1> HIDE DEF f, gone
<1>6. /\ \A i \in At(r, T) : f[i] \in At(q, T) /\ (gone => f[i] # 1)
      /\ \A i, j \in At(r, T) : f[i] = f[j] => i = j
  BY <1>2, <1>3, <1>5
<1>7. /\ gone => Cardinality(At(r, T)) <= Cardinality(At(q, T)) - 1
      /\ Cardinality(At(r, T)) <= Cardinality(At(q, T))
  BY <1>5, <1>6, AtFewer
<1>8. Cardinality(At(r, T)) \in Nat /\ Cardinality(At(q, T)) \in Nat
  BY AtFinite
<1> QED
  BY <1>5, <1>7, <1>8

LEMMA AtTail ==
  ASSUME NEW S, NEW q \in Seq(S), q # <<>>, NEW T
  PROVE  Cardinality(At(Tail(q), T)) <= Cardinality(At(q, T)) - (IF Head(q) \in T THEN 1 ELSE 0)
<1>1. /\ Tail(q) \in Seq(S) /\ Head(q) = q[1] /\ Len(q) \in Nat /\ Len(q) >= 1 /\ Len(Tail(q)) = Len(q) - 1
      /\ \A i \in 1..Len(Tail(q)) : Tail(q)[i] = q[i + 1]
  BY HeadTailProperties, EmptySeq
<1>2. 1 \in 1..Len(q)
  BY <1>1
<1>3. Cardinality(At(Tail(q), T)) <= Cardinality(At(q, T)) - (IF q[1] \in T THEN 1 ELSE 0)
  <2> DEFINE r == Tail(q)
  <2>1. r \in Seq(S) /\ Len(r) = Len(q) - 1 /\ \A i \in 1..(Len(q) - 1) : r[i] = q[i + 1]
    BY <1>1
  <2> HIDE DEF r
  <2>2. Cardinality(At(r, T)) <= Cardinality(At(q, T)) - (IF q[1] \in T THEN 1 ELSE 0)
    BY <1>2, <2>1, AtAfter
  <2> QED
    BY <2>2 DEF r
<1> QED
  BY <1>1, <1>3

LEMMA AtPart ==
  ASSUME NEW S, NEW q \in Seq(S), NEW r \in Seq(S), NEW g, Part(r, q, g), NEW T
  PROVE  Cardinality(At(r, T)) <= Cardinality(At(q, T))
<1>1. \A i \in At(r, T) : g[i] \in At(q, T)
  BY DEF Part, At
<1>2. \A i, j \in At(r, T) : g[i] = g[j] => i = j
  <2>1. Len(q) \in Nat /\ Len(r) \in Nat
    OBVIOUS
  <2> QED
    BY <2>1 DEF Part, At
<1>3. FALSE \in BOOLEAN
  OBVIOUS
<1> QED
  BY <1>1, <1>2, <1>3, AtFewer

LEMMA AtFirst ==
  ASSUME NEW S, NEW q \in Seq(S), NEW x \in S, NEW T, x \notin T
  PROVE  Cardinality(At(<<x>> \o q, T)) <= Cardinality(At(q, T))
<1> DEFINE r == <<x>> \o q
           f == [i \in At(r, T) |-> i - 1]
<1>1. r \in Seq(S) /\ Len(r) = Len(q) + 1 /\ r[1] = x /\ (\A i \in 1..Len(q) : r[i + 1] = q[i]) /\ Len(q) \in Nat
  BY FirstHas
<1> HIDE DEF r
<1>2. \A i \in At(r, T) : i \in Nat /\ i - 1 \in At(q, T)
  <2>1. SUFFICES ASSUME NEW i \in At(r, T) PROVE i \in Nat /\ i - 1 \in At(q, T)
    OBVIOUS
  <2>2. i \in 1..(Len(q) + 1) /\ r[i] \in T /\ i # 1
    BY <1>1 DEF At
  <2>3. i - 1 \in 1..Len(q) /\ (i - 1) + 1 = i
    BY <1>1, <2>2
  <2>4. q[i - 1] = r[i]
    BY <1>1, <2>3
  <2> QED
    BY <2>2, <2>3, <2>4 DEF At
<1>3. \A i, j \in At(r, T) : f[i] = f[j] => i = j
  BY <1>2
<1>6. \A i \in At(r, T) : f[i] = i - 1
  OBVIOUS
<1> HIDE DEF f
<1>4. \A i \in At(r, T) : f[i] \in At(q, T)
  BY <1>2, <1>6
<1>5. Cardinality(At(r, T)) <= Cardinality(At(q, T))
  BY <1>1, <1>3, <1>4, AtFewer, FALSE \in BOOLEAN
<1> QED
  BY <1>5 DEF r

ReplyItem == [kind |-> "reply", id |-> 0]
ReplyCmd == [cmd |-> "queue", item |-> ReplyItem]
Late(top) == {x \in AnItem : x.kind = "request" /\ x.id > top}
LateCmd(top) == {c \in ACommand : c.cmd = "queue" /\ c.item \in Late(top)}

\* How many replies wait, and that no bot request has a number above top.
Replies(q) == Cardinality(At(q, {ReplyItem}))
MailReplies(q) == Cardinality(At(q, {ReplyCmd}))
NoneLate(q, mail, top) == ~Has(q, Late(top)) /\ ~Has(mail, LateCmd(top))

LEMMA RepliesTyped ==
  ASSUME NEW q \in Seq(AnItem), NEW mail \in Seq(ACommand)
  PROVE  Replies(q) \in Nat /\ MailReplies(mail) \in Nat
  BY AtFinite DEF Replies, MailReplies

\* A list that is part of the queue, perhaps after one of the user's messages.
LEMMA LessQueued ==
  ASSUME NEW q \in Seq(AnItem), NEW m \in Message, Queued(q, m), AtMostOne(q, {UserItem(m)})
  PROVE  /\ Replies(Without(q, m)) <= Replies(q) /\ Replies(MoveFirst(q, m)) <= Replies(q)
         /\ \A top : ~Has(q, Late(top)) => ~Has(Without(q, m), Late(top)) /\ ~Has(MoveFirst(q, m), Late(top))
<1> DEFINE at == QueuedAt(q, m)
           r == Without(q, m)
<1>1. at \in 1..Len(q)
  <2>1. \E i \in 1..Len(q) : q[i] = UserItem(m)
    BY DEF Queued, ItemsOf
  <2> QED
    BY <2>1 DEF QueuedAt
<1>2. r = RemovedAt(q, at)
  BY DEF Without
<1> HIDE DEF at, r
<1>3. r \in Seq(AnItem) /\ \E f : Part(r, q, f)
  <2>1. /\ RemovedAt(q, at) \in Seq(AnItem)
        /\ \E f : /\ Part(RemovedAt(q, at), q, f)
                  /\ \A j \in 1..Len(q) : j # at => \E i \in 1..(Len(q) - 1) : f[i] = j
                  /\ \A i \in 1..(Len(q) - 1) : f[i] # at
    BY <1>1, RemoveIs
  <2> QED
    BY <1>2, <2>1
<1>4. PICK f : Part(r, q, f)
  BY <1>3
<1>5. Replies(r) <= Replies(q) /\ \A top : ~Has(q, Late(top)) => ~Has(r, Late(top))
  BY <1>3, <1>4, AtPart, PartHas DEF Replies
<1> DEFINE x == UserItem(m)
<1>6. x \in AnItem /\ x \notin {ReplyItem} /\ \A top : x \notin Late(top)
  BY ItemOf DEF UserItem, ReplyItem, Late
<1> HIDE DEF x
<1>7. Replies(<<x>> \o r) <= Replies(r) /\ \A top : ~Has(r, Late(top)) => ~Has(<<x>> \o r, Late(top))
  BY <1>3, <1>6, AtFirst, FirstHas DEF Replies
<1>8. Replies(q) \in Nat /\ Replies(r) \in Nat /\ Replies(<<x>> \o r) \in Nat
  <2>1. <<x>> \o r \in Seq(AnItem)
    BY <1>3, <1>6, FirstHas
  <2> QED
    BY <1>3, <2>1, AtFinite DEF Replies
<1>9. MoveFirst(q, m) = <<x>> \o r
  BY DEF MoveFirst, r, x
<1> QED
  BY <1>5, <1>7, <1>8, <1>9 DEF r

LEMMA HandlesReplies ==
  ASSUME Typed, OnceInLine, Handles
  PROVE  /\ Replies(queue') + MailReplies(mailbox') <= Replies(queue) + MailReplies(mailbox)
         /\ \A top : NoneLate(queue, mailbox, top) => NoneLate(queue', mailbox', top)
<1> DEFINE c == Head(mailbox)
<1>1. /\ queue \in Seq(AnItem) /\ mailbox \in Seq(ACommand) /\ mailbox # <<>> /\ mailbox' = Tail(mailbox)
      /\ \A m \in Message : AtMostOne(queue, {UserItem(m)})
  BY DEF Typed, TypedActor, OnceInLine, Handles
<1>2. /\ mailbox' \in Seq(ACommand) /\ c \in ACommand
      /\ \A T : Has(mailbox, T) <=> (Has(mailbox', T) \/ c \in T)
  BY <1>1, TailHas
<1>3. MailReplies(mailbox') <= MailReplies(mailbox) - (IF c \in {ReplyCmd} THEN 1 ELSE 0)
  BY <1>1, AtTail DEF MailReplies
<1>4. Replies(queue) \in Nat /\ MailReplies(mailbox) \in Nat /\ MailReplies(mailbox') \in Nat
  BY <1>1, <1>2, RepliesTyped
<1>5. MailReplies(mailbox') <= MailReplies(mailbox)
  BY <1>3, <1>4
<1> DEFINE Fine == /\ Replies(queue') + MailReplies(mailbox') <= Replies(queue) + MailReplies(mailbox)
                   /\ \A top : NoneLate(queue, mailbox, top) => NoneLate(queue', mailbox', top)
<1>6. ASSUME Replies(queue') <= Replies(queue), Replies(queue') \in Nat, \A top : ~Has(queue, Late(top)) => ~Has(queue', Late(top))
      PROVE  Fine
  BY <1>2, <1>4, <1>5, <1>6 DEF NoneLate
<1>7. CASE Queues
  <2> DEFINE x == c.item
  <2>1. x \in AnItem /\ queue' = Append(queue, x) /\ c.cmd = "queue"
    BY <1>2, <1>7, CommandIs DEF Queues
  <2>2. c \in {ReplyCmd} <=> x \in {ReplyItem}
    <3>1. c = [cmd |-> "queue", item |-> x]
      BY <1>2, <2>1 DEF ACommand
    <3> QED
      BY <3>1 DEF ReplyCmd
  <2>3. \A top : c \in LateCmd(top) <=> x \in Late(top)
    BY <1>2, <2>1 DEF LateCmd
  <2> HIDE DEF x, c
  <2>4. Replies(queue') <= Replies(queue) + (IF x \in {ReplyItem} THEN 1 ELSE 0) /\ Replies(queue') \in Nat
    <3>1. Append(queue, x) \in Seq(AnItem)
      BY <1>1, <2>1, AppendHas
    <3> QED
      BY <1>1, <2>1, <3>1, AtAppend, AtFinite DEF Replies
  <2>5. \A T : Has(queue', T) <=> (Has(queue, T) \/ x \in T)
    BY <1>1, <2>1, AppendHas
  <2>6. \A top : NoneLate(queue, mailbox, top) => NoneLate(queue', mailbox', top)
    BY <1>2, <2>3, <2>5 DEF NoneLate
  <2> QED
    BY <1>3, <1>4, <2>2, <2>4, <2>6
<1>8. CASE UNCHANGED queue
  BY <1>4, <1>6, <1>8
<1>9. CASE Stopped
  <2>1. queue' = <<>> /\ Replies(<<>>) = 0
    <3>1. At(<<>>, {ReplyItem}) = {}
      BY DEF At
    <3> QED
      BY <1>9, <3>1, FS_EmptySet DEF Stopped, Replies
  <2> QED
    BY <1>4, <1>6, <2>1, EmptyHas
<1>10. ASSUME NEW m \in Message, Moved(m) \/ Dropped(m)
       PROVE  Fine
  <2>1. Queued(queue, m) /\ (queue' = MoveFirst(queue, m) \/ queue' = Without(queue, m))
    BY <1>10 DEF Moved, Dropped
  <2>2. queue' \in Seq(AnItem)
    <3>1. MoveFirst(queue, m) \in Seq(AnItem)
      BY <1>1, <2>1, MoveFirstIs
    <3>2. Without(queue, m) \in Seq(AnItem)
      BY <1>1, <2>1, WithoutIs
    <3> QED
      BY <2>1, <3>1, <3>2
  <2>3. Replies(queue') <= Replies(queue) /\ \A top : ~Has(queue, Late(top)) => ~Has(queue', Late(top))
    BY <1>1, <2>1, LessQueued
  <2>4. Replies(queue') \in Nat
    BY <2>2, AtFinite DEF Replies
  <2> QED
    BY <1>6, <2>3, <2>4
<1> QED
  BY <1>7, <1>8, <1>9, <1>10 DEF Handles

LEMMA StartReplies ==
  ASSUME Typed, NEW k \in 1..Len(queue), queue' = AfterFirst(k)
  PROVE  /\ Replies(queue') <= Replies(queue) - (IF Head(queue) = ReplyItem THEN 1 ELSE 0)
         /\ Replies(queue') \in Nat /\ Replies(queue) \in Nat
         /\ \A top : ~Has(queue, Late(top)) => ~Has(queue', Late(top))
<1>1. queue \in Seq(AnItem)
  BY DEF Typed, TypedActor
<1>2. /\ queue' \in Seq(AnItem) /\ Len(queue') = Len(queue) - k
      /\ \A i \in 1..(Len(queue) - k) : queue'[i] = queue[i + k]
      /\ \A T : Has(queue', T) => Has(queue, T)
  BY <1>1, AfterFirstIs
<1>3. Head(queue) = queue[1]
  <2>1. queue # <<>>
    BY <1>1, EmptySeq
  <2> QED
    BY <1>1, <2>1, HeadTailProperties
<1>4. Replies(queue') <= Replies(queue) - (IF queue[1] \in {ReplyItem} THEN 1 ELSE 0)
  BY <1>1, <1>2, AtAfter DEF Replies
<1>5. Replies(queue') \in Nat /\ Replies(queue) \in Nat
  BY <1>1, <1>2, AtFinite DEF Replies
<1> QED
  BY <1>2, <1>3, <1>4, <1>5

\* How many turn numbers can have been given.
Given == posted + others - Replies(queue) - MailReplies(mailbox)

ChatWithin(top) ==
  /\ \A m \in Message : entry[m].turn <= top
  /\ \A n \in written : n <= top
  /\ \A s \in Sender : sending[s].step = "read" => sending[s].n <= top + 1
TurnWithin(top) == turn.number <= top /\ shown <= top
TookWithin(top) == \A i \in 1..Len(took) : took[i].turn <= top
Within(top) == ChatWithin(top) /\ TurnWithin(top) /\ TookWithin(top) /\ NoneLate(queue, mailbox, top)

Dated == Within(Given)

LEMMA GivenTyped ==
  ASSUME Typed
  PROVE  Given \in Int /\ Replies(queue) \in Nat /\ MailReplies(mailbox) \in Nat /\ posted \in Nat /\ others \in Nat
  BY RepliesTyped, ConversationAssumption DEF Typed, TypedChat, TypedActor, TypedBounds, Given

LEMMA GivenMoves ==
  ASSUME Typed, queue' = queue, MailReplies(mailbox') \in Nat, NEW a \in Nat, NEW b \in Nat, NEW c \in 0..1,
         posted' = posted + a, others' = others + b, MailReplies(mailbox') <= MailReplies(mailbox) + c
  PROVE  Given + a + b - c <= Given'
<1>1. Replies(queue) \in Nat /\ MailReplies(mailbox) \in Nat /\ posted \in Nat /\ others \in Nat
  BY GivenTyped
<1>2. Given' = posted' + others' - Replies(queue') - MailReplies(mailbox')
  BY DEF Given
<1>3. Replies(queue') = Replies(queue)
  BY Zenon
<1>4. Given = posted + others - Replies(queue) - MailReplies(mailbox)
  BY DEF Given
<1> QED
  BY <1>1, <1>2, <1>3, <1>4

LEMMA TopOfChat ==
  ASSUME Typed, NEW top \in Int, Within(top)
  PROVE  max_turn \in Nat /\ max_turn <= top /\ 0 <= top
<1>1. shown \in Nat /\ shown <= top
  BY DEF Typed, TypedHistory, Within, TurnWithin
<1>2. /\ max_turn \in Nat /\ max_turn \in {0} \cup written \cup {entry[m].turn : m \in Message}
  BY MaxTurn DEF Typed, TypedChat
<1> QED
  BY <1>1, <1>2 DEF Within, ChatWithin

LEMMA TellReplies ==
  ASSUME Typed, NEW c \in ACommand, mailbox' = Append(mailbox, c)
  PROVE  /\ MailReplies(mailbox') <= MailReplies(mailbox) + (IF c = ReplyCmd THEN 1 ELSE 0)
         /\ MailReplies(mailbox') \in Nat /\ MailReplies(mailbox) \in Nat
         /\ \A q, top : NoneLate(q, mailbox, top) /\ c \notin LateCmd(top) => NoneLate(q, mailbox', top)
<1>1. mailbox \in Seq(ACommand)
  BY DEF Typed
<1>2. mailbox' \in Seq(ACommand) /\ \A T : Has(mailbox', T) <=> (Has(mailbox, T) \/ c \in T)
  BY <1>1, AppendHas
<1>3. MailReplies(mailbox') <= MailReplies(mailbox) + (IF c \in {ReplyCmd} THEN 1 ELSE 0)
  BY <1>1, AtAppend DEF MailReplies
<1>4. MailReplies(mailbox') \in Nat /\ MailReplies(mailbox) \in Nat
  BY <1>1, <1>2, AtFinite DEF MailReplies
<1>5. c \in {ReplyCmd} <=> c = ReplyCmd
  OBVIOUS
<1> QED
  BY <1>2, <1>3, <1>4, <1>5 DEF NoneLate

\* A command about a message: no turn comes with it.
LEMMA NoTurnTold ==
  ASSUME NEW c \in ACommand, c.cmd # "queue" \/ c.item.kind = "user"
  PROVE  c # ReplyCmd /\ \A top : c \notin LateCmd(top)
  BY DEF ReplyCmd, ReplyItem, LateCmd, Late

LEMMA WithinClients ==
  ASSUME Typed, NEW top \in Int, top = Given, Within(top),
         \/ \E s \in Sender : PostReads(s) \/ PostSaves(s) \/ Send(s)
         \/ \E kind \in Other : OtherArrives(kind)
         \/ \E m \in Message : Touch("steer", m) \/ Touch("unqueue", m)
         \/ Stop
  PROVE  \E t \in Int : Within(t)' /\ t <= Given'
<1> USE DEF actorVars, agentVars, bounds, history, chatVars
<1>1. /\ max_turn \in Nat /\ max_turn <= top /\ 0 <= top /\ top + 1 \in Int
      /\ Replies(queue) \in Nat /\ MailReplies(mailbox) \in Nat /\ posted \in Nat /\ others \in Nat
      /\ top = posted + others - Replies(queue) - MailReplies(mailbox)
  BY GivenTyped, TopOfChat DEF Given
<1>2. /\ entry \in [Message -> AnEntry] /\ sending \in [Sender -> [step : {"none", "read", "saved"}, n : Nat]]
      /\ written \in SUBSET Nat /\ turn \in ATurn /\ shown \in Nat /\ Len(took) \in Nat
      /\ \A i \in 1..Len(took) : took[i].turn \in Nat
  BY TookTypes DEF Typed, TypedChat, TypedActor, TypedHistory, ATook
<1>3. ASSUME NEW s \in Sender, PostReads(s)
      PROVE  \E t \in Int : Within(t)' /\ t <= Given'
  <2>1. sending' = [sending EXCEPT ![s] = [step |-> "read", n |-> max_turn + 1]]
    BY <1>3 DEF PostReads, NextTurn
  <2>2. UNCHANGED <<entry, posted, written, mailbox, queue, turn, others, took, shown>>
    BY <1>3 DEF PostReads
  <2>3. \A r \in Sender : sending'[r].step = "read" => sending'[r].n <= top + 1
    BY <1>1, <1>2, <2>1 DEF Within, ChatWithin
  <2>4. Within(top)' /\ top <= Given'
    BY <1>1, <2>2, <2>3 DEF Within, ChatWithin, TurnWithin, TookWithin, Given
  <2> QED
    BY <2>4
<1>4. ASSUME NEW s \in Sender, PostSaves(s)
      PROVE  \E t \in Int : Within(t)' /\ t <= Given'
  <2>1. /\ posted' = posted + 1 /\ sending[s].step = "read"
        /\ entry' = [entry EXCEPT ![posted + 1] = [status |-> "queued", turn |-> sending[s].n, removed |-> FALSE]]
        /\ sending' = [sending EXCEPT ![s] = [step |-> "saved", n |-> posted + 1]]
        /\ UNCHANGED <<written, mailbox, queue, turn, others, took, shown>>
    BY <1>4 DEF PostSaves
  <2>2. sending[s].n <= top + 1
    BY <2>1 DEF Within, ChatWithin
  <2>3. \A m \in Message : entry'[m].turn <= top + 1
    <3>1. SUFFICES ASSUME NEW m \in Message PROVE entry'[m].turn <= top + 1
      OBVIOUS
    <3>2. entry[m].turn <= top /\ entry[m].turn \in Nat
      BY <1>2 DEF Within, ChatWithin, AnEntry
    <3> QED
      BY <1>2, <2>1, <2>2, <3>2
  <2>4. \A r \in Sender : sending'[r].step = "read" => sending'[r].n <= top + 1 + 1
    <3>1. SUFFICES ASSUME NEW r \in Sender, sending'[r].step = "read" PROVE sending'[r].n <= top + 1 + 1
      OBVIOUS
    <3>2. sending'[r] = sending[r] /\ sending[r].n \in Nat
      BY <1>2, <2>1, <3>1
    <3> QED
      BY <3>1, <3>2 DEF Within, ChatWithin
  <2>5. ChatWithin(top + 1)'
    <3>1. \A n \in written' : n <= top + 1
      BY <1>2, <2>1 DEF Within, ChatWithin
    <3> QED
      BY <2>3, <2>4, <3>1 DEF ChatWithin
  <2>6. TurnWithin(top + 1)' /\ TookWithin(top + 1)'
    BY <1>2, <2>1 DEF Within, TurnWithin, TookWithin, ATurn
  <2>7. NoneLate(queue', mailbox', top + 1)
    <3>1. Late(top + 1) \subseteq Late(top) /\ LateCmd(top + 1) \subseteq LateCmd(top)
      BY DEF Late, LateCmd, AnItem
    <3> QED
      BY <2>1, <3>1 DEF Within, NoneLate, Has
  <2>8. Within(top + 1)' /\ top + 1 <= Given'
    BY <1>1, <2>1, <2>5, <2>6, <2>7 DEF Within, Given
  <2> QED
    BY <1>1, <2>8
<1>5. ASSUME NEW c \in ACommand, c.cmd # "queue" \/ c.item.kind = "user", mailbox' = Append(mailbox, c),
             UNCHANGED <<entry, posted, written, queue, turn, others, took, shown>>,
             \A r \in Sender : sending'[r].step = "read" => sending'[r] = sending[r]
      PROVE  \E t \in Int : Within(t)' /\ t <= Given'
  <2>1. /\ MailReplies(mailbox') <= MailReplies(mailbox) /\ MailReplies(mailbox') \in Nat
        /\ NoneLate(queue, mailbox', top)
    BY <1>5, NoTurnTold, TellReplies DEF Within
  <2>2. Within(top)'
    BY <1>5, <2>1 DEF Within, ChatWithin, TurnWithin, TookWithin
  <2>3. top <= Given'
    <3>1. posted' = posted + 0 /\ others' = others + 0 /\ MailReplies(mailbox') <= MailReplies(mailbox) + 0 /\ 0 \in Nat /\ 0 \in 0..1
      BY <1>1, <1>5, <2>1
    <3>2. Given + 0 + 0 - 0 <= Given'
      BY <1>5, <2>1, <3>1, GivenMoves
    <3> QED
      BY <3>2
  <2> QED
    BY <2>2, <2>3
<1>6. ASSUME NEW s \in Sender, Send(s)
      PROVE  \E t \in Int : Within(t)' /\ t <= Given'
  <2>1. sending[s].n \in Message /\ sending' = [sending EXCEPT ![s] = NotPosting]
    BY <1>6 DEF Send, Typed, TypedChat
  <2>2. UserCmd(sending[s].n) \in ACommand /\ IsPost(UserCmd(sending[s].n))
    BY <2>1, PostOf
  <2>3. mailbox' = Append(mailbox, UserCmd(sending[s].n))
    BY <1>6 DEF Send, Tell, UserCmd
  <2>4. \A r \in Sender : sending'[r].step = "read" => sending'[r] = sending[r]
    BY <1>2, <2>1 DEF NotPosting
  <2>5. UNCHANGED <<entry, posted, written, queue, turn, others, took, shown>>
    BY <1>6 DEF Send
  <2> QED
    BY <1>5, <2>2, <2>3, <2>4, <2>5 DEF IsPost
<1>7. ASSUME NEW m \in Message, NEW cmd \in {"steer", "unqueue"}, Touch(cmd, m)
      PROVE  \E t \in Int : Within(t)' /\ t <= Given'
  <2>1. [cmd |-> cmd, id |-> m] \in ACommand /\ [cmd |-> cmd, id |-> m].cmd # "queue"
    BY DEF ACommand
  <2>2. mailbox' = Append(mailbox, [cmd |-> cmd, id |-> m]) /\ UNCHANGED <<entry, posted, written, sending, queue, turn, others, took, shown>>
    BY <1>7 DEF Touch, Tell
  <2> QED
    BY <1>5, <2>1, <2>2
<1>8. ASSUME Stop
      PROVE  \E t \in Int : Within(t)' /\ t <= Given'
  <2>1. [cmd |-> "stop"] \in ACommand /\ [cmd |-> "stop"].cmd # "queue"
    BY DEF ACommand
  <2>2. mailbox' = Append(mailbox, [cmd |-> "stop"]) /\ UNCHANGED <<entry, posted, written, sending, queue, turn, others, took, shown>>
    BY <1>8 DEF Stop, Tell
  <2> QED
    BY <1>5, <2>1, <2>2
<1>9. ASSUME NEW kind \in Other, OtherArrives(kind)
      PROVE  \E t \in Int : Within(t)' /\ t <= Given'
  <2> DEFINE item == [kind |-> kind, id |-> IF kind = "request" THEN max_turn + 1 ELSE 0]
             c == [cmd |-> "queue", item |-> item]
  <2>1. kind \in {"request", "reply"}
    BY ConversationAssumption
  <2>2. item \in AnItem /\ c \in ACommand
    BY <1>1, <2>1 DEF AnItem, ACommand
  <2>3. /\ others' = others + 1 /\ mailbox' = Append(mailbox, c)
        /\ written' = IF kind = "request" THEN written \cup {max_turn + 1} ELSE written
        /\ UNCHANGED <<entry, posted, sending, queue, turn, took, shown>>
    BY <1>9 DEF OtherArrives, Tell
  <2>4. CASE kind = "reply"
    <3>1. c \notin LateCmd(top)
      BY <2>4 DEF LateCmd, Late
    <3>2. UNCHANGED written
      BY <2>3, <2>4
    <3> HIDE DEF c
    <3>3. /\ MailReplies(mailbox') <= MailReplies(mailbox) + 1 /\ MailReplies(mailbox') \in Nat
          /\ NoneLate(queue, mailbox', top)
      BY <2>2, <2>3, <3>1, <1>1, TellReplies DEF Within
    <3>4. Within(top)'
      BY <2>3, <3>2, <3>3 DEF Within, ChatWithin, TurnWithin, TookWithin
    <3>5. top <= Given'
      <4>1. posted' = posted + 0 /\ others' = others + 1 /\ queue' = queue /\ 0 \in Nat /\ 1 \in Nat /\ 1 \in 0..1
        BY <1>1, <2>3
      <4>2. Given + 0 + 1 - 1 <= Given'
        BY <3>3, <4>1, GivenMoves
      <4> QED
        BY <4>2
    <3> QED
      BY <3>4, <3>5
  <2>5. CASE kind = "request"
    <3>1. c \notin LateCmd(top + 1) /\ c # ReplyCmd
      BY <1>1, <2>5 DEF LateCmd, Late, ReplyCmd, ReplyItem
    <3>2. written' = written \cup {max_turn + 1}
      BY <2>3, <2>5
    <3>3. NoneLate(queue, mailbox, top + 1)
      <4>1. Late(top + 1) \subseteq Late(top) /\ LateCmd(top + 1) \subseteq LateCmd(top)
        BY DEF Late, LateCmd, AnItem
      <4> QED
        BY <4>1 DEF Within, NoneLate, Has
    <3> HIDE DEF c
    <3>4. /\ MailReplies(mailbox') <= MailReplies(mailbox) /\ MailReplies(mailbox') \in Nat
          /\ NoneLate(queue, mailbox', top + 1)
      BY <2>2, <2>3, <3>1, <3>3, <1>1, TellReplies
    <3>5. ChatWithin(top + 1)'
      <4>1. \A m \in Message : entry'[m].turn <= top + 1
        BY <1>2, <2>3 DEF Within, ChatWithin, AnEntry
      <4>2. \A n \in written' : n <= top + 1
        BY <1>1, <1>2, <3>2 DEF Within, ChatWithin
      <4>3. \A s \in Sender : sending'[s].step = "read" => sending'[s].n <= top + 1 + 1
        BY <1>2, <2>3 DEF Within, ChatWithin
      <4> QED
        BY <4>1, <4>2, <4>3 DEF ChatWithin
    <3>6. TurnWithin(top + 1)' /\ TookWithin(top + 1)'
      BY <1>2, <2>3 DEF Within, TurnWithin, TookWithin, ATurn
    <3>7. Within(top + 1)'
      BY <2>3, <3>4, <3>5, <3>6 DEF Within
    <3>8. top + 1 <= Given'
      <4>1. /\ posted' = posted + 0 /\ others' = others + 1 /\ queue' = queue /\ 0 \in Nat /\ 1 \in Nat /\ 0 \in 0..1
            /\ MailReplies(mailbox') <= MailReplies(mailbox) + 0
        BY <1>1, <2>3, <3>4
      <4>2. Given + 0 + 1 - 0 <= Given'
        BY <3>4, <4>1, GivenMoves
      <4> QED
        BY <4>2
    <3> QED
      BY <1>1, <3>7, <3>8
  <2> QED
    BY <2>1, <2>4, <2>5
<1> QED
  BY <1>3, <1>4, <1>6, <1>7, <1>8, <1>9

LEMMA HandlesTurns ==
  ASSUME Typed, OnceInLine, Handles, NEW top \in Int, \A m \in Message : entry[m].turn <= top, turn.number <= top
  PROVE  \A m \in Message : entry'[m].turn <= top
<1>1. entry \in [Message -> AnEntry] /\ turn.number \in Nat
  BY DEF Typed, TypedChat, TypedActor, ATurn
<1>2. CASE entry' = entry
  BY <1>2
<1>3. ASSUME NEW S, NEW gone \in BOOLEAN, entry' = Cancelled(S, gone)
      PROVE  \A m \in Message : entry'[m].turn <= top
  BY <1>1, <1>3, CancelledIs
<1>4. ASSUME NEW m \in Message, Moved(m)
      PROVE  \A k \in Message : entry'[k].turn <= top
  <2>1. WaitingIn(queue) \subseteq Message
    BY DEF WaitingIn
  <2> QED
    BY <1>4, <2>1, MovedIs
<1>5. ASSUME NEW m \in Message, entry' = Joined(m)
      PROVE  \A k \in Message : entry'[k].turn <= top
  BY <1>1, <1>5, JoinedIs
<1> QED
  BY <1>2, <1>3, <1>4, <1>5 DEF Handles, Queues, Stopped, Dropped

LEMMA WithinHandled ==
  ASSUME Known, NEW top \in Int, top = Given, Within(top), HandleCommand
  PROVE  \E t \in Int : Within(t)' /\ t <= Given'
<1> DEFINE c == Head(mailbox)
<1>1. Typed /\ OnceInLine /\ Handles
  BY HandlesLine DEF Known
<1>2. UNCHANGED <<posted, written, sending, others, took, shown>>
  BY DEF HandleCommand, bounds
<1>3. /\ \/ OnQueue(c.item) \/ OnSteer(c.id) \/ OnUnqueue(c.id)
         \/ OnSteered(c.id, c.outcome) \/ OnStop
  BY DEF HandleCommand
<1>4. turn \in ATurn /\ shown \in Nat /\ turn.number <= top /\ 0 <= top
  BY <1>1, TopOfChat DEF Typed, TypedActor, TypedHistory, Within, TurnWithin
<1>5. turn'.number <= top
  <2> HIDE DEF c
  <2>1. CASE OnQueue(c.item) \/ OnUnqueue(c.id)
    BY <1>4, <2>1 DEF OnQueue, OnUnqueue
  <2>2. CASE OnSteer(c.id)
    BY <1>4, <2>2 DEF OnSteer, actorVars, ATurn
  <2>3. CASE OnStop
    BY <1>4, <2>3 DEF OnStop, ATurn
  <2>4. CASE OnSteered(c.id, c.outcome)
    <3>1. CASE EndTurn
      BY <1>4, <3>1 DEF EndTurn, Idle
    <3>2. CASE turn' = turn \/ turn' = [turn EXCEPT !.batch = Append(turn.batch, c.id)]
      BY <1>4, <3>2 DEF ATurn
    <3> QED
      BY <2>4, <3>1, <3>2 DEF OnSteered
  <2> QED
    BY <1>3, <2>1, <2>2, <2>3, <2>4
<1>6. \A m \in Message : entry'[m].turn <= top
  BY <1>1, <1>4, HandlesTurns DEF Within, ChatWithin
<1>7. /\ Replies(queue') + MailReplies(mailbox') <= Replies(queue) + MailReplies(mailbox)
      /\ NoneLate(queue', mailbox', top)
  BY <1>1, HandlesReplies DEF Within
<1>8. Within(top)'
  BY <1>2, <1>5, <1>6, <1>7 DEF Within, ChatWithin, TurnWithin, TookWithin
<1>9. top <= Given'
  <2>1. Typed'
    BY <1>1, TypedHandled
  <2>2. queue' \in Seq(AnItem) /\ mailbox' \in Seq(ACommand)
    BY <2>1 DEF Typed, TypedActor
  <2>3. Replies(queue') \in Nat /\ MailReplies(mailbox') \in Nat
    BY <2>2, RepliesTyped
  <2>4. /\ Replies(queue) \in Nat /\ MailReplies(mailbox) \in Nat /\ posted \in Nat /\ others \in Nat
    BY <1>1, GivenTyped
  <2>5. Given' = posted' + others' - Replies(queue') - MailReplies(mailbox')
    BY DEF Given
  <2>6. top = posted + others - Replies(queue) - MailReplies(mailbox)
    BY DEF Given
  <2> QED
    BY <1>2, <1>7, <2>3, <2>4, <2>5, <2>6
<1> QED
  BY <1>8, <1>9

LEMMA FewerLeft ==
  ASSUME NEW a \in Int, NEW b \in Int, NEW q \in Int, NEW r \in Int, NEW m \in Int, r <= q
  PROVE  a + b - q - m <= a + b - r - m
  OBVIOUS

LEMMA WithinTurns ==
  ASSUME Typed, NEW top \in Int, top = Given, Within(top),
         StartUserTurn \/ StartOtherTurn \/ Prompted \/ StartFails \/ TakeDone
  PROVE  \E t \in Int : Within(t)' /\ t <= Given'
<1> USE DEF agentVars, bounds, history, chatVars
<1>1. /\ max_turn \in Nat /\ max_turn <= top /\ 0 <= top /\ top + 1 \in Int
      /\ Replies(queue) \in Nat /\ MailReplies(mailbox) \in Nat /\ posted \in Nat /\ others \in Nat
      /\ top = posted + others - Replies(queue) - MailReplies(mailbox)
  BY GivenTyped, TopOfChat DEF Given
<1>2. /\ entry \in [Message -> AnEntry] /\ queue \in Seq(AnItem)
      /\ written \in SUBSET Nat /\ turn \in ATurn /\ shown \in Nat /\ Len(took) \in Nat
      /\ \A i \in 1..Len(took) : took[i].turn \in Nat
      /\ sending \in [Sender -> [step : {"none", "read", "saved"}, n : Nat]]
  BY TookTypes DEF Typed, TypedChat, TypedActor, TypedHistory, ATook
<1>3. Given' = posted' + others' - Replies(queue') - MailReplies(mailbox')
  BY DEF Given
<1>4. ASSUME StartUserTurn
      PROVE  \E t \in Int : Within(t)' /\ t <= Given'
  <2>1. PICK k \in 1..Len(queue) :
           /\ queue' = AfterFirst(k)
           /\ turn' = [phase |-> "starting", number |-> entry[queue[k].id].turn, user |-> TRUE,
                       batch |-> [i \in 1..k |-> queue[i].id], stop |-> FALSE]
           /\ queue[k].id \in Message
           /\ \A m \in Message : entry'[m].turn = entry[m].turn
           /\ shown' = Higher(entry[queue[k].id].turn)
    BY <1>2, <1>4, StartIs
  <2>2. UNCHANGED <<posted, written, sending, mailbox, others, took>>
    BY <1>4 DEF StartUserTurn
  <2>3. /\ Replies(queue') <= Replies(queue) /\ Replies(queue') \in Nat
        /\ ~Has(queue', Late(top))
    BY <2>1, StartReplies DEF Within, NoneLate
  <2>4. entry[queue[k].id].turn <= top
    BY <2>1 DEF Within, ChatWithin
  <2>5. TurnWithin(top)'
    BY <2>1, <2>4 DEF Within, TurnWithin, Higher
  <2>6. ChatWithin(top)' /\ TookWithin(top)' /\ NoneLate(queue', mailbox', top)
    BY <2>1, <2>2, <2>3 DEF Within, ChatWithin, TookWithin, NoneLate
  <2>7. top <= Given'
    <3>1. posted' = posted /\ others' = others /\ MailReplies(mailbox') = MailReplies(mailbox)
      BY <2>2
    <3>2. Given' = posted + others - Replies(queue') - MailReplies(mailbox)
      BY <1>3, <3>1
    <3>3. Replies(queue) \in Int /\ Replies(queue') \in Int /\ MailReplies(mailbox) \in Int /\ posted \in Int /\ others \in Int
      BY <1>1, <2>3
    <3>4. posted + others - Replies(queue) - MailReplies(mailbox) <= posted + others - Replies(queue') - MailReplies(mailbox)
      BY <2>3, <3>3, FewerLeft
    <3> QED
      BY <1>1, <3>2, <3>4
  <2> QED
    BY <2>5, <2>6, <2>7 DEF Within
<1>5. ASSUME StartOtherTurn
      PROVE  \E t \in Int : Within(t)' /\ t <= Given'
  <2> DEFINE x == Head(queue)
             number == IF x.kind = "request" THEN x.id ELSE max_turn + 1
             k == IF x.kind = "request" THEN 1 ELSE Run("reply")
  <2>1. queue # <<>> /\ x.kind # "user"
    BY <1>5 DEF StartOtherTurn
  <2>2. x \in AnItem /\ \A T : Has(queue, T) <=> (Has(Tail(queue), T) \/ x \in T)
    BY <1>2, <2>1, TailHas
  <2>3. (x.kind = "request" /\ x.id \in Nat) \/ x = ReplyItem
    BY <2>1, <2>2 DEF AnItem, ReplyItem
  <2>4. k \in 1..Len(queue)
    <3>1. Len(queue) \in Nat /\ Len(queue) >= 1
      BY <1>2, <2>1, EmptySeq
    <3> QED
      BY <1>2, <2>1, <2>3, <3>1, RunIs DEF ReplyItem
  <2>5. /\ queue' = AfterFirst(k) /\ turn' = [Idle EXCEPT !.phase = "starting", !.number = number]
        /\ shown' = Higher(number) /\ UNCHANGED <<entry, posted, written, sending, mailbox, others, took>>
    BY <1>5 DEF StartOtherTurn
  <2> HIDE DEF k
  <2>6. /\ Replies(queue') <= Replies(queue) - (IF x = ReplyItem THEN 1 ELSE 0) /\ Replies(queue') \in Nat
        /\ ~Has(queue', Late(top))
    BY <2>4, <2>5, StartReplies DEF Within, NoneLate
  <2>7. turn'.number = number
    BY <2>5 DEF Idle
  <2> HIDE DEF x
  <2>8. CASE x.kind = "request" /\ x.id \in Nat
    <3>1. number <= top
      <4>1. x \notin Late(top)
        BY <2>2 DEF Within, NoneLate
      <4> QED
        BY <2>2, <2>8, <4>1 DEF Late
    <3>2. TurnWithin(top)'
      BY <2>5, <2>7, <3>1 DEF Within, TurnWithin, Higher
    <3>3. ChatWithin(top)' /\ TookWithin(top)' /\ NoneLate(queue', mailbox', top)
      BY <2>5, <2>6 DEF Within, ChatWithin, TookWithin, NoneLate
    <3>4. top <= Given'
      BY <1>1, <1>3, <2>5, <2>6
    <3> QED
      BY <3>2, <3>3, <3>4 DEF Within
  <2>9. CASE x = ReplyItem
    <3>1. number = max_turn + 1
      BY <2>9 DEF ReplyItem
    <3> HIDE DEF number
    <3>2. TurnWithin(top + 1)'
      BY <1>1, <1>2, <2>5, <2>7, <3>1 DEF Within, TurnWithin, Higher
    <3>3. NoneLate(queue', mailbox', top + 1)
      <4>1. Late(top + 1) \subseteq Late(top) /\ LateCmd(top + 1) \subseteq LateCmd(top)
        BY DEF Late, LateCmd, AnItem
      <4> QED
        BY <2>5, <2>6, <4>1 DEF Within, NoneLate, Has
    <3>4. ChatWithin(top + 1)'
      <4>1. \A m \in Message : entry'[m].turn <= top + 1
        BY <1>2, <2>5 DEF Within, ChatWithin, AnEntry
      <4>2. \A n \in written' : n <= top + 1
        BY <1>1, <1>2, <2>5 DEF Within, ChatWithin
      <4>3. \A s \in Sender : sending'[s].step = "read" => sending'[s].n <= top + 1 + 1
        BY <1>2, <2>5 DEF Within, ChatWithin
      <4> QED
        BY <4>1, <4>2, <4>3 DEF ChatWithin
    <3>5. TookWithin(top + 1)'
      BY <1>2, <2>5 DEF Within, TookWithin
    <3>6. top + 1 <= Given'
      BY <1>1, <1>3, <2>5, <2>6, <2>9
    <3> QED
      BY <1>1, <3>2, <3>3, <3>4, <3>5, <3>6 DEF Within
  <2> QED
    BY <2>3, <2>8, <2>9
<1>6. ASSUME Prompted
      PROVE  \E t \in Int : Within(t)' /\ t <= Given'
  <2>1. /\ UNCHANGED <<entry, posted, written, sending, mailbox, queue, others, shown>>
        /\ turn'.number = turn.number
    BY <1>2, <1>6 DEF Prompted, ATurn
  <2>2. Prompts
    BY <1>2, <1>6 DEF Prompted, Prompts, ATurn
  <2>3. /\ Len(turn.batch) \in Nat /\ Len(took') = Len(took) + Len(turn.batch)
        /\ \A i \in 1..Len(took) : took'[i] = took[i]
        /\ \A i \in 1..Len(turn.batch) :
             took'[Len(took) + i] = [id |-> turn.batch[i], turn |-> turn.number, joined |-> FALSE]
    BY <2>2, TookPrompted
  <2>4. TookWithin(top)'
    <3>1. SUFFICES ASSUME NEW j \in 1..Len(took') PROVE took'[j].turn <= top
      BY DEF TookWithin
    <3>2. CASE j \in 1..Len(took)
      BY <2>3, <3>2 DEF Within, TookWithin
    <3>3. CASE j \notin 1..Len(took)
      <4>1. PICK i \in 1..Len(turn.batch) : j = Len(took) + i
        <5>1. j - Len(took) \in 1..Len(turn.batch) /\ j = Len(took) + (j - Len(took))
          BY <1>2, <2>3, <3>3
        <5> QED
          BY <5>1
      <4>2. took'[j] = [id |-> turn.batch[i], turn |-> turn.number, joined |-> FALSE]
        BY <2>3, <4>1
      <4> QED
        BY <4>2 DEF Within, TurnWithin
    <3> QED
      BY <3>2, <3>3
  <2>5. Within(top)' /\ top <= Given'
    BY <1>1, <1>3, <2>1, <2>4 DEF Within, ChatWithin, TurnWithin
  <2> QED
    BY <2>5
<1>7. ASSUME StartFails \/ TakeDone
      PROVE  \E t \in Int : Within(t)' /\ t <= Given'
  <2>1. /\ UNCHANGED <<entry, posted, written, sending, mailbox, queue, others, took, shown>>
        /\ turn' = turn \/ turn' = Idle
    BY <1>7 DEF StartFails, TakeDone, EndTurn
  <2>2. turn'.number <= top
    BY <1>1, <2>1 DEF Within, TurnWithin, Idle
  <2>3. Within(top)' /\ top <= Given'
    BY <1>1, <1>3, <2>1, <2>2 DEF Within, ChatWithin, TurnWithin, TookWithin
  <2> QED
    BY <2>3
<1> QED
  BY <1>4, <1>5, <1>6, <1>7

LEMMA WithinAgents ==
  ASSUME Typed, NEW top \in Int, top = Given, Within(top), AgentStep \/ KillAgent
  PROVE  \E t \in Int : Within(t)' /\ t <= Given'
<1> USE DEF actorVars, agentVars, bounds, history, chatVars
<1>1. /\ 0 <= top /\ Replies(queue) \in Nat /\ MailReplies(mailbox) \in Nat /\ posted \in Nat /\ others \in Nat
      /\ top = posted + others - Replies(queue) - MailReplies(mailbox)
  BY GivenTyped, TopOfChat DEF Given
<1>2. /\ written \in SUBSET Nat /\ turn.number \in Nat /\ turn.number <= top /\ took \in Seq(ATook)
  BY DEF Typed, TypedChat, TypedActor, TypedHistory, ATurn, Within, TurnWithin
<1>3. Given' = posted' + others' - Replies(queue') - MailReplies(mailbox')
  BY DEF Given
<1>4. CASE AgentWrites
  <2>1. written' = written \cup {turn.number} /\ UNCHANGED <<entry, posted, sending, mailbox, queue, turn, others, took, shown>>
    BY <1>4 DEF AgentWrites
  <2>2. Within(top)'
    BY <1>2, <2>1 DEF Within, ChatWithin, TurnWithin, TookWithin
  <2>3. top <= Given'
    BY <1>1, <1>3, <2>1
  <2> QED
    BY <2>2, <2>3
<1>5. ASSUME UNCHANGED <<entry, posted, written, sending, queue, turn, others, shown>>, TookWithin(top)',
             \/ UNCHANGED mailbox
             \/ \E m \in Message, o \in Outcome : mailbox' = Append(mailbox, [cmd |-> "steered", id |-> m, outcome |-> o])
      PROVE  \E t \in Int : Within(t)' /\ t <= Given'
  <2>1. /\ MailReplies(mailbox') <= MailReplies(mailbox) /\ MailReplies(mailbox') \in Nat
        /\ NoneLate(queue, mailbox', top)
    <3>1. CASE UNCHANGED mailbox
      BY <1>1, <3>1 DEF Within
    <3>2. ASSUME NEW m \in Message, NEW o \in Outcome, mailbox' = Append(mailbox, [cmd |-> "steered", id |-> m, outcome |-> o])
          PROVE  /\ MailReplies(mailbox') <= MailReplies(mailbox) /\ MailReplies(mailbox') \in Nat
                 /\ NoneLate(queue, mailbox', top)
      <4> DEFINE c == [cmd |-> "steered", id |-> m, outcome |-> o]
      <4>1. c \in ACommand /\ c.cmd # "queue"
        BY DEF ACommand
      <4> HIDE DEF c
      <4>2. mailbox' = Append(mailbox, c)
        BY <3>2 DEF c
      <4> QED
        BY <4>1, <4>2, NoTurnTold, TellReplies DEF Within
    <3> QED
      BY <1>5, <3>1, <3>2
  <2>2. Within(top)'
    BY <1>5, <2>1 DEF Within, ChatWithin, TurnWithin
  <2>3. posted' = posted + 0 /\ others' = others + 0 /\ MailReplies(mailbox') <= MailReplies(mailbox) + 0 /\ queue' = queue /\ 0 \in Nat /\ 0 \in 0..1
    BY <1>1, <1>5, <2>1
  <2>4. Given + 0 + 0 - 0 <= Given'
    BY <2>1, <2>3, GivenMoves
  <2> QED
    BY <2>2, <2>4
<1>6. took' = took => TookWithin(top)'
  BY DEF Within, TookWithin
<1>7. ASSUME AgentEnds("ok") \/ AgentEnds("err") \/ AgentDies
      PROVE  \E t \in Int : Within(t)' /\ t <= Given'
  <2>1. UNCHANGED <<entry, posted, written, sending, queue, turn, others, shown, took, mailbox>>
    BY <1>7 DEF AgentEnds, AgentDies, AgentFrame
  <2> QED
    BY <1>5, <1>6, <2>1
<1>8. ASSUME NEW m \in Message, AgentTakes(m) \/ AgentRefuses(m, "next") \/ AgentRefuses(m, "failed") \/ SteerLost(m) \/ AnswerFails(m)
      PROVE  \E t \in Int : Within(t)' /\ t <= Given'
  <2>1. UNCHANGED <<entry, posted, written, sending, queue, turn, others, shown>>
    BY <1>8 DEF AgentTakes, AgentRefuses, SteerLost, AnswerFails, AgentFrame
  <2>2. Answer(m, "joined") \/ Answer(m, "next") \/ Answer(m, "failed")
    BY <1>8 DEF AgentTakes, AgentRefuses, SteerLost, AnswerFails
  <2>3. \/ UNCHANGED mailbox
        \/ \E k \in Message, o \in Outcome : mailbox' = Append(mailbox, [cmd |-> "steered", id |-> k, outcome |-> o])
    BY <2>2 DEF Answer, Tell, Outcome
  <2>4. TookWithin(top)'
    <3>1. CASE took' = took
      BY <1>6, <3>1
    <3>2. CASE AgentTakes(m)
      <4> DEFINE r == [id |-> m, turn |-> turn.number, joined |-> TRUE]
      <4>1. r \in ATook /\ r.turn = turn.number /\ took' = Append(took, r)
        BY <1>2, <3>2 DEF AgentTakes, ATook
      <4> HIDE DEF r
      <4>2. /\ Len(took) \in Nat /\ Len(took') = Len(took) + 1
            /\ \A i \in 1..Len(took) : took'[i] = took[i]
            /\ took'[Len(took) + 1] = r
        BY <1>2, <4>1, TookAppend
      <4>3. \A i \in 1..Len(took') : i \in 1..Len(took) \/ i = Len(took) + 1
        BY <4>2
      <4> QED
        BY <1>2, <4>1, <4>2, <4>3 DEF Within, TookWithin
    <3> QED
      BY <1>8, <3>1, <3>2 DEF AgentRefuses, SteerLost, AnswerFails
  <2> QED
    BY <1>5, <2>1, <2>3, <2>4
<1> QED
  BY <1>4, <1>7, <1>8 DEF AgentStep, KillAgent

LEMMA WithinRestart ==
  ASSUME Typed, NEW top \in Int, top = Given, Within(top), NEW resume \in BOOLEAN, Restart(resume)
  PROVE  \E t \in Int : Within(t)' /\ t <= Given'
<1>1. /\ max_turn \in Nat /\ max_turn <= top /\ 0 <= top
      /\ Replies(queue) \in Nat /\ MailReplies(mailbox) \in Nat /\ posted \in Nat /\ others \in Nat
      /\ top = posted + others - Replies(queue) - MailReplies(mailbox)
  BY GivenTyped, TopOfChat DEF Given
<1>2. /\ UNCHANGED <<posted, written, others, took>> /\ entry' = Restarted /\ queue' = <<>> /\ mailbox' = <<>>
      /\ sending' = [s \in Sender |-> NotPosting]
      /\ turn' = IF marked /\ resume THEN [Idle EXCEPT !.phase = "starting", !.number = max_turn, !.user = TRUE] ELSE Idle
      /\ shown' = IF marked /\ resume THEN Higher(max_turn) ELSE shown
  BY DEF Restart
<1>3. \A m \in Message : entry'[m].turn <= top
  BY <1>2, RestartedIs DEF Typed, TypedChat, Within, ChatWithin
<1>4. ChatWithin(top)'
  BY <1>2, <1>3 DEF Within, ChatWithin, NotPosting
<1>5. TurnWithin(top)'
  <2>1. turn'.number <= top
    BY <1>1, <1>2 DEF Idle
  <2> QED
    BY <1>1, <1>2, <2>1 DEF Within, TurnWithin, Higher
<1>6. NoneLate(queue', mailbox', top)
  BY <1>2, EmptyHas DEF NoneLate
<1>7. top <= Given'
  <2>1. At(<<>>, {ReplyItem}) = {} /\ At(<<>>, {ReplyCmd}) = {}
    BY DEF At
  <2>2. Replies(queue') = 0 /\ MailReplies(mailbox') = 0
    BY <1>2, <2>1, FS_EmptySet DEF Replies, MailReplies
  <2>3. Given' = posted' + others' - Replies(queue') - MailReplies(mailbox')
    BY DEF Given
  <2> QED
    BY <1>1, <1>2, <2>2, <2>3
<1> QED
  BY <1>2, <1>4, <1>5, <1>6, <1>7 DEF Within, TookWithin

LEMMA DatedStep ==
  ASSUME Known, Dated, [Next]_vars
  PROVE  Dated'
<1>1. Typed /\ Typed' /\ Given \in Int
  BY TypedStep, GivenTyped DEF Known
<1>2. PICK top \in Int : top = Given
  BY <1>1
<1>3. Within(top)
  BY <1>2 DEF Dated
<1>4. PICK t \in Int : Within(t)' /\ t <= Given'
  <2>1. CASE UNCHANGED vars
    <3>1. Within(top)' /\ top <= Given'
      BY <1>1, <1>2, <1>3, <2>1 DEF vars, Within, ChatWithin, TurnWithin, TookWithin, Given
    <3> QED
      BY <3>1
  <2> QED
    BY <1>1, <1>2, <1>3, <2>1, WithinClients, WithinHandled, WithinTurns, WithinAgents, WithinRestart DEF Next
<1>5. Given' \in Int
  <2>1. /\ posted' \in Nat /\ others' \in Nat /\ queue' \in Seq(AnItem) /\ mailbox' \in Seq(ACommand)
    BY <1>1, ConversationAssumption DEF Typed, TypedChat, TypedActor, TypedBounds
  <2>2. Replies(queue') \in Nat /\ MailReplies(mailbox') \in Nat
    BY <2>1, RepliesTyped
  <2> QED
    BY <2>1, <2>2 DEF Given
<1>6. PICK n \in Int : n = Given'
  BY <1>5
<1>7. Within(n)'
  <2>1. t <= n
    BY <1>4, <1>6
  <2>2. /\ \A m \in Message : entry'[m].turn \in Nat
        /\ written' \in SUBSET Nat /\ turn'.number \in Nat /\ shown' \in Nat
        /\ \A s \in Sender : sending'[s].n \in Nat
    BY <1>1 DEF Typed, TypedChat, TypedActor, TypedHistory, AnEntry, ATurn
  <2>3. \A i \in 1..Len(took') : took'[i].turn \in Nat
    <3>1. took' \in Seq(ATook)
      BY <1>1 DEF Typed, TypedHistory
    <3>2. \A i \in 1..Len(took') : took'[i] \in ATook
      BY <3>1, ElementOfSeq
    <3> QED
      BY <3>2 DEF ATook
  <2>4. ChatWithin(n)' /\ TurnWithin(n)' /\ TookWithin(n)'
    BY <1>4, <2>1, <2>2, <2>3 DEF Within, ChatWithin, TurnWithin, TookWithin
  <2>5. Late(n) \subseteq Late(t) /\ LateCmd(n) \subseteq LateCmd(t)
    BY <2>1 DEF Late, LateCmd, AnItem
  <2>6. NoneLate(queue', mailbox', n)
    BY <1>4, <2>5 DEF Within, NoneLate, Has
  <2> QED
    BY <2>4, <2>6 DEF Within
<1> QED
  BY <1>6, <1>7 DEF Dated

LEMMA DatedInit == Init => Dated
<1> SUFFICES ASSUME Init PROVE Dated
  OBVIOUS
<1>1. At(<<>>, {ReplyItem}) = {} /\ At(<<>>, {ReplyCmd}) = {}
  BY DEF At
<1>2. Replies(queue) = 0 /\ MailReplies(mailbox) = 0
  BY <1>1, FS_EmptySet DEF Init, Replies, MailReplies
<1>3. Given = 0
  BY <1>2 DEF Init, Given
<1>4. ChatWithin(0) /\ TurnWithin(0) /\ TookWithin(0)
  BY DEF Init, ChatWithin, TurnWithin, TookWithin, NotPosting, Idle
<1>5. NoneLate(queue, mailbox, 0)
  BY EmptyHas DEF Init, NoneLate
<1> QED
  BY <1>3, <1>4, <1>5 DEF Dated, Within

LEMMA DatedIsTyped ==
  ASSUME Known, Dated
  PROVE  TypeOK
<1>1. /\ Typed /\ TypedChat /\ TypedActor /\ TypedAgent /\ TypedHistory /\ TypedBounds
      /\ MaxMessages \in Nat /\ MaxOthers \in Nat
  BY ConversationAssumption DEF Known, Typed
<1>2. PICK top \in Int : top = Given
  BY <1>1, GivenTyped
<1>3. Within(top) /\ 0 <= top
  BY <1>1, <1>2, TopOfChat DEF Dated
<1>4. posted \in 0..MaxMessages /\ top <= posted + others /\ top <= MaxMessages + MaxOthers
  <2>1. Cardinality(Readers) \in Nat
    BY <1>1, FS_CardinalityType DEF TypedChat
  <2>2. /\ Replies(queue) \in Nat /\ MailReplies(mailbox) \in Nat /\ posted \in Nat /\ others \in Nat
    BY <1>1, GivenTyped
  <2>3. top = posted + others - Replies(queue) - MailReplies(mailbox)
    BY <1>2 DEF Given
  <2> QED
    BY <1>1, <2>1, <2>2, <2>3 DEF TypedChat, TypedBounds
<1>5. \A n \in Nat : n <= top => n \in Number
  BY <1>1, <1>2, <1>4 DEF Number
<1>6. entry \in [Message -> Entry]
  <2>1. SUFFICES ASSUME NEW m \in Message PROVE entry[m] \in Entry
    BY <1>1 DEF TypedChat
  <2>2. entry[m] \in AnEntry /\ entry[m].turn <= top
    BY <1>1, <1>3 DEF TypedChat, Within, ChatWithin
  <2>3. entry[m].turn \in Number
    BY <1>5, <2>2 DEF AnEntry
  <2> QED
    BY <2>2, <2>3 DEF AnEntry, Entry
<1>7. written \subseteq Number
  BY <1>1, <1>3, <1>5 DEF TypedChat, Within, ChatWithin
<1>8. sending \in [Sender -> Progress]
  <2>1. SUFFICES ASSUME NEW s \in Sender PROVE sending[s] \in Progress
    BY <1>1 DEF TypedChat
  <2>2. /\ sending[s] \in [step : {"none", "read", "saved"}, n : Nat]
        /\ sending[s].step = "none" => sending[s].n = 0
        /\ sending[s].step = "saved" => sending[s].n \in Message
    BY <1>1 DEF TypedChat
  <2>3. CASE sending[s].step = "read"
    <3>1. sending[s].n <= top + 1
      BY <1>3, <2>3 DEF Within, ChatWithin
    <3>2. posted + 1 <= MaxMessages
      <4>1. s \in Readers
        BY <2>3 DEF Readers
      <4>2. Cardinality(Readers) \in Nat /\ Cardinality(Readers) # 0
        BY <1>1, <4>1, FS_CardinalityType, FS_EmptySet DEF TypedChat
      <4> QED
        BY <1>1, <4>2 DEF TypedChat
    <3>3. others \in Nat /\ others <= MaxOthers /\ posted \in Nat
      BY <1>1 DEF TypedBounds, TypedChat
    <3>4. sending[s].n \in Number
      BY <1>1, <1>2, <1>4, <2>2, <3>1, <3>2, <3>3 DEF Number
    <3> QED
      BY <2>2, <2>3, <3>4 DEF Progress
  <2>4. CASE sending[s].step = "none"
    BY <2>2, <2>4 DEF Progress
  <2>5. CASE sending[s].step = "saved"
    BY <2>2, <2>5 DEF Progress
  <2> QED
    BY <2>2, <2>3, <2>4, <2>5
<1>9. \A x \in AnItem : x \notin Late(top) => x \in Item
  <2>1. SUFFICES ASSUME NEW x \in AnItem, x \notin Late(top) PROVE x \in Item
    OBVIOUS
  <2>2. CASE x \in [kind : {"request"}, id : Nat]
    <3>1. x.id \in Number
      BY <1>2, <1>5, <2>1, <2>2 DEF Late
    <3> QED
      BY <2>2, <3>1 DEF Item
  <2> QED
    BY <2>2 DEF AnItem, Item
<1>10. queue \in Seq(Item)
  <2>1. queue \in Seq(AnItem) /\ \A i \in 1..Len(queue) : queue[i] \notin Late(top)
    BY <1>1, <1>3 DEF TypedActor, Within, NoneLate, Has
  <2>2. \A i \in 1..Len(queue) : queue[i] \in Item
    BY <1>9, <2>1, ElementOfSeq
  <2> QED
    BY <2>1, <2>2
<1>11. mailbox \in Seq(Command)
  <2>1. mailbox \in Seq(ACommand) /\ \A i \in 1..Len(mailbox) : mailbox[i] \notin LateCmd(top)
    BY <1>1, <1>3 DEF Typed, Within, NoneLate, Has
  <2>2. ASSUME NEW c \in ACommand, c \notin LateCmd(top) PROVE c \in Command
    <3>1. CASE c \in [cmd : {"queue"}, item : AnItem]
      <4>1. c.item \in Item
        BY <1>9, <2>2, <3>1 DEF LateCmd
      <4>2. c \in [cmd : {"queue"}, item : Item]
        BY <3>1, <4>1
      <4> QED
        BY <4>2 DEF Command
    <3> QED
      BY <2>2, <3>1 DEF ACommand, Command
  <2>3. \A i \in 1..Len(mailbox) : mailbox[i] \in Command
    BY <2>1, <2>2, ElementOfSeq
  <2> QED
    BY <2>1, <2>3
<1>12. turn \in Turn /\ shown \in Number
  <2>1. turn \in ATurn /\ shown \in Nat /\ turn.number <= top /\ shown <= top
    BY <1>1, <1>3 DEF TypedActor, TypedHistory, Within, TurnWithin
  <2>2. turn.number \in Number
    BY <1>5, <2>1 DEF ATurn
  <2> QED
    BY <1>5, <2>1, <2>2 DEF ATurn, Turn
<1>13. took \in Seq([id : Message, turn : Number, joined : BOOLEAN])
  <2> DEFINE S == [id : Message, turn : Number, joined : BOOLEAN]
  <2>1. took \in Seq(ATook) /\ \A i \in 1..Len(took) : took[i].turn <= top
    BY <1>1, <1>3 DEF TypedHistory, Within, TookWithin
  <2>2. \A i \in 1..Len(took) : took[i] \in ATook
    BY <2>1, ElementOfSeq
  <2>3. \A i \in 1..Len(took) : took[i] \in S
    BY <1>5, <2>1, <2>2 DEF ATook
  <2> HIDE DEF S
  <2>4. took \in Seq(S)
    BY <2>1, <2>3
  <2> QED
    BY <2>4 DEF S
<1> QED
  BY <1>1, <1>4, <1>6, <1>7, <1>8, <1>10, <1>11, <1>12, <1>13 DEF TypeOK, TypedActor, TypedAgent, TypedHistory, TypedBounds

\* Every turn number in the chat, the queue and the clients' hands is one that a post or another turn
\* was given (chat/messages.rs, next_turn; agent/bot/turn.rs): a number is never made up, however
\* clients and turns interleave, messages are renumbered, and the host restarts.
THEOREM TypesBounded == Spec => []TypeOK
<1>1. Known /\ Dated /\ [Next]_vars => Dated'
  BY DatedStep
<1>2. Known /\ Dated => TypeOK
  BY DatedIsTyped
<1> QED
  BY <1>1, <1>2, DatedInit, KnownAlways, PTL DEF Spec

-----------------------------------------------------------------------------
(* A turn held open is owed an answer, whether or not the agent's come in time. *)

\* What the mailbox has of answers stays until the actor takes it.
LEMMA MailGrows ==
  ASSUME mailbox \in Seq(ACommand), NEW m \in Message
  PROVE  /\ mailbox' = mailbox => (Has(mailbox, AnswersTo(m)) => Has(mailbox', AnswersTo(m)))
         /\ \A c \in ACommand : mailbox' = Append(mailbox, c) /\ (Has(mailbox, AnswersTo(m)) \/ c \in AnswersTo(m))
                                  => Has(mailbox', AnswersTo(m))
         /\ mailbox # <<>> /\ mailbox' = Tail(mailbox) /\ Head(mailbox) \notin AnswersTo(m)
              => (Has(mailbox, AnswersTo(m)) => Has(mailbox', AnswersTo(m)))
<1> DEFINE A == AnswersTo(m)
<1>1. ASSUME NEW c \in ACommand, mailbox' = Append(mailbox, c), Has(mailbox, A) \/ c \in A
      PROVE  Has(mailbox', A)
  <2>1. Has(Append(mailbox, c), A) <=> Has(mailbox, A) \/ c \in A
    BY AppendHas
  <2> QED
    BY <1>1, <2>1
<1>2. ASSUME mailbox # <<>>, mailbox' = Tail(mailbox), Head(mailbox) \notin A, Has(mailbox, A)
      PROVE  Has(mailbox', A)
  <2>1. Has(mailbox, A) <=> Head(mailbox) \in A \/ Has(Tail(mailbox), A)
    BY <1>2, TailHas
  <2> QED
    BY <1>2, <2>1
<1> HIDE DEF A
<1>3. mailbox' = mailbox => (Has(mailbox, A) => Has(mailbox', A))
  OBVIOUS
<1> QED
  BY <1>1, <1>2, <1>3 DEF A

Owed(m) == m \in awaited \/ Has(mailbox, AnswersTo(m))
EveryOwed == \A m \in Message : InFlight(m) => Owed(m)
HeldForOne == held # "none" => turn.phase = "running" /\ \E m \in Message : InFlight(m)

LEMMA OwedIs ==
  ASSUME Typed, NEW m \in Message
  PROVE  Has(mailbox, AnswersTo(m)) <=> \E i \in 1..Len(mailbox) : mailbox[i].cmd = "steered" /\ mailbox[i].id = m
<1>1. mailbox \in Seq(ACommand)
  BY DEF Typed
<1>2. ASSUME NEW i \in 1..Len(mailbox)
      PROVE  mailbox[i] \in AnswersTo(m) <=> mailbox[i].cmd = "steered" /\ mailbox[i].id = m
  <2>1. mailbox[i] \in ACommand
    BY <1>1, ElementOfSeq
  <2>2. ASSUME mailbox[i].cmd = "steered", mailbox[i].id = m
        PROVE  mailbox[i] \in AnswersTo(m)
    <3>1. /\ mailbox[i].outcome \in Outcome
          /\ mailbox[i] = [cmd |-> "steered", id |-> mailbox[i].id, outcome |-> mailbox[i].outcome]
      BY <2>1, <2>2, CommandIs
    <3> QED
      BY <2>2, <3>1 DEF AnswersTo, AnswerOf
  <2> QED
    BY <2>2, AnswersTyped
<1> QED
  BY <1>2 DEF Has

LEMMA OwedStep ==
  ASSUME Typed, EveryOwed, HeldForOne, [Next]_vars
  PROVE  EveryOwed' /\ HeldForOne'
<1> DEFINE Fine == EveryOwed' /\ HeldForOne'
           Every == \A m \in Message : inflight'[m] # "no" => m \in awaited' \/ Has(mailbox', AnswersTo(m))
           Held == held' # "none" => turn'.phase = "running" /\ \E m \in Message : inflight'[m] # "no"
<1>0. Every /\ Held => Fine
  BY DEF EveryOwed, HeldForOne, Owed, InFlight
<1>1. /\ mailbox \in Seq(ACommand) /\ inflight \in [Message -> {"no", "yes", "back"}] /\ turn \in ATurn
      /\ \A m \in Message : inflight[m] # "no" => m \in awaited \/ Has(mailbox, AnswersTo(m))
      /\ held # "none" => turn.phase = "running" /\ \E m \in Message : inflight[m] # "no"
  BY DEF Typed, TypedActor, EveryOwed, HeldForOne, Owed, InFlight
<1>2. ASSUME UNCHANGED <<inflight, awaited>>, mailbox' = mailbox \/ \E c \in ACommand : mailbox' = Append(mailbox, c)
      PROVE  Every
  BY <1>1, <1>2, MailGrows
<1>3. ASSUME UNCHANGED actorVars, awaited' = awaited, mailbox' = mailbox \/ \E c \in ACommand : mailbox' = Append(mailbox, c)
      PROVE  Fine
  BY <1>0, <1>1, <1>2, <1>3 DEF actorVars
<1>4. ASSUME NEW s \in Sender, PostReads(s) \/ PostSaves(s)
      PROVE  Fine
  BY <1>3, <1>4 DEF PostReads, PostSaves, agentVars
<1>5. ASSUME NEW s \in Sender, Send(s)
      PROVE  Fine
  <2>1. sending[s].n \in Message
    BY <1>5 DEF Send, Typed, TypedChat
  <2>2. UserCmd(sending[s].n) \in ACommand
    BY <2>1, PostOf
  <2> QED
    BY <1>3, <1>5, <2>2 DEF Send, Tell, UserCmd, agentVars
<1>6. ASSUME NEW kind \in Other, OtherArrives(kind)
      PROVE  Fine
  <2> DEFINE item == [kind |-> kind, id |-> IF kind = "request" THEN max_turn + 1 ELSE 0]
  <2>1. item \in AnItem
    <3>1. max_turn + 1 \in Nat
      BY MaxTurn DEF Typed, TypedChat
    <3> QED
      BY <3>1, ConversationAssumption DEF AnItem
  <2>2. [cmd |-> "queue", item |-> item] \in ACommand
    BY <2>1 DEF ACommand
  <2>3. mailbox' = Append(mailbox, [cmd |-> "queue", item |-> item]) /\ UNCHANGED <<actorVars, awaited>>
    BY <1>6 DEF OtherArrives, Tell, agentVars
  <2> QED
    BY <1>3, <2>2, <2>3
<1>7. ASSUME NEW m \in Message, Touch("steer", m) \/ Touch("unqueue", m)
      PROVE  Fine
  BY <1>3, <1>7, NotPost DEF Touch, Tell, agentVars
<1>8. CASE Stop
  BY <1>3, <1>8, NotPost DEF Stop, Tell, agentVars
<1>9. CASE HandleCommand
  <2> DEFINE c == Head(mailbox)
  <2>1. /\ mailbox # <<>> /\ mailbox' = Tail(mailbox)
        /\ \/ c.cmd = "queue" /\ OnQueue(c.item)
           \/ c.cmd = "steer" /\ OnSteer(c.id)
           \/ c.cmd = "unqueue" /\ OnUnqueue(c.id)
           \/ c.cmd = "steered" /\ OnSteered(c.id, c.outcome)
           \/ c.cmd = "stop" /\ OnStop
    BY <1>9 DEF HandleCommand
  <2>2. c \in ACommand
    BY <1>1, <2>1, TailHas
  <2>3. \A m \in Message : \A a \in AnswersTo(m) : a.cmd = "steered" /\ a.id = m
    BY AnswersTyped
  <2>4. \A m \in Message : c.cmd # "steered" \/ c.id # m => (Has(mailbox, AnswersTo(m)) => Has(mailbox', AnswersTo(m)))
    BY <1>1, <2>1, <2>3, MailGrows
  <2>5. c.cmd \in {"steer", "unqueue", "steered"} => c.id \in Message
    BY <2>2, CommandIs
  <2> HIDE DEF c
  <2>6. ASSUME UNCHANGED <<inflight, awaited, held>>, c.cmd # "steered", turn'.phase = turn.phase
        PROVE  Fine
    BY <1>0, <1>1, <2>4, <2>6
  <2>7. CASE c.cmd = "queue" /\ OnQueue(c.item)
    BY <2>6, <2>7 DEF OnQueue
  <2>8. CASE c.cmd = "stop" /\ OnStop
    <3>1. turn'.phase = turn.phase
      BY <1>1, <2>8 DEF OnStop, ATurn
    <3> QED
      BY <2>6, <2>8, <3>1 DEF OnStop
  <2>9. CASE c.cmd = "unqueue" /\ OnUnqueue(c.id)
    <3>1. c.id \in Message /\ UNCHANGED <<turn, held, awaited>>
      BY <2>5, <2>9 DEF OnUnqueue
    <3>2. inflight' = inflight \/ (inflight[c.id] # "no" /\ inflight' = [inflight EXCEPT ![c.id] = "back"])
      BY <2>9 DEF OnUnqueue, WithAgent, InFlight
    <3>3. \A m \in Message : inflight'[m] # "no" <=> inflight[m] # "no"
      BY <1>1, <3>1, <3>2
    <3> QED
      BY <1>0, <1>1, <2>4, <2>9, <3>1, <3>3
  <2>10. CASE c.cmd = "steer" /\ OnSteer(c.id)
    <3>1. c.id \in Message
      BY <2>5, <2>10
    <3>2. CASE UNCHANGED <<entry, actorVars, offered, awaited, steered>>
      BY <2>6, <2>10, <3>2 DEF actorVars
    <3>3. CASE /\ inflight' = [inflight EXCEPT ![c.id] = "yes"] /\ awaited' = awaited \cup {c.id}
               /\ UNCHANGED <<entry, queue, turn, held, marked>>
      <4>1. \A m \in Message : m # c.id => inflight'[m] = inflight[m]
        BY <1>1, <3>3
      <4>2. inflight'[c.id] # "no"
        BY <1>1, <3>1, <3>3
      <4> QED
        BY <1>0, <1>1, <2>4, <2>10, <3>1, <3>3, <4>1, <4>2
    <3>4. CASE turn' = [turn EXCEPT !.stop = @ \/ Own] /\ UNCHANGED <<inflight, held, awaited>>
      <4>1. turn'.phase = turn.phase
        BY <1>1, <3>4 DEF ATurn
      <4> QED
        BY <2>6, <2>10, <3>4, <4>1
    <3> QED
      BY <2>10, <3>2, <3>3, <3>4 DEF OnSteer
  <2>11. CASE c.cmd = "steered" /\ OnSteered(c.id, c.outcome)
    <3>1. c.id \in Message /\ inflight' = [inflight EXCEPT ![c.id] = "no"] /\ awaited' = awaited
      BY <2>5, <2>11 DEF OnSteered
    <3>2. \A m \in Message : inflight'[m] # "no" => m # c.id /\ inflight[m] # "no"
      BY <1>1, <3>1
    <3>3. Every
      BY <1>1, <2>4, <3>1, <3>2
    <3>4. Held
      <4>1. CASE LastAnswer(c.outcome)
        BY <2>11, <4>1 DEF OnSteered, EndTurn
      <4>2. CASE ~LastAnswer(c.outcome)
        <5>1. held' = held /\ (turn' = turn \/ turn' = [turn EXCEPT !.batch = Append(@, c.id)])
          BY <2>11, <4>2 DEF OnSteered
        <5>2. turn'.phase = turn.phase
          BY <1>1, <5>1 DEF ATurn
        <5> QED
          BY <1>1, <4>2, <5>1, <5>2 DEF LastAnswer
      <4> QED
        BY <4>1, <4>2
    <3> QED
      BY <1>0, <3>3, <3>4
  <2> QED
    BY <2>1, <2>7, <2>8, <2>9, <2>10, <2>11
<1>10. CASE StartUserTurn \/ StartOtherTurn \/ Prompted
  <2>1. turn.phase # "running" /\ UNCHANGED <<inflight, awaited, mailbox, held>>
    BY <1>10 DEF StartUserTurn, StartOtherTurn, Prompted, agentVars
  <2> QED
    BY <1>0, <1>1, <1>2, <2>1
<1>11. CASE StartFails
  BY <1>0, <1>1, <1>2, <1>11 DEF StartFails, EndTurn, agentVars
<1>12. CASE TakeDone
  <2>1. UNCHANGED <<inflight, awaited, mailbox>> /\ turn.phase = "running"
    BY <1>12 DEF TakeDone
  <2>2. CASE TurnEnded
    <3>1. turn' = turn
      BY <1>12, <2>2 DEF TakeDone
    <3> QED
      BY <1>0, <1>2, <2>1, <2>2, <3>1 DEF TurnEnded, InFlight
  <2>3. CASE ~TurnEnded
    BY <1>0, <1>2, <1>12, <2>1, <2>3 DEF TakeDone, EndTurn
  <2> QED
    BY <2>2, <2>3
<1>13. CASE AgentWrites
  BY <1>3, <1>13 DEF AgentWrites, agentVars
<1>14. CASE AgentEnds("ok") \/ AgentEnds("err") \/ AgentDies \/ KillAgent
  BY <1>3, <1>14 DEF AgentEnds, AgentDies, KillAgent, AgentFrame
<1>15. ASSUME NEW m \in Message, NEW o \in Outcome, Answer(m, o), AgentFrame
       PROVE  Fine
  <2>1. AnswerOf(m, o) \in ACommand /\ AnswerOf(m, o) \in AnswersTo(m)
    BY AnswersTyped
  <2>2. /\ awaited' = awaited \ {m}
        /\ IF m \in awaited THEN mailbox' = Append(mailbox, AnswerOf(m, o)) ELSE UNCHANGED mailbox
    BY <1>15 DEF Answer, Tell, AnswerOf
  <2>3. UNCHANGED <<inflight, held, turn>>
    BY <1>15 DEF AgentFrame, actorVars
  <2>4. Every
    BY <1>1, <2>1, <2>2, <2>3, MailGrows
  <2> QED
    BY <1>0, <1>1, <2>3, <2>4
<1>16. ASSUME NEW m \in Message, AgentTakes(m) \/ AgentRefuses(m, "next") \/ AgentRefuses(m, "failed") \/ SteerLost(m) \/ AnswerFails(m)
       PROVE  Fine
  BY <1>15, <1>16 DEF AgentTakes, AgentRefuses, SteerLost, AnswerFails, Outcome
<1>17. ASSUME NEW resume \in BOOLEAN, Restart(resume)
       PROVE  Fine
  BY <1>0, <1>17 DEF Restart
<1>18. CASE UNCHANGED vars
  BY <1>3, <1>18 DEF vars, actorVars
<1> QED
  BY <1>4, <1>5, <1>6, <1>7, <1>8, <1>9, <1>10, <1>11, <1>12, <1>13, <1>14, <1>16, <1>17, <1>18 DEF Next, AgentStep

\* A turn held open for a steer's answer (steer.rs, held_done) is always owed one.
THEOREM AnswerOwedAlways == Spec => []AnswerOwed
<1>1. Init => EveryOwed /\ HeldForOne
  BY DEF Init, EveryOwed, HeldForOne, InFlight
<1>2. Known /\ EveryOwed /\ HeldForOne /\ [Next]_vars => EveryOwed' /\ HeldForOne'
  BY OwedStep DEF Known
<1>3. Known /\ EveryOwed /\ HeldForOne => AnswerOwed
  BY OwedIs DEF Known, EveryOwed, HeldForOne, Owed, AnswerOwed
<1> QED
  BY <1>1, <1>2, <1>3, KnownAlways, PTL DEF Spec
=============================================================================
