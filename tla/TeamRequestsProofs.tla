------------------------- MODULE TeamRequestsProofs -------------------------
(***************************************************************************)
(* Proofs about TeamRequests, for any bots, limits and bounds.             *)
(*                                                                         *)
(* Slots are exact because only pending requests end, and each of them     *)
(* once: what an actor drops is in its line or is its turn's (Held), a     *)
(* line holds a request once (Lines), and what is in it waits.  One lemma  *)
(* per part of the invariant, with one case per action.                    *)
(***************************************************************************)
EXTENDS TeamRequests, FiniteSetTheorems, SequenceTheorems, WellFoundedInduction, TLAPS

-----------------------------------------------------------------------------
(* Highest: a finite set of natural numbers has a highest member. *)

LEMMA LeastExists ==
  ASSUME NEW T, T \subseteq Nat, T # {}
  PROVE  \E x \in T : \A y \in T : x <= y
<1>1. PICK x \in T : \A y \in T : ~(<<y, x>> \in OpToRel(<, Nat))
  BY NatLessThanWellFounded, WFMin
<1>2. \A y \in T : ~(y < x)
  BY <1>1 DEF OpToRel
<1> QED
  BY <1>2

LEMMA HighestIs ==
  ASSUME NEW S \in SUBSET Nat, IsFiniteSet(S), S # {}
  PROVE  Highest(S) \in S /\ \A k \in S : k <= Highest(S)
<1> DEFINE Has(A) == \E n \in A : \A k \in A : k <= n
           T == {n \in Nat : \E A \in SUBSET Nat : IsFiniteSet(A) /\ A # {} /\ Cardinality(A) = n /\ ~Has(A)}
<1>1. T = {}
  <2> SUFFICES ASSUME T # {} PROVE FALSE
    OBVIOUS
  <2>1. PICK n \in T : \A m \in T : n <= m
    BY LeastExists
  <2>2. PICK A \in SUBSET Nat : IsFiniteSet(A) /\ A # {} /\ Cardinality(A) = n /\ ~Has(A)
    BY <2>1
  <2>3. PICK a \in A : TRUE
    BY <2>2
  <2> DEFINE B == A \ {a}
  <2>4. IsFiniteSet(B) /\ Cardinality(B) = n - 1 /\ Cardinality(B) \in Nat /\ B \in SUBSET Nat
    BY <2>2, <2>3, FS_RemoveElement, FS_CardinalityType
  <2>5. CASE B = {}
    <3>1. A = {a}
      BY <2>3, <2>5
    <3> QED
      BY <2>2, <3>1
  <2>6. CASE B # {}
    <3>1. Cardinality(B) \notin T
      <4>1. n \in Nat
        BY <2>1
      <4> HIDE DEF T
      <4>2. n - 1 \notin T
        BY <2>1, <4>1
      <4> QED
        BY <2>4, <4>2
    <3>2. PICK n1 \in B : \A k \in B : k <= n1
      BY <2>4, <2>6, <3>1
    <3>3. a \in Nat /\ n1 \in Nat /\ A = B \cup {a}
      BY <2>2, <2>3, <3>2
    <3>4. CASE a <= n1
      BY <2>2, <3>2, <3>3, <3>4
    <3>5. CASE n1 <= a
      <4>1. \A k \in A : k <= a
        BY <2>4, <3>2, <3>3, <3>5
      <4> QED
        BY <2>2, <2>3, <4>1
    <3> QED
      BY <3>3, <3>4, <3>5
  <2> QED
    BY <2>5, <2>6
<1>2. Has(S)
  <2>1. Cardinality(S) \in Nat
    BY FS_CardinalityType
  <2> QED
    BY <1>1, <2>1
<1> QED
  BY <1>2 DEF Highest

-----------------------------------------------------------------------------
(* The slots. *)

OfSender(S, b) == {r \in S : req[r].source = b}

LEMMA Finite ==
  ASSUME NEW S \in SUBSET Request
  PROVE  IsFiniteSet(S) /\ Cardinality(S) \in Nat
<1>1. IsFiniteSet(Request)
  BY TeamAssumption, FS_Interval DEF Request
<1> QED
  BY <1>1, FS_Subset, FS_CardinalityType

\* Requests that end give their slots back, one each.
LEMMA SlotsReturn ==
  ASSUME TypeOK, SlotsExact, WithinLimits, NEW S \in SUBSET LiveRequests, Released(S),
         LiveRequests' = LiveRequests \ S, req' = req
  PROVE  SlotsExact' /\ WithinLimits' /\ messages' \in Nat /\ messages_by_sender' \in [Bot -> Nat]
<1>1. LiveRequests \in SUBSET Request /\ S \in SUBSET Request
  BY DEF LiveRequests
<1>2. /\ Cardinality(LiveRequests \ S) = Cardinality(LiveRequests) - Cardinality(S)
      /\ Cardinality(LiveRequests \ S) \in Nat /\ Cardinality(LiveRequests) \in Nat /\ Cardinality(S) \in Nat
  <2>1. LiveRequests \cap S = S
    OBVIOUS
  <2> QED
    BY <1>1, <2>1, Finite, FS_Difference
<1>3. ASSUME NEW b \in Bot
      PROVE  /\ Cardinality(OfSender(LiveRequests \ S, b))
                  = Cardinality(OfSender(LiveRequests, b)) - Cardinality(OfSender(S, b))
             /\ Cardinality(OfSender(LiveRequests \ S, b)) \in Nat
             /\ Cardinality(OfSender(LiveRequests, b)) \in Nat /\ Cardinality(OfSender(S, b)) \in Nat
  <2>1. /\ OfSender(LiveRequests, b) \cap OfSender(S, b) = OfSender(S, b)
        /\ OfSender(LiveRequests \ S, b) = OfSender(LiveRequests, b) \ OfSender(S, b)
    BY DEF OfSender
  <2>2. OfSender(LiveRequests, b) \in SUBSET Request /\ OfSender(S, b) \in SUBSET Request
    BY <1>1 DEF OfSender
  <2>3. /\ IsFiniteSet(OfSender(LiveRequests, b))
        /\ Cardinality(OfSender(LiveRequests, b)) \in Nat /\ Cardinality(OfSender(S, b)) \in Nat
    BY <2>2, Finite
  <2>4. /\ IsFiniteSet(OfSender(LiveRequests, b) \ OfSender(S, b))
        /\ Cardinality(OfSender(LiveRequests, b) \ OfSender(S, b))
             = Cardinality(OfSender(LiveRequests, b)) - Cardinality(OfSender(S, b))
    <3>1. /\ IsFiniteSet(OfSender(LiveRequests, b) \ OfSender(S, b))
          /\ Cardinality(OfSender(LiveRequests, b) \ OfSender(S, b))
               = Cardinality(OfSender(LiveRequests, b)) - Cardinality(OfSender(LiveRequests, b) \cap OfSender(S, b))
      BY <2>3, FS_Difference, Zenon
    <3> QED
      BY <2>1, <3>1, Zenon
  <2>5. Cardinality(OfSender(LiveRequests, b) \ OfSender(S, b)) \in Nat
    BY <2>4, FS_CardinalityType
  <2> QED
    BY <2>1, <2>3, <2>4, <2>5
<1>4. /\ messages = Cardinality(LiveRequests) /\ Cardinality(LiveRequests) <= MAX_PENDING_MESSAGES
      /\ \A b \in Bot : /\ messages_by_sender[b] = Cardinality(OfSender(LiveRequests, b))
                        /\ Cardinality(OfSender(LiveRequests, b)) <= MAX_PENDING_MESSAGES_PER_SENDER
  BY DEF SlotsExact, WithinLimits, OfSender
<1>5. /\ messages' = messages - Cardinality(S)
      /\ messages_by_sender' = [b \in Bot |-> messages_by_sender[b] - Cardinality(OfSender(S, b))]
  BY DEF Released, OfSender
<1>6. /\ messages' = Cardinality(LiveRequests \ S)
      /\ \A b \in Bot : messages_by_sender'[b] = Cardinality(OfSender(LiveRequests \ S, b))
  BY <1>2, <1>3, <1>4, <1>5
<1>7. \A b \in Bot : {r \in LiveRequests' : req'[r].source = b} = OfSender(LiveRequests \ S, b)
  BY DEF OfSender
<1>8. SlotsExact'
  BY <1>6, <1>7 DEF SlotsExact
<1>9. /\ Cardinality(LiveRequests \ S) <= MAX_PENDING_MESSAGES
      /\ \A b \in Bot : Cardinality(OfSender(LiveRequests \ S, b)) <= MAX_PENDING_MESSAGES_PER_SENDER
  <2>1. MAX_PENDING_MESSAGES \in Nat /\ MAX_PENDING_MESSAGES_PER_SENDER \in Nat
    BY TeamAssumption
  <2>2. Cardinality(LiveRequests \ S) <= MAX_PENDING_MESSAGES
    BY <1>2, <1>4, <2>1
  <2>3. ASSUME NEW b \in Bot
        PROVE  Cardinality(OfSender(LiveRequests \ S, b)) <= MAX_PENDING_MESSAGES_PER_SENDER
    BY <1>3, <1>4, <2>1
  <2> QED
    BY <2>2, <2>3
<1>10. WithinLimits'
  BY <1>7, <1>9 DEF WithinLimits
<1>11. messages_by_sender' \in [Bot -> Nat]
  BY <1>3, <1>5, <1>6
<1> QED
  BY <1>2, <1>6, <1>8, <1>10, <1>11

LEMMA SlotsSame ==
  ASSUME SlotsExact, WithinLimits, LiveRequests' = LiveRequests, req' = req, UNCHANGED slots
  PROVE  SlotsExact' /\ WithinLimits'
  BY DEF SlotsExact, WithinLimits, slots

\* A request that is admitted takes one.
LEMMA SlotTaken ==
  ASSUME TypeOK, SlotsExact, WithinLimits, NEW b \in Bot, NEW r \in Request, r \notin LiveRequests, Room(b),
         messages' = messages + 1,
         messages_by_sender' = [messages_by_sender EXCEPT ![b] = @ + 1],
         LiveRequests' = LiveRequests \cup {r},
         \A k \in Request : k # r => req'[k].source = req[k].source,
         req'[r].source = b
  PROVE  SlotsExact' /\ WithinLimits' /\ messages' \in Nat /\ messages_by_sender' \in [Bot -> Nat]
<1> DEFINE New(c) == {k \in LiveRequests \cup {r} : req'[k].source = c}
<1>1. LiveRequests \in SUBSET Request
  BY DEF LiveRequests
<1>2. /\ Cardinality(LiveRequests \cup {r}) = Cardinality(LiveRequests) + 1
      /\ Cardinality(LiveRequests) \in Nat
  BY <1>1, Finite, FS_AddElement
<1>3. ASSUME NEW c \in Bot
      PROVE  /\ Cardinality(New(c)) = Cardinality(OfSender(LiveRequests, c)) + (IF c = b THEN 1 ELSE 0)
             /\ Cardinality(OfSender(LiveRequests, c)) \in Nat
  <2>1. OfSender(LiveRequests, c) \in SUBSET Request /\ r \notin OfSender(LiveRequests, c)
    BY <1>1 DEF OfSender
  <2>2. CASE c = b
    <3>1. New(c) = OfSender(LiveRequests, c) \cup {r}
      BY <1>1, <2>2 DEF OfSender
    <3> QED
      BY <2>1, <2>2, <3>1, Finite, FS_AddElement
  <2>3. CASE c # b
    <3>1. New(c) = OfSender(LiveRequests, c)
      BY <1>1, <2>3 DEF OfSender
    <3>2. Cardinality(OfSender(LiveRequests, c)) \in Nat
      BY <2>1, Finite
    <3> QED
      <4>1. Cardinality(New(c)) = Cardinality(OfSender(LiveRequests, c))
        BY <3>1
      <4> HIDE DEF New
      <4> QED
        BY <2>3, <3>2, <4>1
  <2> QED
    BY <2>2, <2>3
<1>4. /\ messages = Cardinality(LiveRequests) /\ messages < MAX_PENDING_MESSAGES
      /\ messages_by_sender[b] < MAX_PENDING_MESSAGES_PER_SENDER
      /\ \A c \in Bot : /\ messages_by_sender[c] = Cardinality(OfSender(LiveRequests, c))
                        /\ Cardinality(OfSender(LiveRequests, c)) <= MAX_PENDING_MESSAGES_PER_SENDER
  BY DEF SlotsExact, WithinLimits, OfSender, Room
<1>5. messages_by_sender' \in [Bot -> Nat]
  BY <1>3, <1>4 DEF TypeOK
<1>6. \A c \in Bot : messages_by_sender'[c] = messages_by_sender[c] + (IF c = b THEN 1 ELSE 0)
  BY DEF TypeOK
<1>7. \A c \in Bot : messages_by_sender'[c] = Cardinality(New(c))
  BY <1>3, <1>4, <1>6
<1>8. \A c \in Bot : Cardinality(New(c)) <= MAX_PENDING_MESSAGES_PER_SENDER
  BY <1>3, <1>4, TeamAssumption
<1>9. \A c \in Bot : {k \in LiveRequests' : req'[k].source = c} = New(c)
  OBVIOUS
<1> HIDE DEF New
<1>10. SlotsExact'
  BY <1>2, <1>4, <1>7, <1>9 DEF SlotsExact
<1>11. Cardinality(LiveRequests') <= MAX_PENDING_MESSAGES
  BY <1>2, <1>4, TeamAssumption
<1>12. WithinLimits'
  BY <1>8, <1>9, <1>11 DEF WithinLimits
<1> QED
  BY <1>2, <1>4, <1>5, <1>10, <1>12

-----------------------------------------------------------------------------
(***************************************************************************)
(* The inductive invariant.  What is in a bot's line, its queue and then   *)
(* its mailbox: requests to it that wait, and replies to requests of its   *)
(* own that are over, each of them once.                                   *)
(***************************************************************************)
Line(b) == queue[b] \o mailbox[b]

Cancelled(r) == notice[r].source = "cancelled" \/ notice[r].target = "cancelled"

ItemOK(x, b) ==
  /\ x.cmd = "request" => stage[x.id] = "waiting" /\ req[x.id].target = b
  /\ x.cmd = "reply" => stage[x.id] = "over" /\ req[x.id].source = b /\ replied[x.id] = 0 /\ ~Cancelled(x.id)

LineOK(b) ==
  /\ \A i \in 1..Len(Line(b)) : ItemOK(Line(b)[i], b)
  /\ \A i, j \in 1..Len(Line(b)) :
       i # j /\ Line(b)[i].cmd = Line(b)[j].cmd /\ Line(b)[i].cmd \in {"request", "reply"} =>
         Line(b)[i].id # Line(b)[j].id
Lines == \A b \in Bot : LineOK(b)

\* A turn that has a request runs it.
TurnOK(b) ==
  /\ turn[b].kind = "request" <=> turn[b].id # 0
  /\ turn[b].id # 0 => stage[turn[b].id] = "running" /\ req[turn[b].id].target = b
InTurn == \A b \in Bot : TurnOK(b)

\* Until a request is over, its notices are open and it was not replied to.
OutcomeOK(r) ==
  /\ stage[r] = "none" => notice[r].source = "none" /\ notice[r].target = "none"
  /\ stage[r] # "over" => /\ notice[r].source \in {"none", "queued", "sent"}
                         /\ notice[r].target \in {"none", "queued", "sent"}
                         /\ replied[r] = 0
  /\ replied[r] = 0 \/ (replied[r] = 1 /\ ~Cancelled(r))
Outcome == \A r \in Request : OutcomeOK(r)

IInv == TypeOK /\ SlotsExact /\ WithinLimits /\ Lines /\ InTurn /\ Outcome

-----------------------------------------------------------------------------
(* Lines and batches. *)

LEMMA ItemIs ==
  ASSUME NEW x \in Command
  PROVE  /\ x.id \in {0} \cup Request
         /\ x.cmd \in {"user", "request", "reply", "stop", "shutdown"}
         /\ x.cmd \in {"user", "request", "reply"} <=> x \in Item
         /\ x.cmd \in {"request", "reply"} => x.id \in Request
BY DEF Command, Item

LEMMA Positions ==
  ASSUME NEW q \in Nat, NEW m \in Nat
  PROVE  /\ \A i \in 1..q : i \in 1..(q + m) /\ i <= q
         /\ \A i \in 1..m : q + i \in 1..(q + m) /\ ~(q + i <= q) /\ (q + i) - q = i
OBVIOUS

LEMMA LineShape ==
  ASSUME TypeOK, NEW b \in Bot
  PROVE  /\ queue[b] \in Seq(Item) /\ mailbox[b] \in Seq(Command) /\ Line(b) \in Seq(Command)
         /\ Len(Line(b)) = Len(queue[b]) + Len(mailbox[b])
         /\ \A i \in 1..Len(queue[b]) : Line(b)[i] = queue[b][i]
         /\ \A i \in 1..Len(mailbox[b]) : Line(b)[Len(queue[b]) + i] = mailbox[b][i]
<1>1. queue[b] \in Seq(Item) /\ mailbox[b] \in Seq(Command)
  BY DEF TypeOK
<1>2. queue[b] \in Seq(Command)
  BY <1>1, SeqMonotonic DEF Command
<1>3. Len(queue[b]) \in Nat /\ Len(mailbox[b]) \in Nat
  BY <1>1, LenProperties
<1>4. /\ Line(b) \in Seq(Command)
      /\ Len(Line(b)) = Len(queue[b]) + Len(mailbox[b])
      /\ \A i \in 1..(Len(queue[b]) + Len(mailbox[b])) :
           Line(b)[i] = IF i <= Len(queue[b]) THEN queue[b][i] ELSE mailbox[b][i - Len(queue[b])]
  BY <1>1, <1>2, ConcatProperties, Zenon DEF Line
<1>5. /\ \A i \in 1..Len(queue[b]) : i \in 1..(Len(queue[b]) + Len(mailbox[b])) /\ i <= Len(queue[b])
      /\ \A i \in 1..Len(mailbox[b]) :
           /\ Len(queue[b]) + i \in 1..(Len(queue[b]) + Len(mailbox[b]))
           /\ ~(Len(queue[b]) + i <= Len(queue[b]))
           /\ (Len(queue[b]) + i) - Len(queue[b]) = i
  BY <1>3, Positions, Zenon
<1>6. \A i \in 1..Len(queue[b]) : Line(b)[i] = queue[b][i]
  BY <1>4, <1>5, Zenon
<1>7. \A i \in 1..Len(mailbox[b]) : Line(b)[Len(queue[b]) + i] = mailbox[b][i]
  BY <1>4, <1>5, Zenon
<1> QED
  BY <1>1, <1>4, <1>6, <1>7, Zenon

LEMMA BatchIs ==
  ASSUME TypeOK, NEW b \in Bot, queue[b] # <<>>
  PROVE  /\ Batch(b) \in 1..Len(queue[b])
         /\ \A i \in 1..Batch(b) : queue[b][i].cmd = Head(queue[b]).cmd
<1>1. queue[b] \in Seq(Item) /\ Len(queue[b]) \in Nat \ {0} /\ Head(queue[b]) = queue[b][1]
  <2>1. queue[b] \in Seq(Item)
    BY LineShape, Zenon
  <2>2. Len(queue[b]) \in Nat \ {0}
    BY <2>1, EmptySeq
  <2> QED
    BY <2>1, <2>2
<1>2. CASE Head(queue[b]).cmd = "request"
  BY <1>1, <1>2 DEF Batch
<1>3. CASE Head(queue[b]).cmd # "request"
  <2> DEFINE Ends(k) == k = Len(queue[b]) \/ queue[b][k + 1].cmd # Head(queue[b]).cmd
             T == {k \in 1..Len(queue[b]) : Ends(k)}
  <2>1. T \subseteq Nat /\ T # {}
    BY <1>1
  <2>2. PICK k \in T : \A l \in T : k <= l
    BY <2>1, LeastExists
  <2> DEFINE D == {i \in 1..k : queue[b][i].cmd # Head(queue[b]).cmd}
  <2>3. D = {}
    <3> SUFFICES ASSUME D # {} PROVE FALSE
      OBVIOUS
    <3>1. PICK i \in D : \A j \in D : i <= j
      <4>1. D \subseteq Nat
        BY <2>2
      <4> QED
        BY <4>1, LeastExists
    <3>2. i \in 1..k /\ k \in 1..Len(queue[b]) /\ queue[b][i].cmd # Head(queue[b]).cmd /\ i # 1
      BY <1>1, <2>2, <3>1
    <3>3. i - 1 \in 1..Len(queue[b]) /\ (i - 1) + 1 = i /\ i - 1 < k
      BY <1>1, <3>2
    <3>4. i - 1 \in T
      BY <3>2, <3>3
    <3>5. k <= i - 1
      BY <2>2, <3>4
    <3> QED
      BY <3>2, <3>3, <3>5
  <2>4. /\ k \in 1..Len(queue[b]) /\ \A i \in 1..k : queue[b][i].cmd = Head(queue[b]).cmd
        /\ Ends(k)
    BY <2>2, <2>3
  <2> QED
    BY <1>3, <2>4 DEF Batch
<1> QED
  BY <1>2, <1>3

\* What keeps an item of a line in order.
Undisturbed(x) ==
  /\ x.cmd = "request" => stage'[x.id] = stage[x.id] /\ req'[x.id] = req[x.id]
  /\ x.cmd = "reply" => /\ stage'[x.id] = stage[x.id] /\ req'[x.id] = req[x.id]
                        /\ replied'[x.id] = replied[x.id] /\ notice'[x.id] = notice[x.id]

\* The first items of a line are taken away, maybe none.
LEMMA LineDrops ==
  ASSUME NEW b \in Bot, LineOK(b), NEW n \in 0..Len(Line(b)), Line(b) \in Seq(Command),
         Len(Line(b)') = Len(Line(b)) - n,
         \A i \in 1..Len(Line(b)') : Line(b)'[i] = Line(b)[i + n],
         \A i \in 1..Len(Line(b)) : i > n => Undisturbed(Line(b)[i])
  PROVE  LineOK(b)'
<1>1. \A i \in 1..Len(Line(b)') : i + n \in 1..Len(Line(b)) /\ i + n > n
  <2>1. Len(Line(b)) \in Nat
    BY LenProperties
  <2> QED
    BY <2>1
<1>2. \A i \in 1..Len(Line(b)) : ItemOK(Line(b)[i], b)
  BY DEF LineOK
<1>3. ASSUME NEW i \in 1..Len(Line(b)')
      PROVE  ItemOK(Line(b)[i], b)'
  <2>1. ItemOK(Line(b)[i + n], b) /\ Undisturbed(Line(b)[i + n]) /\ Line(b)'[i] = Line(b)[i + n]
    BY <1>1, <1>2
  <2> QED
    BY <2>1 DEF ItemOK, Undisturbed, Cancelled
<1>4. ASSUME NEW i \in 1..Len(Line(b)'), NEW j \in 1..Len(Line(b)'),
             i # j, Line(b)'[i].cmd = Line(b)'[j].cmd, Line(b)'[i].cmd \in {"request", "reply"}
      PROVE  Line(b)'[i].id # Line(b)'[j].id
  <2>1. i + n # j + n /\ Line(b)'[i] = Line(b)[i + n] /\ Line(b)'[j] = Line(b)[j + n]
    BY <1>4
  <2> HIDE DEF Line
  <2> QED
    BY <1>1, <1>4, <2>1 DEF LineOK
<1> QED
  BY <1>3, <1>4 DEF LineOK

\* A line that stays.
LEMMA LineStays ==
  ASSUME TypeOK, NEW b \in Bot, LineOK(b), Line(b)' = Line(b),
         \A i \in 1..Len(Line(b)) : Undisturbed(Line(b)[i])
  PROVE  LineOK(b)'
<1>1. Line(b) \in Seq(Command) /\ Len(Line(b)) \in Nat
  <2>1. Line(b) \in Seq(Command)
    BY LineShape, Zenon
  <2> QED
    BY <2>1, LenProperties
<1>2. 0 \in 0..Len(Line(b)) /\ Len(Line(b)') = Len(Line(b)) - 0
      /\ \A i \in 1..Len(Line(b)') : Line(b)'[i] = Line(b)[i + 0]
  BY <1>1
<1> QED
  BY <1>1, <1>2, LineDrops

-----------------------------------------------------------------------------
(* What a bot's line and turn hold. *)

LEMMA LineItems ==
  ASSUME IInv, NEW b \in Bot
  PROVE  /\ \A i \in 1..Len(queue[b]) : queue[b][i] \in Item /\ ItemOK(queue[b][i], b)
         /\ \A i \in 1..Len(mailbox[b]) : mailbox[b][i] \in Command /\ ItemOK(mailbox[b][i], b)
<1>1. TypeOK /\ LineOK(b)
  BY DEF IInv, Lines
<1>2. /\ queue[b] \in Seq(Item) /\ mailbox[b] \in Seq(Command)
      /\ Len(Line(b)) = Len(queue[b]) + Len(mailbox[b])
      /\ \A i \in 1..Len(queue[b]) : Line(b)[i] = queue[b][i]
      /\ \A i \in 1..Len(mailbox[b]) : Line(b)[Len(queue[b]) + i] = mailbox[b][i]
  BY <1>1, LineShape, Zenon
<1>3. Len(queue[b]) \in Nat /\ Len(mailbox[b]) \in Nat
  BY <1>2, LenProperties
<1>4. /\ \A i \in 1..Len(queue[b]) : i \in 1..Len(Line(b))
      /\ \A i \in 1..Len(mailbox[b]) : Len(queue[b]) + i \in 1..Len(Line(b))
  BY <1>2, <1>3, Positions, Zenon
<1>5. \A i \in 1..Len(Line(b)) : ItemOK(Line(b)[i], b)
  BY <1>1 DEF LineOK
<1>6. /\ \A i \in 1..Len(queue[b]) : queue[b][i] \in Item
      /\ \A i \in 1..Len(mailbox[b]) : mailbox[b][i] \in Command
  BY <1>2, ElementOfSeq
<1> QED
  BY <1>2, <1>4, <1>5, <1>6, Zenon

LEMMA FirstItem ==
  ASSUME IInv, NEW b \in Bot, queue[b] # <<>>
  PROVE  /\ Len(queue[b]) \in Nat \ {0} /\ 1 \in 1..Len(queue[b]) /\ Head(queue[b]) = queue[b][1]
         /\ Head(queue[b]) \in Item /\ ItemOK(Head(queue[b]), b)
         /\ Head(queue[b]).cmd \in {"request", "reply"} => Head(queue[b]).id \in Request
<1>1. queue[b] \in Seq(Item)
  BY DEF IInv, TypeOK
<1>2. Len(queue[b]) \in Nat \ {0} /\ 1 \in 1..Len(queue[b]) /\ Head(queue[b]) = queue[b][1]
  BY <1>1, EmptySeq
<1>3. Head(queue[b]) \in Item /\ ItemOK(Head(queue[b]), b)
  BY <1>2, LineItems, Zenon
<1> QED
  BY <1>2, <1>3, ItemIs DEF Command

\* The requests that wait for b, and those it works on.
Waiting(b) == {r \in Request : stage[r] = "waiting" /\ req[r].target = b}
Running(b) == {r \in Request : stage[r] = "running" /\ req[r].target = b}

LEMMA Held ==
  ASSUME IInv, NEW b \in Bot
  PROVE  /\ RequestsIn(queue[b]) \subseteq Waiting(b)
         /\ mailbox[b] # <<>> => RequestsIn(Tail(mailbox[b])) \subseteq Waiting(b)
         /\ {turn[b].id} \ {0} \subseteq Running(b)
<1>1. RequestsIn(queue[b]) \subseteq Waiting(b)
  BY LineItems, ItemIs DEF RequestsIn, Waiting, ItemOK, Command
<1>2. ASSUME mailbox[b] # <<>> PROVE RequestsIn(Tail(mailbox[b])) \subseteq Waiting(b)
  <2>1. mailbox[b] \in Seq(Command)
    BY DEF IInv, TypeOK
  <2>2. /\ Len(Tail(mailbox[b])) = Len(mailbox[b]) - 1 /\ Len(mailbox[b]) \in Nat
        /\ \A i \in 1..Len(Tail(mailbox[b])) : Tail(mailbox[b])[i] = mailbox[b][i + 1]
    BY <1>2, <2>1, HeadTailProperties, LenProperties
  <2>3. ASSUME NEW i \in 1..Len(Tail(mailbox[b])) PROVE i + 1 \in 1..Len(mailbox[b])
    BY <2>2
  <2>4. \A i \in 1..Len(Tail(mailbox[b])) :
          Tail(mailbox[b])[i] \in Command /\ ItemOK(Tail(mailbox[b])[i], b)
    BY <2>2, <2>3, LineItems
  <2> QED
    BY <2>4, ItemIs DEF RequestsIn, Waiting, ItemOK
<1>3. {turn[b].id} \ {0} \subseteq Running(b)
  BY DEF IInv, TypeOK, Turn, InTurn, TurnOK, Running
<1> QED
  BY <1>1, <1>2, <1>3

LEMMA Gone ==
  ASSUME TypeOK, NEW S \in SUBSET LiveRequests, NEW status, Over(S, status)
  PROVE  LiveRequests' = LiveRequests \ S
BY DEF Over, LiveRequests, Live, TypeOK

\* Requests that end while the records stay.
LEMMA SlotsOver ==
  ASSUME IInv, NEW S \in SUBSET LiveRequests, NEW status, Over(S, status), req' = req
  PROVE  SlotsExact' /\ WithinLimits' /\ messages' \in Nat /\ messages_by_sender' \in [Bot -> Nat]
<1>1. TypeOK /\ SlotsExact /\ WithinLimits /\ Released(S)
  BY DEF IInv, Over
<1>2. LiveRequests' = LiveRequests \ S
  BY <1>1, Gone
<1> QED
  BY <1>1, <1>2, SlotsReturn

SlotsGood == SlotsExact' /\ WithinLimits' /\ messages' \in Nat /\ messages_by_sender' \in [Bot -> Nat]

LEMMA SlotsKeep ==
  ASSUME IInv, LiveRequests' = LiveRequests, req' = req, UNCHANGED slots
  PROVE  SlotsGood
BY SlotsSame DEF IInv, TypeOK, SlotsGood, slots

LEMMA SlotsStep ==
  ASSUME IInv, [Next]_vars
  PROVE  SlotsGood
<1> USE DEF SlotsGood
<1>0. TypeOK /\ SlotsExact /\ WithinLimits /\ stage \in [Request -> Stage]
  BY DEF IInv, TypeOK
<1>1. ASSUME NEW r \in Request, SaveNotice(r)
      PROVE  SlotsGood
  <2>1. LiveRequests' = LiveRequests /\ req' = req /\ UNCHANGED slots
    BY <1>0, <1>1 DEF SaveNotice, LiveRequests, Live
  <2> QED
    BY <2>1, SlotsKeep
<1>2. ASSUME NEW r \in Request, NoticeFails(r) \/ DeliverFails(r)
      PROVE  SlotsGood
  <2>1. {r} \in SUBSET LiveRequests /\ Over({r}, "cancelled") /\ req' = req
    BY <1>2 DEF NoticeFails, DeliverFails, LiveRequests, Live
  <2> QED
    BY <2>1, SlotsOver
<1>3. ASSUME NEW r \in Request, Deliver(r)
      PROVE  SlotsGood
  <2>1. LiveRequests' = LiveRequests /\ req' = req /\ UNCHANGED slots
    BY <1>0, <1>3 DEF Deliver, LiveRequests, Live
  <2> QED
    BY <2>1, SlotsKeep
<1>4. ASSUME NEW b \in Bot, NEW target \in Bot, NEW r \in Request, Reserve(b, target, r)
      PROVE  SlotsGood
  <2>1. /\ r \notin LiveRequests /\ LiveRequests' = LiveRequests \cup {r} /\ Room(b)
        /\ messages' = messages + 1
        /\ messages_by_sender' = [messages_by_sender EXCEPT ![b] = @ + 1]
    BY <1>0, <1>4 DEF Reserve, LiveRequests, Live
  <2>2. PICK z \in Record \cup {[source |-> b, target |-> target, hops |-> active[b].hops + 1]} :
          z = [source |-> b, target |-> target, hops |-> active[b].hops + 1]
    OBVIOUS
  <2>3. req' = [req EXCEPT ![r] = z] /\ z.source = b
    BY <1>4, <2>2 DEF Reserve
  <2>4. req'[r].source = b /\ \A k \in Request : k # r => req'[k].source = req[k].source
    BY <1>0, <2>3 DEF TypeOK
  <2> QED
    BY <1>0, <2>1, <2>4, SlotTaken
<1>5. ASSUME NEW b \in Bot, UserWrites(b) \/ UserStops(b) \/ DeleteBot(b) \/ Enqueue(b)
                            \/ StartUserTurn(b) \/ StartReplyTurn(b) \/ Prompted(b)
      PROVE  SlotsGood
  <2>1. stage' = stage /\ req' = req /\ UNCHANGED slots
    BY <1>5 DEF UserWrites, UserStops, DeleteBot, Enqueue, StartUserTurn, StartReplyTurn, Prompted, slots
  <2> QED
    BY <2>1, SlotsKeep DEF LiveRequests
<1>6. ASSUME NEW b \in Bot, StartRequestTurn(b)
      PROVE  SlotsGood
  <2> DEFINE r == Head(queue[b]).id
  <2>1. r \in Request /\ stage[r] = "waiting"
    <3>1. queue[b] # <<>> /\ Head(queue[b]).cmd = "request"
      BY <1>6 DEF StartRequestTurn
    <3> QED
      BY <3>1, FirstItem DEF ItemOK
  <2>2. stage' = [stage EXCEPT ![r] = "running"] /\ req' = req /\ UNCHANGED slots
    BY <1>6 DEF StartRequestTurn, slots
  <2> HIDE DEF r
  <2>3. LiveRequests' = LiveRequests
    BY <1>0, <2>1, <2>2 DEF LiveRequests, Live
  <2> QED
    BY <2>2, <2>3, SlotsKeep
<1>7. ASSUME NEW b \in Bot, HandleStop(b)
      PROVE  SlotsGood
  <2>1. RequestsIn(queue[b]) \in SUBSET LiveRequests
    BY Held DEF Waiting, LiveRequests, Live
  <2> QED
    BY <1>7, <2>1, SlotsOver DEF HandleStop
<1>8. ASSUME NEW b \in Bot, HandleShutdown(b)
      PROVE  SlotsGood
  <2>1. RequestsIn(queue[b]) \cup RequestsIn(Tail(mailbox[b])) \cup ({turn[b].id} \ {0}) \in SUBSET LiveRequests
    BY <1>8, Held DEF HandleShutdown, Take, Waiting, Running, LiveRequests, Live
  <2> QED
    BY <1>8, <2>1, SlotsOver DEF HandleShutdown
<1>9. ASSUME NEW b \in Bot, NEW status, EndOf(b, status)
      PROVE  SlotsGood
  <2>1. CASE turn[b].kind = "request"
    <3>1. {turn[b].id} \in SUBSET LiveRequests
      <4>1. turn[b].id # 0
        BY <2>1 DEF IInv, InTurn, TurnOK
      <4> QED
        BY <4>1, Held DEF Running, LiveRequests, Live
    <3> QED
      BY <1>9, <2>1, <3>1, SlotsOver DEF EndOf
  <2>2. CASE turn[b].kind # "request"
    BY <1>9, <2>2, SlotsKeep DEF EndOf, LiveRequests, slots
  <2> QED
    BY <2>1, <2>2
<1>10. ASSUME NEW resumed, Restart(resumed)
       PROVE  SlotsGood
  <2>1. LiveRequests' = {}
    BY <1>10 DEF Restart, LiveRequests, Live
  <2>2. \A b \in Bot : {r \in LiveRequests' : req'[r].source = b} = {}
    BY <2>1
  <2>3. Cardinality({}) = 0
    BY FS_EmptySet
  <2>4. messages' = 0 /\ messages_by_sender' = [b \in Bot |-> 0]
    BY <1>10 DEF Restart
  <2> QED
    BY <2>1, <2>2, <2>3, <2>4, TeamAssumption DEF SlotsExact, WithinLimits
<1>11. CASE UNCHANGED vars
  BY <1>11, SlotsKeep DEF vars, slots, LiveRequests
<1> QED
  BY <1>1, <1>2, <1>3, <1>4, <1>5, <1>6, <1>7, <1>8, <1>9, <1>10, <1>11
     DEF Next, ActorStep, StartFails, TurnEnds

-----------------------------------------------------------------------------
(* Turns. *)

LEMMA TurnKept ==
  ASSUME IInv, NEW b \in Bot, turn'[b].kind = turn[b].kind, turn'[b].id = turn[b].id,
         turn[b].id # 0 => stage'[turn[b].id] = stage[turn[b].id] /\ req'[turn[b].id] = req[turn[b].id]
  PROVE  TurnOK(b)'
BY DEF IInv, InTurn, TurnOK

\* Requests of one bot that end or start are not those another one works on.
LEMMA TurnElsewhere ==
  ASSUME IInv, NEW b \in Bot, NEW c \in Bot, c # b, turn'[c] = turn[c], req' = req,
         \A r \in Request : req[r].target # b => stage'[r] = stage[r]
  PROVE  TurnOK(c)'
<1>1. turn[c].id # 0 => turn[c].id \in Request /\ req[turn[c].id].target = c
  BY DEF IInv, TypeOK, Turn, InTurn, TurnOK
<1> QED
  BY <1>1, TurnKept

LEMMA NoRequest ==
  ASSUME NEW b \in Bot, turn'[b].id = 0, turn'[b].kind # "request"
  PROVE  TurnOK(b)'
BY DEF TurnOK

LEMMA TurnStep ==
  ASSUME IInv, [Next]_vars
  PROVE  InTurn'
<1> SUFFICES ASSUME NEW c \in Bot PROVE TurnOK(c)'
  BY DEF InTurn
<1>0. TypeOK /\ turn \in [Bot -> Turn] /\ stage \in [Request -> Stage] /\ req \in [Request -> Record]
  BY DEF IInv, TypeOK
<1>a. turn[c].id # 0 => turn[c].id \in Request /\ stage[turn[c].id] = "running"
  BY <1>0 DEF IInv, Turn, InTurn, TurnOK
<1>1. ASSUME NEW r \in Request, SaveNotice(r) \/ NoticeFails(r) \/ Deliver(r) \/ DeliverFails(r)
      PROVE  TurnOK(c)'
  BY <1>0, <1>a, <1>1, TurnKept DEF SaveNotice, NoticeFails, Deliver, DeliverFails, Over, actors
<1>2. ASSUME NEW b \in Bot, NEW target \in Bot, NEW r \in Request, Reserve(b, target, r)
      PROVE  TurnOK(c)'
  BY <1>0, <1>a, <1>2, TurnKept DEF Reserve, actors
<1>3. ASSUME NEW b \in Bot, UserWrites(b) \/ UserStops(b) \/ DeleteBot(b) \/ Enqueue(b)
      PROVE  TurnOK(c)'
  BY <1>3, TurnKept DEF UserWrites, UserStops, DeleteBot, Enqueue
<1>4. ASSUME NEW b \in Bot, HandleStop(b)
      PROVE  TurnOK(c)'
  <2>1. turn'[c].kind = turn[c].kind /\ turn'[c].id = turn[c].id
    BY <1>0, <1>4 DEF HandleStop, Turn
  <2>2. turn[c].id \notin RequestsIn(queue[b]) \/ turn[c].id = 0
    BY <1>a, Held DEF Waiting
  <2>3. turn[c].id # 0 => stage'[turn[c].id] = stage[turn[c].id] /\ req' = req
    BY <1>a, <1>4, <2>2 DEF HandleStop, Over
  <2> QED
    BY <2>1, <2>3, TurnKept
<1>5. ASSUME NEW b \in Bot, HandleShutdown(b)
      PROVE  TurnOK(c)'
  <2>1. CASE c = b
    <3>1. turn'[c] = Idle
      BY <1>0, <1>5, <2>1 DEF HandleShutdown
    <3> QED
      BY <3>1, NoRequest DEF Idle, Begun
  <2>2. CASE c # b
    <3>1. turn'[c] = turn[c] /\ req' = req
      BY <1>0, <1>5, <2>2 DEF HandleShutdown
    <3>2. \A r \in Request : req[r].target # b => stage'[r] = stage[r]
      BY <1>0, <1>5, Held DEF HandleShutdown, Take, Over, Waiting, Running
    <3> QED
      BY <2>2, <3>1, <3>2, TurnElsewhere
  <2> QED
    BY <2>1, <2>2
<1>6. ASSUME NEW b \in Bot, StartUserTurn(b) \/ StartReplyTurn(b)
      PROVE  TurnOK(c)'
  <2>1. CASE c = b
    <3>1. turn'[c].id = 0 /\ turn'[c].kind # "request"
      BY <1>0, <1>6, <2>1 DEF StartUserTurn, StartReplyTurn, Begun
    <3> QED
      BY <3>1, NoRequest
  <2>2. CASE c # b
    BY <1>0, <1>6, <2>2, TurnKept DEF StartUserTurn, StartReplyTurn
  <2> QED
    BY <2>1, <2>2
<1>7. ASSUME NEW b \in Bot, StartRequestTurn(b)
      PROVE  TurnOK(c)'
  <2> DEFINE r == Head(queue[b]).id
  <2>1. r \in Request /\ stage[r] = "waiting" /\ req[r].target = b
    BY <1>7, FirstItem DEF StartRequestTurn, ItemOK
  <2>2. /\ stage' = [stage EXCEPT ![r] = "running"] /\ req' = req
        /\ turn' = [turn EXCEPT ![b] = Begun("request", r, depth[r])]
    BY <1>7 DEF StartRequestTurn
  <2> HIDE DEF r
  <2>3. CASE c = b
    <3>1. turn'[c] = Begun("request", r, depth[r]) /\ stage'[r] = "running"
      BY <1>0, <2>1, <2>2, <2>3
    <3>2. turn'[c].kind = "request" /\ turn'[c].id = r /\ r # 0
      BY <2>1, <3>1 DEF Begun, Request
    <3> QED
      BY <2>1, <2>2, <2>3, <3>1, <3>2 DEF TurnOK
  <2>4. CASE c # b
    BY <1>0, <2>1, <2>2, <2>4, TurnElsewhere
  <2> QED
    BY <2>3, <2>4
<1>8. ASSUME NEW b \in Bot, Prompted(b)
      PROVE  TurnOK(c)'
  <2>1. turn'[c].kind = turn[c].kind /\ turn'[c].id = turn[c].id
    BY <1>0, <1>8 DEF Prompted, Turn
  <2> QED
    BY <1>8, <2>1, TurnKept DEF Prompted
<1>9. ASSUME NEW b \in Bot, NEW status, EndOf(b, status)
      PROVE  TurnOK(c)'
  <2>1. CASE c = b
    <3>1. turn'[c] = Idle
      BY <1>0, <1>9, <2>1 DEF EndOf
    <3> QED
      BY <3>1, NoRequest DEF Idle, Begun
  <2>2. CASE c # b
    <3>1. turn'[c] = turn[c] /\ req' = req
      BY <1>0, <1>9, <2>2 DEF EndOf
    <3>2. turn[b].kind = "request" => turn[b].id \in Running(b)
      BY <1>0, Held DEF IInv, InTurn, TurnOK
    <3>3. \A r \in Request : req[r].target # b => stage'[r] = stage[r]
      BY <1>0, <1>9, <3>2 DEF EndOf, Over, Running
    <3> QED
      BY <2>2, <3>1, <3>3, TurnElsewhere
  <2> QED
    BY <2>1, <2>2
<1>10. ASSUME NEW resumed, Restart(resumed)
       PROVE  TurnOK(c)'
  <2>1. turn'[c].id = 0 /\ turn'[c].kind # "request"
    BY <1>10 DEF Restart, Idle, Begun
  <2> QED
    BY <2>1, NoRequest
<1>11. CASE UNCHANGED vars
  BY <1>11, TurnKept DEF vars
<1> QED
  BY <1>1, <1>2, <1>3, <1>4, <1>5, <1>6, <1>7, <1>8, <1>9, <1>10, <1>11
     DEF Next, ActorStep, StartFails, TurnEnds

-----------------------------------------------------------------------------
(* How requests end. *)

\* An item of the batch is a reply of its own, once.
LEMMA RepliesOfBatch ==
  ASSUME IInv, NEW b \in Bot, StartReplyTurn(b), NEW r \in Request
  PROVE  /\ Cardinality({i \in 1..Batch(b) : queue[b][i].id = r}) \in Nat
         /\ \/ r \notin FirstIds(b) /\ replied'[r] = replied[r]
            \/ /\ r \in FirstIds(b) /\ stage[r] = "over" /\ req[r].source = b /\ ~Cancelled(r)
               /\ replied[r] = 0 /\ replied'[r] = 1
<1> DEFINE I == {i \in 1..Batch(b) : queue[b][i].id = r}
<1>1. /\ Batch(b) \in 1..Len(queue[b]) /\ Len(queue[b]) \in Nat
      /\ \A i \in 1..Batch(b) : queue[b][i].cmd = "reply" /\ ItemOK(queue[b][i], b)
  <2>1. TypeOK /\ queue[b] # <<>> /\ Head(queue[b]).cmd = "reply"
    BY DEF IInv, StartReplyTurn
  <2>2. /\ Batch(b) \in 1..Len(queue[b])
        /\ \A i \in 1..Batch(b) : queue[b][i].cmd = "reply"
    BY <2>1, BatchIs
  <2>3. Len(queue[b]) \in Nat
    BY <2>1, FirstItem
  <2>4. \A i \in 1..Batch(b) : i \in 1..Len(queue[b])
    BY <2>2, <2>3
  <2> QED
    BY <2>2, <2>3, <2>4, LineItems
<1>2. \A i, j \in I : i = j
  <2>1. /\ Len(Line(b)) = Len(queue[b]) + Len(mailbox[b]) /\ mailbox[b] \in Seq(Command)
        /\ \A i \in 1..Len(queue[b]) : Line(b)[i] = queue[b][i]
    BY LineShape, Zenon DEF IInv
  <2>2. Len(mailbox[b]) \in Nat
    BY <2>1, LenProperties
  <2>3. ASSUME NEW i \in 1..Batch(b) PROVE i \in 1..Len(queue[b]) /\ i \in 1..Len(Line(b))
    <3>1. i \in 1..Len(queue[b])
      BY <1>1
    <3> QED
      BY <1>1, <2>1, <2>2, <3>1, Positions, Zenon
  <2>4. \A i \in I : Line(b)[i].cmd = "reply" /\ Line(b)[i].id = r
    BY <1>1, <2>1, <2>3
  <2> QED
    BY <2>3, <2>4 DEF IInv, Lines, LineOK
<1>3. replied'[r] = replied[r] + Cardinality(I) /\ replied[r] \in Nat
  BY DEF StartReplyTurn, IInv, TypeOK
<1>4. CASE r \in FirstIds(b)
  <2>1. PICK i \in 1..Batch(b) : queue[b][i].id = r
    BY <1>4 DEF FirstIds
  <2>2. I = {i}
    BY <1>2, <2>1
  <2>3. Cardinality(I) = 1
    BY <2>2, FS_Singleton
  <2>4. ItemOK(queue[b][i], b) /\ queue[b][i].cmd = "reply"
    BY <1>1
  <2>5. stage[r] = "over" /\ req[r].source = b /\ ~Cancelled(r) /\ replied[r] = 0
    BY <2>1, <2>4 DEF ItemOK
  <2> HIDE DEF I
  <2>6. replied'[r] = 1
    BY <1>3, <2>3, <2>5
  <2>7. Cardinality(I) \in Nat
    BY <2>3
  <2> QED
    BY <1>4, <2>5, <2>6, <2>7 DEF I
<1>5. CASE r \notin FirstIds(b)
  <2>1. I = {}
    BY <1>5 DEF FirstIds
  <2>2. Cardinality(I) = 0
    BY <2>1, FS_EmptySet
  <2> HIDE DEF I
  <2>3. replied'[r] = replied[r] /\ Cardinality(I) \in Nat
    BY <1>3, <2>2
  <2> QED
    BY <1>5, <2>3 DEF I
<1> QED
  BY <1>4, <1>5

LEMMA OutcomeOver ==
  ASSUME IInv, NEW S \in SUBSET LiveRequests, NEW status \in Notice, Over(S, status), replied' = replied
  PROVE  Outcome'
<1> SUFFICES ASSUME NEW r \in Request PROVE OutcomeOK(r)'
  BY DEF Outcome
<1>1. OutcomeOK(r) /\ stage'[r] = (IF r \in S THEN "over" ELSE stage[r])
      /\ notice'[r] = (IF r \in S THEN Ended(r, status) ELSE notice[r])
  BY DEF IInv, Outcome, Over
<1>2. CASE r \in S
  <2>1. stage[r] # "over"
    BY <1>2 DEF LiveRequests, Live
  <2> QED
    BY <1>1, <1>2, <2>1 DEF OutcomeOK, Cancelled
<1>3. CASE r \notin S
  BY <1>1, <1>3 DEF OutcomeOK, Cancelled
<1> QED
  BY <1>2, <1>3

\* A step that neither ends a request nor touches a notice.
LEMMA OutcomeKept ==
  ASSUME IInv, notice' = notice, replied' = replied,
         \A r \in Request : stage'[r] = "none" => stage[r] = "none",
         \A r \in Request : stage'[r] = "over" <=> stage[r] = "over"
  PROVE  Outcome'
BY DEF IInv, Outcome, OutcomeOK, Cancelled

LEMMA OutcomeStep ==
  ASSUME IInv, [Next]_vars
  PROVE  Outcome'
<1>0. /\ stage \in [Request -> Stage] /\ \A r \in Request : OutcomeOK(r)
      /\ notice \in [Request -> [{"source", "target"} -> Notice]]
  BY DEF IInv, TypeOK, Outcome
<1>1. ASSUME NEW r \in Request, SaveNotice(r)
      PROVE  Outcome'
  <2> SUFFICES ASSUME NEW k \in Request PROVE OutcomeOK(k)'
    BY DEF Outcome
  <2> USE <1>0
  <2>1. CASE stage[r] = "reserved"
    BY <1>1, <2>1 DEF SaveNotice, OutcomeOK, Cancelled
  <2>2. CASE stage[r] = "noticed"
    BY <1>1, <2>2 DEF SaveNotice, OutcomeOK, Cancelled
  <2> QED
    BY <1>1, <2>1, <2>2 DEF SaveNotice
<1>2. ASSUME NEW r \in Request, NoticeFails(r) \/ DeliverFails(r)
      PROVE  Outcome'
  <2>1. {r} \in SUBSET LiveRequests /\ Over({r}, "cancelled") /\ replied' = replied
    BY <1>2 DEF NoticeFails, DeliverFails, LiveRequests, Live
  <2> QED
    BY <2>1, OutcomeOver DEF Notice
<1>3. ASSUME NEW r \in Request, Deliver(r)
      PROVE  Outcome'
  BY <1>0, <1>3, OutcomeKept DEF Deliver
<1>4. ASSUME NEW b \in Bot, NEW target \in Bot, NEW r \in Request, Reserve(b, target, r)
      PROVE  Outcome'
  BY <1>0, <1>4, OutcomeKept DEF Reserve
<1>5. ASSUME NEW b \in Bot, UserWrites(b) \/ UserStops(b) \/ DeleteBot(b) \/ Enqueue(b)
                            \/ StartUserTurn(b) \/ Prompted(b)
      PROVE  Outcome'
  <2>1. stage' = stage /\ notice' = notice /\ replied' = replied
    BY <1>5 DEF UserWrites, UserStops, DeleteBot, Enqueue, StartUserTurn, Prompted
  <2> QED
    BY <2>1, OutcomeKept
<1>6. ASSUME NEW b \in Bot, StartRequestTurn(b)
      PROVE  Outcome'
  <2> SUFFICES ASSUME NEW k \in Request PROVE OutcomeOK(k)'
    BY DEF Outcome
  <2> DEFINE r == Head(queue[b]).id
  <2>1. r \in Request /\ stage[r] = "waiting"
    BY <1>6, FirstItem DEF StartRequestTurn, ItemOK
  <2>2. /\ stage' = [stage EXCEPT ![r] = "running"] /\ notice' = [notice EXCEPT ![r] = Ended(r, "sent")]
        /\ replied' = replied
    BY <1>6 DEF StartRequestTurn
  <2> HIDE DEF r
  <2>3. CASE k = r
    <3>1. stage'[k] = "running" /\ notice'[k] = Ended(r, "sent") /\ OutcomeOK(r)
      BY <1>0, <2>1, <2>2, <2>3
    <3> QED
      BY <2>1, <2>2, <2>3, <3>1 DEF OutcomeOK, Ended
  <2>4. CASE k # r
    BY <1>0, <2>1, <2>2, <2>4 DEF OutcomeOK, Cancelled
  <2> QED
    BY <2>3, <2>4
<1>7. ASSUME NEW b \in Bot, StartReplyTurn(b)
      PROVE  Outcome'
  <2> SUFFICES ASSUME NEW k \in Request PROVE OutcomeOK(k)'
    BY DEF Outcome
  <2>1. stage' = stage /\ notice' = notice
    BY <1>7 DEF StartReplyTurn
  <2> QED
    BY <1>0, <1>7, <2>1, RepliesOfBatch DEF OutcomeOK, Cancelled
<1>8. ASSUME NEW b \in Bot, HandleStop(b) \/ HandleShutdown(b)
      PROVE  Outcome'
  <2>1. /\ RequestsIn(queue[b]) \in SUBSET LiveRequests
        /\ mailbox[b] # <<>> =>
             RequestsIn(queue[b]) \cup RequestsIn(Tail(mailbox[b])) \cup ({turn[b].id} \ {0}) \in SUBSET LiveRequests
    BY Held DEF Waiting, Running, LiveRequests, Live
  <2>2. "cancelled" \in Notice
    BY DEF Notice
  <2>3. CASE HandleStop(b)
    BY <2>1, <2>2, <2>3, OutcomeOver DEF HandleStop
  <2>4. CASE HandleShutdown(b)
    BY <2>1, <2>2, <2>4, OutcomeOver DEF HandleShutdown, Take
  <2> QED
    BY <1>8, <2>3, <2>4
<1>9. ASSUME NEW b \in Bot, NEW status \in {"completed", "failed", "cancelled"}, EndOf(b, status)
      PROVE  Outcome'
  <2>1. CASE turn[b].kind = "request"
    <3>1. {turn[b].id} \in SUBSET LiveRequests
      BY <2>1, Held DEF IInv, InTurn, TurnOK, Running, LiveRequests, Live
    <3> QED
      BY <1>9, <2>1, <3>1, OutcomeOver DEF EndOf, Notice
  <2>2. CASE turn[b].kind # "request"
    BY <1>9, <2>2, OutcomeKept DEF EndOf
  <2> QED
    BY <2>1, <2>2
<1>10. ASSUME NEW resumed, Restart(resumed)
       PROVE  Outcome'
  <2> SUFFICES ASSUME NEW k \in Request PROVE OutcomeOK(k)'
    BY DEF Outcome
  <2>1. /\ stage'[k] = (IF stage[k] = "none" THEN "none" ELSE "over") /\ replied' = replied
        /\ notice'[k].source = Expired(notice[k].source) /\ notice'[k].target = Expired(notice[k].target)
    BY <1>10 DEF Restart
  <2> QED
    BY <1>0, <2>1 DEF OutcomeOK, Cancelled, Expired
<1>11. CASE UNCHANGED vars
  BY <1>11, OutcomeKept DEF vars
<1> QED
  BY <1>1, <1>2, <1>3, <1>4, <1>5, <1>6, <1>7, <1>8, <1>9, <1>10, <1>11
     DEF Next, ActorStep, StartFails, TurnEnds

-----------------------------------------------------------------------------
(* Lines. *)

LEMMA LineGrows ==
  ASSUME IInv, NEW b \in Bot, NEW x \in Command, Line(b)' = Append(Line(b), x), ItemOK(x, b)',
         \A i \in 1..Len(Line(b)) :
           /\ Undisturbed(Line(b)[i])
           /\ Line(b)[i].cmd = x.cmd /\ x.cmd \in {"request", "reply"} => Line(b)[i].id # x.id
  PROVE  LineOK(b)'
<1> DEFINE L == Line(b)
           M == Line(b)'
<1>1. L \in Seq(Command) /\ Len(L) \in Nat
  <2>1. L \in Seq(Command)
    BY LineShape, Zenon DEF IInv
  <2> QED
    BY <2>1, LenProperties
<1>2. M = Append(L, x) /\ Len(M) = Len(L) + 1 /\ M[Len(L) + 1] = x /\ \A i \in 1..Len(L) : M[i] = L[i]
  BY <1>1, AppendProperties
<1>3. /\ \A i \in 1..Len(L) : ItemOK(L[i], b) /\ Undisturbed(L[i])
      /\ \A i \in 1..Len(L) : L[i].cmd = x.cmd /\ x.cmd \in {"request", "reply"} => L[i].id # x.id
      /\ \A i, j \in 1..Len(L) :
           i # j /\ L[i].cmd = L[j].cmd /\ L[i].cmd \in {"request", "reply"} => L[i].id # L[j].id
  BY DEF IInv, Lines, LineOK
<1>4. \A i \in 1..Len(M) : i \in 1..Len(L) \/ i = Len(L) + 1
  <2> HIDE DEF M
  <2> QED
    BY <1>1, <1>2
<1>5. ASSUME NEW i \in 1..Len(M) PROVE ItemOK(Line(b)[i], b)'
  <2>1. CASE i \in 1..Len(L)
    <3>1. ItemOK(L[i], b) /\ Undisturbed(L[i]) /\ M[i] = L[i]
      BY <1>2, <1>3, <2>1
    <3> QED
      BY <3>1 DEF ItemOK, Undisturbed, Cancelled
  <2>2. CASE i = Len(L) + 1
    <3>1. M[i] = x
      BY <1>2, <2>2
    <3> QED
      BY <3>1 DEF ItemOK, Cancelled
  <2> QED
    BY <1>4, <2>1, <2>2
<1> HIDE DEF M, L
<1>6. ASSUME NEW i \in 1..Len(M), NEW j \in 1..Len(M), i # j, M[i].cmd = M[j].cmd, M[i].cmd \in {"request", "reply"}
      PROVE  M[i].id # M[j].id
  BY <1>2, <1>3, <1>4, <1>6
<1> QED
  BY <1>5, <1>6 DEF LineOK, M

LEMMA AppendLast ==
  ASSUME NEW q \in Seq(Command), NEW m \in Seq(Command), NEW x \in Command
  PROVE  q \o Append(m, x) = Append(q \o m, x)
<1>1. Append(m, x) = m \o <<x>> /\ <<x>> \in Seq(Command)
  BY AppendIsConcat
<1>2. q \o m \in Seq(Command)
  BY ConcatProperties
<1>3. Append(q \o m, x) = (q \o m) \o <<x>>
  BY <1>2, AppendIsConcat
<1>4. (q \o m) \o <<x>> = q \o (m \o <<x>>)
  BY <1>1, ConcatAssociative
<1> QED
  BY <1>1, <1>3, <1>4

LEMMA TellGrows ==
  ASSUME IInv, NEW b \in Bot, NEW x \in Command, mailbox'[b] = Append(mailbox[b], x), queue'[b] = queue[b]
  PROVE  Line(b)' = Append(Line(b), x)
<1>1. queue[b] \in Seq(Command) /\ mailbox[b] \in Seq(Command)
  <2>1. queue[b] \in Seq(Item) /\ mailbox[b] \in Seq(Command)
    BY DEF IInv, TypeOK
  <2> QED
    BY <2>1, SeqMonotonic DEF Command
<1>2. queue[b] \o Append(mailbox[b], x) = Append(queue[b] \o mailbox[b], x)
  BY <1>1, AppendLast, Zenon
<1> QED
  BY <1>2 DEF Line

\* Enqueue only moves the border between queue and mailbox.
LEMMA EnqueueKeeps ==
  ASSUME NEW q \in Seq(Command), NEW m \in Seq(Command), m # <<>>
  PROVE  Append(q, Head(m)) \o Tail(m) = q \o m
<1>1. Head(m) \in Command /\ Tail(m) \in Seq(Command) /\ <<Head(m)>> \in Seq(Command)
  BY HeadTailProperties
<1>2. Append(q, Head(m)) = q \o <<Head(m)>>
  BY <1>1, AppendIsConcat
<1>3. (q \o <<Head(m)>>) \o Tail(m) = q \o (<<Head(m)>> \o Tail(m))
  BY <1>1, ConcatAssociative
<1>4. <<Head(m)>> \o Tail(m) = m
  <2>1. Len(m) \in Nat \ {0}
    BY EmptySeq
  <2>2. SubSeq(m, 1, Len(m)) = <<m[1]>> \o SubSeq(m, 2, Len(m))
    BY <2>1, SubSeqRecursiveFirst
  <2> QED
    BY <2>1, <2>2, SubSeqFull, TailIsSubSeq
<1> QED
  BY <1>2, <1>3, <1>4

\* A queue that loses its first items.
LEMMA FrontDrops ==
  ASSUME NEW q \in Seq(Command), NEW m \in Seq(Command), NEW n \in 0..Len(q)
  PROVE  /\ SubSeq(q, n + 1, Len(q)) \in Seq(Command) /\ n \in 0..Len(q \o m)
         /\ Len(SubSeq(q, n + 1, Len(q)) \o m) = Len(q \o m) - n
         /\ \A i \in 1..Len(SubSeq(q, n + 1, Len(q)) \o m) :
              (SubSeq(q, n + 1, Len(q)) \o m)[i] = (q \o m)[i + n]
<1> DEFINE t == SubSeq(q, n + 1, Len(q))
<1>1. Len(q) \in Nat /\ Len(m) \in Nat /\ \A i \in 1..Len(q) : q[i] \in Command
  BY LenProperties, ElementOfSeq
<1>2. \A i \in (n + 1)..Len(q) : i \in 1..Len(q)
  BY <1>1
<1>3. n + 1 \in Int /\ Len(q) \in Int /\ \A i \in (n + 1)..Len(q) : q[i] \in Command
  BY <1>1, <1>2
<1>4. /\ t \in Seq(Command)
      /\ Len(t) = IF n + 1 <= Len(q) THEN Len(q) - (n + 1) + 1 ELSE 0
      /\ \A i \in 1..(Len(q) - (n + 1) + 1) : t[i] = q[n + 1 + i - 1]
  BY <1>3, SubSeqProperties
<1> HIDE DEF t
<1>5. Len(t) = Len(q) - n /\ \A i \in 1..(Len(q) - n) : t[i] = q[i + n]
  BY <1>1, <1>4
<1>6. /\ Len(t \o m) = Len(t) + Len(m) /\ Len(q \o m) = Len(q) + Len(m)
      /\ \A i \in 1..(Len(t) + Len(m)) : (t \o m)[i] = IF i <= Len(t) THEN t[i] ELSE m[i - Len(t)]
      /\ \A i \in 1..(Len(q) + Len(m)) : (q \o m)[i] = IF i <= Len(q) THEN q[i] ELSE m[i - Len(q)]
  BY <1>4, ConcatProperties
<1>7. ASSUME NEW i \in 1..Len(t \o m) PROVE (t \o m)[i] = (q \o m)[i + n]
  <2>1. i \in 1..(Len(t) + Len(m)) /\ i + n \in 1..(Len(q) + Len(m)) /\ (i <= Len(t) <=> i + n <= Len(q))
        /\ (i + n) - Len(q) = i - Len(t) /\ (i <= Len(t) => i \in 1..(Len(q) - n))
    BY <1>1, <1>5, <1>6
  <2> QED
    BY <1>5, <1>6, <2>1
<1>8. Len(t \o m) = Len(q \o m) - n /\ n \in 0..Len(q \o m)
  BY <1>1, <1>5, <1>6
<1> QED
  BY <1>4, <1>7, <1>8 DEF t

\* A line whose requests a step leaves alone.
LEMMA LineCalm ==
  ASSUME IInv, NEW b \in Bot,
         \A r \in Request : (stage[r] = "waiting" /\ req[r].target = b) \/ (stage[r] = "over" /\ req[r].source = b) =>
           /\ stage'[r] = stage[r] /\ req'[r] = req[r]
           /\ replied'[r] = replied[r] /\ notice'[r] = notice[r]
  PROVE  \A i \in 1..Len(Line(b)) : Undisturbed(Line(b)[i])
<1> SUFFICES ASSUME NEW i \in 1..Len(Line(b)) PROVE Undisturbed(Line(b)[i])
  OBVIOUS
<1>1. Line(b)[i] \in Command
  <2>1. Line(b) \in Seq(Command)
    BY LineShape, Zenon DEF IInv
  <2> QED
    BY <2>1, ElementOfSeq
<1>2. ItemOK(Line(b)[i], b)
  BY DEF IInv, Lines, LineOK
<1>3. ASSUME NEW x \in Command, ItemOK(x, b) PROVE Undisturbed(x)
  <2>1. x.cmd \in {"request", "reply"} => x.id \in Request
    BY ItemIs
  <2>2. CASE x.cmd = "request"
    <3>1. x.id \in Request /\ stage[x.id] = "waiting" /\ req[x.id].target = b
      BY <1>3, <2>1, <2>2 DEF ItemOK
    <3> QED
      BY <2>2, <3>1 DEF Undisturbed
  <2>3. CASE x.cmd = "reply"
    <3>1. x.id \in Request /\ stage[x.id] = "over" /\ req[x.id].source = b
      BY <1>3, <2>1, <2>3 DEF ItemOK
    <3> QED
      BY <2>3, <3>1 DEF Undisturbed
  <2> QED
    BY <2>2, <2>3 DEF Undisturbed
<1> QED
  BY <1>1, <1>2, <1>3, Zenon

LEMMA LineAlone ==
  ASSUME IInv, NEW b \in Bot, queue'[b] = queue[b], mailbox'[b] = mailbox[b],
         \A r \in Request : (stage[r] = "waiting" /\ req[r].target = b) \/ (stage[r] = "over" /\ req[r].source = b) =>
           /\ stage'[r] = stage[r] /\ req'[r] = req[r]
           /\ replied'[r] = replied[r] /\ notice'[r] = notice[r]
  PROVE  LineOK(b)'
<1>1. Line(b)' = Line(b)
  BY DEF Line
<1>2. TypeOK /\ LineOK(b)
  BY DEF IInv, Lines
<1>3. \A i \in 1..Len(Line(b)) : Undisturbed(Line(b)[i])
  BY LineCalm
<1> QED
  BY <1>1, <1>2, <1>3, LineStays

\* Requests of the bot b that end or start are in no other bot's line.
LEMMA LineElsewhere ==
  ASSUME IInv, NEW b \in Bot, NEW c \in Bot, c # b, queue'[c] = queue[c], mailbox'[c] = mailbox[c],
         req' = req, replied' = replied,
         NEW S, S \subseteq Waiting(b) \cup Running(b),
         \A r \in Request : r \notin S => stage'[r] = stage[r] /\ notice'[r] = notice[r]
  PROVE  LineOK(c)'
<1>1. \A r \in Request : (stage[r] = "waiting" /\ req[r].target = c) \/ (stage[r] = "over" /\ req[r].source = c) => r \notin S
  BY DEF Waiting, Running
<1> QED
  BY <1>1, LineAlone

LEMMA NewItem ==
  ASSUME IInv, NEW b \in Bot, NEW x \in Command, mailbox'[b] = Append(mailbox[b], x), queue'[b] = queue[b],
         ItemOK(x, b)',
         x.cmd = "request" => stage[x.id] # "waiting",
         x.cmd = "reply" => stage[x.id] # "over",
         \A r \in Request : stage[r] \in {"waiting", "over"} =>
           /\ stage'[r] = stage[r] /\ req'[r] = req[r]
           /\ replied'[r] = replied[r] /\ notice'[r] = notice[r]
  PROVE  LineOK(b)'
<1>1. Line(b)' = Append(Line(b), x)
  BY TellGrows
<1>2. \A i \in 1..Len(Line(b)) : Undisturbed(Line(b)[i])
  BY LineCalm
<1>3. \A i \in 1..Len(Line(b)) : ItemOK(Line(b)[i], b)
  BY DEF IInv, Lines, LineOK
<1>4. \A i \in 1..Len(Line(b)) :
        Line(b)[i].cmd = x.cmd /\ x.cmd \in {"request", "reply"} => Line(b)[i].id # x.id
  BY <1>3 DEF ItemOK
<1> QED
  BY <1>1, <1>2, <1>4, LineGrows

LEMMA NoLine ==
  ASSUME NEW b \in Bot, queue'[b] = <<>>, mailbox'[b] = <<>>
  PROVE  LineOK(b)'
<1>1. Line(b)' = <<>>
  BY DEF Line
<1>2. Len(<<>>) = 0
  OBVIOUS
<1> QED
  BY <1>1, <1>2 DEF LineOK

\* The first n items of the queue become a turn.
LEMMA TurnTakes ==
  ASSUME IInv, NEW b \in Bot, NEW n \in 0..Len(queue[b]),
         queue'[b] = SubSeq(queue[b], n + 1, Len(queue[b])), mailbox'[b] = mailbox[b],
         \A i \in 1..Len(Line(b)) : i > n => Undisturbed(Line(b)[i])
  PROVE  LineOK(b)'
<1>1. queue[b] \in Seq(Command) /\ mailbox[b] \in Seq(Command) /\ Line(b) \in Seq(Command)
  <2>1. queue[b] \in Seq(Item) /\ mailbox[b] \in Seq(Command) /\ Line(b) \in Seq(Command)
    BY LineShape, Zenon DEF IInv
  <2> QED
    BY <2>1, SeqMonotonic DEF Command
<1>2. /\ n \in 0..Len(Line(b)) /\ Len(Line(b)') = Len(Line(b)) - n
      /\ \A i \in 1..Len(Line(b)') : Line(b)'[i] = Line(b)[i + n]
  <2>1. /\ n \in 0..Len(queue[b] \o mailbox[b])
        /\ Len(SubSeq(queue[b], n + 1, Len(queue[b])) \o mailbox[b]) = Len(queue[b] \o mailbox[b]) - n
        /\ \A i \in 1..Len(SubSeq(queue[b], n + 1, Len(queue[b])) \o mailbox[b]) :
             (SubSeq(queue[b], n + 1, Len(queue[b])) \o mailbox[b])[i] = (queue[b] \o mailbox[b])[i + n]
    BY <1>1, FrontDrops
  <2>2. Line(b) = queue[b] \o mailbox[b] /\ Line(b)' = SubSeq(queue[b], n + 1, Len(queue[b])) \o mailbox[b]
    BY DEF Line
  <2> QED
    BY <2>1, <2>2, Zenon
<1>3. LineOK(b)
  BY DEF IInv, Lines
<1> QED
  BY <1>1, <1>2, <1>3, LineDrops

\* What is left when the queue is dropped and the command at the mailbox's head taken.
LEMMA QueueDropped ==
  ASSUME NEW q \in Seq(Command), NEW m \in Seq(Command), m # <<>>
  PROVE  /\ Len(q) + 1 \in 0..Len(q \o m) /\ Len(Tail(m)) = Len(q \o m) - (Len(q) + 1)
         /\ \A i \in 1..Len(Tail(m)) : Tail(m)[i] = (q \o m)[i + (Len(q) + 1)]
         /\ \A i \in 1..Len(q \o m) : i > Len(q) + 1 =>
              \A k \in 1..Len(q) : k \in 1..Len(q \o m) /\ k # i /\ (q \o m)[k] = q[k]
<1>1. Len(q) \in Nat /\ Len(m) \in Nat \ {0}
  BY LenProperties, EmptySeq
<1>2. /\ Len(q \o m) = Len(q) + Len(m)
      /\ \A i \in 1..(Len(q) + Len(m)) : (q \o m)[i] = IF i <= Len(q) THEN q[i] ELSE m[i - Len(q)]
  BY ConcatProperties
<1>3. Len(Tail(m)) = Len(m) - 1 /\ \A i \in 1..Len(Tail(m)) : Tail(m)[i] = m[i + 1]
  BY HeadTailProperties
<1>4. ASSUME NEW i \in 1..Len(Tail(m)) PROVE Tail(m)[i] = (q \o m)[i + (Len(q) + 1)]
  <2>1. i + (Len(q) + 1) \in 1..(Len(q) + Len(m)) /\ ~(i + (Len(q) + 1) <= Len(q))
        /\ i + (Len(q) + 1) - Len(q) = i + 1
    BY <1>1, <1>3
  <2> QED
    BY <1>2, <1>3, <2>1
<1>5. ASSUME NEW i \in 1..Len(q \o m), i > Len(q) + 1, NEW k \in 1..Len(q)
      PROVE  k \in 1..Len(q \o m) /\ k # i /\ (q \o m)[k] = q[k]
  BY <1>1, <1>2, <1>5
<1>6. Len(q) + 1 \in 0..Len(q \o m) /\ Len(Tail(m)) = Len(q \o m) - (Len(q) + 1)
  BY <1>1, <1>2, <1>3
<1> QED
  BY <1>4, <1>5, <1>6

LEMMA LinesStep ==
  ASSUME IInv, [Next]_vars
  PROVE  Lines'
<1> SUFFICES ASSUME NEW c \in Bot PROVE LineOK(c)'
  BY DEF Lines
<1>0. /\ TypeOK /\ stage \in [Request -> Stage] /\ req \in [Request -> Record]
      /\ mailbox \in [Bot -> Seq(Command)] /\ queue \in [Bot -> Seq(Item)]
      /\ notice \in [Request -> [{"source", "target"} -> Notice]]
  BY DEF IInv, TypeOK
<1>1. ASSUME NEW r \in Request, SaveNotice(r) \/ NoticeFails(r) \/ DeliverFails(r)
      PROVE  LineOK(c)'
  <2>1. queue' = queue /\ mailbox' = mailbox /\ req' = req /\ replied' = replied
    BY <1>1 DEF SaveNotice, NoticeFails, DeliverFails, actors
  <2>2. \A k \in Request : stage[k] \in {"waiting", "over"} => stage'[k] = stage[k] /\ notice'[k] = notice[k]
    BY <1>0, <1>1 DEF SaveNotice, NoticeFails, DeliverFails, Over
  <2> QED
    BY <2>1, <2>2, LineAlone
<1>2. ASSUME NEW b \in Bot, NEW target \in Bot, NEW r \in Request, Reserve(b, target, r)
      PROVE  LineOK(c)'
  <2>1. /\ queue' = queue /\ mailbox' = mailbox /\ notice' = notice /\ replied' = replied
        /\ \A k \in Request : stage[k] \in {"waiting", "over"} => stage'[k] = stage[k] /\ req'[k] = req[k]
    BY <1>0, <1>2 DEF Reserve, actors
  <2> QED
    BY <2>1, LineAlone
<1>3. ASSUME NEW r \in Request, Deliver(r)
      PROVE  LineOK(c)'
  <2> DEFINE b == req[r].target
  <2>1. /\ stage[r] = "saved" /\ stage' = [stage EXCEPT ![r] = "waiting"]
        /\ mailbox' = [mailbox EXCEPT ![b] = Append(@, [cmd |-> "request", id |-> r])]
        /\ queue' = queue /\ req' = req /\ notice' = notice /\ replied' = replied
    BY <1>3 DEF Deliver, Tell
  <2>2. b \in Bot
    BY <1>0 DEF Record
  <2>3. \A k \in Request : stage[k] \in {"waiting", "over"} => stage'[k] = stage[k]
    BY <1>0, <2>1
  <2>4. CASE c = b
    <3>1. PICK x \in Command : x = [cmd |-> "request", id |-> r]
      BY DEF Command, Item
    <3>2. x.cmd = "request" /\ x.id = r
      BY <3>1
    <3>3. mailbox'[c] = Append(mailbox[c], x) /\ queue'[c] = queue[c]
      BY <1>0, <2>1, <2>2, <2>4, <3>1
    <3>4. ItemOK(x, c)'
      BY <1>0, <2>1, <2>4, <3>2 DEF ItemOK
    <3> QED
      BY <2>1, <2>3, <3>2, <3>3, <3>4, NewItem
  <2>5. CASE c # b
    <3>1. queue'[c] = queue[c] /\ mailbox'[c] = mailbox[c]
      BY <1>0, <2>1, <2>2, <2>5
    <3> QED
      BY <2>1, <2>3, <3>1, LineAlone
  <2> QED
    BY <2>4, <2>5
<1>4. ASSUME NEW b \in Bot, UserWrites(b) \/ UserStops(b) \/ DeleteBot(b)
      PROVE  LineOK(c)'
  <2>1. queue' = queue /\ stage' = stage /\ req' = req /\ notice' = notice /\ replied' = replied
    BY <1>4 DEF UserWrites, UserStops, DeleteBot
  <2>2. PICK x \in Command : /\ x.cmd \in {"user", "stop", "shutdown"}
                             /\ mailbox' = [mailbox EXCEPT ![b] = Append(@, x)]
    <3>1. /\ [cmd |-> "user", id |-> 0] \in Command /\ [cmd |-> "stop", id |-> 0] \in Command
          /\ [cmd |-> "shutdown", id |-> 0] \in Command
      BY DEF Command, Item
    <3> QED
      BY <1>4, <3>1 DEF UserWrites, UserStops, DeleteBot, Tell
  <2>3. CASE c = b
    <3>1. mailbox'[c] = Append(mailbox[c], x)
      BY <1>0, <2>2, <2>3
    <3>2. ItemOK(x, c)'
      BY <2>2 DEF ItemOK
    <3> QED
      BY <2>1, <2>2, <3>1, <3>2, NewItem
  <2>4. CASE c # b
    <3>1. mailbox'[c] = mailbox[c]
      BY <1>0, <2>2, <2>4
    <3> QED
      BY <2>1, <3>1, LineAlone
  <2> QED
    BY <2>3, <2>4
<1>5. ASSUME NEW b \in Bot, Enqueue(b)
      PROVE  LineOK(c)'
  <2>1. stage' = stage /\ req' = req /\ notice' = notice /\ replied' = replied
    BY <1>5 DEF Enqueue
  <2>2. \A i \in 1..Len(Line(c)) : Undisturbed(Line(c)[i])
    BY <2>1, LineCalm
  <2>3. Line(c)' = Line(c)
    <3>1. CASE c = b
      <4>1. /\ queue[b] \in Seq(Command) /\ mailbox[b] \in Seq(Command) /\ mailbox[b] # <<>>
            /\ queue'[b] = Append(queue[b], Head(mailbox[b])) /\ mailbox'[b] = Tail(mailbox[b])
        <5>1. queue[b] \in Seq(Item)
          BY <1>0
        <5>2. queue[b] \in Seq(Command)
          BY <5>1, SeqMonotonic DEF Command
        <5> QED
          BY <1>0, <1>5, <5>2 DEF Enqueue
      <4> QED
        BY <3>1, <4>1, EnqueueKeeps DEF Line
    <3>2. CASE c # b
      BY <1>0, <1>5, <3>2 DEF Enqueue, Line
    <3> QED
      BY <3>1, <3>2
  <2>4. LineOK(c)
    BY DEF IInv, Lines
  <2> QED
    BY <1>0, <2>2, <2>3, <2>4, LineStays
<1>6. ASSUME NEW b \in Bot, HandleStop(b)
      PROVE  LineOK(c)'
  <2>1. /\ queue' = [queue EXCEPT ![b] = <<>>] /\ mailbox' = [mailbox EXCEPT ![b] = Tail(@)]
        /\ req' = req /\ replied' = replied /\ mailbox[b] # <<>>
        /\ \A r \in Request : r \notin RequestsIn(queue[b]) => stage'[r] = stage[r] /\ notice'[r] = notice[r]
    BY <1>0, <1>6 DEF HandleStop, Take, Over
  <2>2. CASE c = b
    <3> DEFINE q == queue[b]
               m == mailbox[b]
               n == Len(q) + 1
    <3>1. q \in Seq(Command) /\ m \in Seq(Command) /\ m # <<>>
      <4>1. q \in Seq(Item) /\ m \in Seq(Command)
        BY <1>0
      <4> QED
        BY <2>1, <4>1, SeqMonotonic DEF Command
    <3>2. /\ n \in 0..Len(q \o m) /\ Len(Tail(m)) = Len(q \o m) - n
          /\ \A i \in 1..Len(Tail(m)) : Tail(m)[i] = (q \o m)[i + n]
          /\ \A i \in 1..Len(q \o m) : i > n =>
               \A k \in 1..Len(q) : k \in 1..Len(q \o m) /\ k # i /\ (q \o m)[k] = q[k]
      <4>1. /\ Len(q) + 1 \in 0..Len(q \o m) /\ Len(Tail(m)) = Len(q \o m) - (Len(q) + 1)
            /\ \A i \in 1..Len(Tail(m)) : Tail(m)[i] = (q \o m)[i + (Len(q) + 1)]
            /\ \A i \in 1..Len(q \o m) : i > Len(q) + 1 =>
                 \A k \in 1..Len(q) : k \in 1..Len(q \o m) /\ k # i /\ (q \o m)[k] = q[k]
        <5> HIDE DEF q, m
        <5> QED
          BY <3>1, QueueDropped
      <4> QED
        BY <4>1
    <3>3. Line(b) = q \o m /\ Line(b)' = Tail(m)
      <4>1. Tail(m) \in Seq(Command)
        BY <3>1, HeadTailProperties
      <4>2. queue'[b] = <<>> /\ mailbox'[b] = Tail(m)
        BY <1>0, <2>1
      <4> QED
        BY <4>1, <4>2, ConcatEmptySeq DEF Line
    <3>4. /\ n \in 0..Len(Line(b)) /\ Len(Line(b)') = Len(Line(b)) - n
          /\ \A i \in 1..Len(Line(b)') : Line(b)'[i] = Line(b)[i + n]
      <4> HIDE DEF n, q, m
      <4> QED
        BY <3>2, <3>3, Zenon
    <3>5. Line(b) \in Seq(Command)
      BY <1>0, LineShape, Zenon
    <3>6. ASSUME NEW i \in 1..Len(Line(b)), i > n PROVE Undisturbed(Line(b)[i])
      <4>1. Line(b)[i] \in Command
        BY <3>5, ElementOfSeq
      <4>2. Line(b)[i].cmd = "request" => Line(b)[i].id \notin RequestsIn(queue[b])
        <5>1. \A k \in 1..Len(q) : k \in 1..Len(Line(b)) /\ k # i /\ Line(b)[k] = q[k]
          <6> HIDE DEF n, q, m
          <6> QED
            BY <3>2, <3>3, <3>6, Zenon
        <5>2. \A k \in 1..Len(q) :
                Line(b)[i].cmd = "request" /\ q[k].cmd = "request" => Line(b)[i].id # q[k].id
          <6>1. \A k \in 1..Len(Line(b)) :
                  k # i /\ Line(b)[i].cmd = "request" /\ Line(b)[k].cmd = "request" => Line(b)[i].id # Line(b)[k].id
            BY DEF IInv, Lines, LineOK
          <6> HIDE DEF q
          <6> QED
            BY <5>1, <6>1
        <5> QED
          BY <5>2 DEF RequestsIn
      <4>3. Line(b)[i].cmd = "reply" => Line(b)[i].id \notin RequestsIn(queue[b])
        <5>1. ItemOK(Line(b)[i], b)
          BY DEF IInv, Lines, LineOK
        <5> QED
          BY <5>1, Held DEF ItemOK, Waiting
      <4>4. Line(b)[i].cmd \in {"request", "reply"} => Line(b)[i].id \in Request
        BY <4>1, ItemIs
      <4> QED
        BY <2>1, <4>2, <4>3, <4>4 DEF Undisturbed
    <3>7. LineOK(b)
      BY DEF IInv, Lines
    <3> HIDE DEF n, q, m
    <3> QED
      BY <2>2, <3>4, <3>5, <3>6, <3>7, LineDrops
  <2>3. CASE c # b
    <3>1. queue'[c] = queue[c] /\ mailbox'[c] = mailbox[c]
      BY <1>0, <2>1, <2>3
    <3> QED
      BY <2>1, <2>3, <3>1, Held, LineElsewhere
  <2> QED
    BY <2>2, <2>3
<1>7. ASSUME NEW b \in Bot, HandleShutdown(b)
      PROVE  LineOK(c)'
  <2> DEFINE S == RequestsIn(queue[b]) \cup RequestsIn(Tail(mailbox[b])) \cup ({turn[b].id} \ {0})
  <2>1. /\ queue' = [queue EXCEPT ![b] = <<>>] /\ mailbox' = [mailbox EXCEPT ![b] = <<>>]
        /\ req' = req /\ replied' = replied /\ mailbox[b] # <<>>
        /\ \A r \in Request : r \notin S => stage'[r] = stage[r] /\ notice'[r] = notice[r]
    BY <1>0, <1>7 DEF HandleShutdown, Take, Over
  <2>2. CASE c = b
    BY <1>0, <2>1, <2>2, NoLine
  <2>3. CASE c # b
    <3>1. queue'[c] = queue[c] /\ mailbox'[c] = mailbox[c]
      BY <1>0, <2>1, <2>3
    <3>2. S \subseteq Waiting(b) \cup Running(b)
      BY <2>1, Held
    <3> HIDE DEF S
    <3> QED
      BY <2>1, <2>3, <3>1, <3>2, LineElsewhere
  <2> QED
    BY <2>2, <2>3
<1>8. ASSUME NEW b \in Bot, StartUserTurn(b)
      PROVE  LineOK(c)'
  <2>1. /\ queue' = [queue EXCEPT ![b] = SubSeq(@, Batch(b) + 1, Len(@))] /\ mailbox' = mailbox
        /\ stage' = stage /\ req' = req /\ notice' = notice /\ replied' = replied /\ queue[b] # <<>>
    BY <1>8 DEF StartUserTurn
  <2>2. CASE c = b
    <3>1. Batch(b) \in 0..Len(queue[b])
      BY <1>0, <2>1, BatchIs, FirstItem
    <3>2. \A i \in 1..Len(Line(b)) : Undisturbed(Line(b)[i])
      BY <2>1, LineCalm
    <3>3. queue'[b] = SubSeq(queue[b], Batch(b) + 1, Len(queue[b])) /\ mailbox'[b] = mailbox[b]
      BY <1>0, <2>1
    <3> QED
      BY <2>2, <3>1, <3>2, <3>3, TurnTakes
  <2>3. CASE c # b
    <3>1. queue'[c] = queue[c] /\ mailbox'[c] = mailbox[c]
      BY <1>0, <2>1, <2>3
    <3> QED
      BY <2>1, <3>1, LineAlone
  <2> QED
    BY <2>2, <2>3
<1>9. ASSUME NEW b \in Bot, StartRequestTurn(b)
      PROVE  LineOK(c)'
  <2> DEFINE r == Head(queue[b]).id
  <2>1. /\ queue' = [queue EXCEPT ![b] = Tail(@)] /\ mailbox' = mailbox /\ queue[b] # <<>>
        /\ req' = req /\ replied' = replied /\ Head(queue[b]).cmd = "request"
        /\ \A k \in Request : k # r => stage'[k] = stage[k] /\ notice'[k] = notice[k]
    BY <1>0, <1>9 DEF StartRequestTurn
  <2>2. r \in Waiting(b) /\ Len(queue[b]) \in Nat \ {0} /\ Head(queue[b]) = queue[b][1] /\ 1 \in 1..Len(queue[b])
    BY <2>1, FirstItem DEF ItemOK, Waiting
  <2>3. CASE c = b
    <3>1. /\ Line(b) \in Seq(Command) /\ queue[b] \in Seq(Item) /\ mailbox[b] \in Seq(Command)
          /\ Len(Line(b)) = Len(queue[b]) + Len(mailbox[b])
          /\ \A i \in 1..Len(queue[b]) : Line(b)[i] = queue[b][i]
      BY <1>0, LineShape, Zenon
    <3>2. queue'[b] = SubSeq(queue[b], 1 + 1, Len(queue[b])) /\ mailbox'[b] = mailbox[b]
      <4>1. queue'[b] = Tail(queue[b]) /\ mailbox'[b] = mailbox[b]
        BY <1>0, <2>1
      <4>2. Tail(queue[b]) = SubSeq(queue[b], 2, Len(queue[b]))
        BY <2>1, <3>1, TailIsSubSeq
      <4> QED
        BY <4>1, <4>2
    <3>3. 1 \in 1..Len(Line(b)) /\ Line(b)[1] = Head(queue[b])
      <4>1. Len(mailbox[b]) \in Nat
        BY <3>1, LenProperties
      <4>2. 1 \in 1..Len(Line(b))
        BY <2>2, <3>1, <4>1, Positions, Zenon
      <4> QED
        BY <2>2, <3>1, <4>2
    <3>4. ASSUME NEW i \in 1..Len(Line(b)), i > 1 PROVE Undisturbed(Line(b)[i])
      <4>1. Line(b)[i] \in Command
        BY <3>1, ElementOfSeq
      <4>2. Line(b)[i].cmd = "request" => Line(b)[i].id # r
        <5>1. i # 1
          BY <3>4
        <5> QED
          BY <2>1, <3>3, <5>1 DEF IInv, Lines, LineOK
      <4>3. Line(b)[i].cmd = "reply" => Line(b)[i].id # r
        <5>1. ItemOK(Line(b)[i], b)
          BY DEF IInv, Lines, LineOK
        <5> QED
          BY <2>2, <5>1 DEF ItemOK, Waiting
      <4>4. Line(b)[i].cmd \in {"request", "reply"} => Line(b)[i].id \in Request
        BY <4>1, ItemIs
      <4> HIDE DEF r
      <4> QED
        BY <2>1, <4>2, <4>3, <4>4 DEF Undisturbed
    <3>5. 1 \in 0..Len(queue[b])
      BY <2>2
    <3> QED
      BY <2>3, <3>2, <3>4, <3>5, TurnTakes
  <2>4. CASE c # b
    <3>1. queue'[c] = queue[c] /\ mailbox'[c] = mailbox[c]
      BY <1>0, <2>1, <2>4
    <3>2. {r} \subseteq Waiting(b) \cup Running(b)
      BY <2>2
    <3> HIDE DEF r
    <3> QED
      BY <2>1, <2>4, <3>1, <3>2, LineElsewhere
  <2> QED
    BY <2>3, <2>4
<1>10. ASSUME NEW b \in Bot, StartReplyTurn(b)
       PROVE  LineOK(c)'
  <2>1. /\ queue' = [queue EXCEPT ![b] = SubSeq(@, Batch(b) + 1, Len(@))] /\ mailbox' = mailbox
        /\ stage' = stage /\ req' = req /\ notice' = notice
        /\ queue[b] # <<>> /\ Head(queue[b]).cmd = "reply"
    BY <1>10 DEF StartReplyTurn
  <2>2. /\ Batch(b) \in 1..Len(queue[b]) /\ Len(queue[b]) \in Nat
        /\ \A i \in 1..Batch(b) : queue[b][i].cmd = "reply"
    BY <1>0, <2>1, BatchIs, FirstItem
  <2>3. CASE c = b
    <3>1. /\ Line(b) \in Seq(Command) /\ mailbox[b] \in Seq(Command)
          /\ Len(Line(b)) = Len(queue[b]) + Len(mailbox[b])
          /\ \A i \in 1..Len(queue[b]) : Line(b)[i] = queue[b][i]
      BY <1>0, LineShape, Zenon
    <3>2. queue'[b] = SubSeq(queue[b], Batch(b) + 1, Len(queue[b])) /\ mailbox'[b] = mailbox[b]
      BY <1>0, <2>1
    <3>3. ASSUME NEW i \in 1..Len(Line(b)), i > Batch(b) PROVE Undisturbed(Line(b)[i])
      <4>1. Line(b)[i] \in Command
        BY <3>1, ElementOfSeq
      <4>2. Line(b)[i].cmd \in {"request", "reply"} => Line(b)[i].id \in Request
        BY <4>1, ItemIs
      <4>3. Line(b)[i].cmd = "reply" => Line(b)[i].id \notin FirstIds(b)
        <5>1. ASSUME NEW k \in 1..Batch(b)
              PROVE  k \in 1..Len(Line(b)) /\ k # i /\ Line(b)[k] = queue[b][k]
          <6>1. k \in 1..Len(queue[b]) /\ k # i
            BY <2>2, <3>3
          <6>2. Len(mailbox[b]) \in Nat
            BY <3>1, LenProperties
          <6> QED
            BY <2>2, <3>1, <6>1, <6>2, Positions, Zenon
        <5>2. \A k \in 1..Len(Line(b)) :
                k # i /\ Line(b)[i].cmd = "reply" /\ Line(b)[k].cmd = "reply" => Line(b)[i].id # Line(b)[k].id
          BY DEF IInv, Lines, LineOK
        <5>3. \A k \in 1..Batch(b) : Line(b)[i].cmd = "reply" => Line(b)[i].id # queue[b][k].id
          BY <2>2, <5>1, <5>2
        <5> QED
          BY <5>3 DEF FirstIds
      <4>4. Line(b)[i].cmd = "reply" => replied'[Line(b)[i].id] = replied[Line(b)[i].id]
        BY <1>10, <4>2, <4>3, RepliesOfBatch
      <4> QED
        BY <2>1, <4>2, <4>4 DEF Undisturbed
    <3>4. Batch(b) \in 0..Len(queue[b])
      BY <2>2
    <3> QED
      BY <2>3, <3>2, <3>3, <3>4, TurnTakes
  <2>4. CASE c # b
    <3>1. queue'[c] = queue[c] /\ mailbox'[c] = mailbox[c]
      BY <1>0, <2>1, <2>4
    <3>2. \A r \in Request : stage[r] = "over" /\ req[r].source = c => replied'[r] = replied[r]
      BY <1>10, <2>4, RepliesOfBatch
    <3>3. \A r \in Request : stage[r] = "waiting" => replied'[r] = replied[r]
      BY <1>10, RepliesOfBatch
    <3> QED
      BY <2>1, <3>1, <3>2, <3>3, LineAlone
  <2> QED
    BY <2>3, <2>4
<1>11. ASSUME NEW b \in Bot, Prompted(b)
       PROVE  LineOK(c)'
  BY <1>11, LineAlone DEF Prompted
<1>12. ASSUME NEW b \in Bot, NEW status \in {"completed", "failed", "cancelled"}, EndOf(b, status)
       PROVE  LineOK(c)'
  <2>1. queue' = queue /\ req' = req /\ replied' = replied
    BY <1>12 DEF EndOf
  <2>2. CASE turn[b].kind = "request"
    <3> DEFINE r == turn[b].id
               back == req[r].source
    <3>1. r \in Running(b)
      BY <2>2, Held DEF IInv, InTurn, TurnOK
    <3>2. /\ stage'[r] = "over" /\ notice'[r] = Ended(r, status)
          /\ \A k \in Request : k # r => stage'[k] = stage[k] /\ notice'[k] = notice[k]
      BY <1>12, <2>2, <3>1 DEF EndOf, Over, Running
    <3>3. \A k \in Request : stage[k] \in {"waiting", "over"} => stage'[k] = stage[k] /\ notice'[k] = notice[k]
      BY <3>1, <3>2 DEF Running
    <3>4. CASE Answers(status) /\ handle[back] /\ c = back
      <4>1. PICK x \in Command : x = [cmd |-> "reply", id |-> r]
        BY <3>1 DEF Command, Item, Running
      <4>2. x.cmd = "reply" /\ x.id = r
        BY <4>1
      <4>3. mailbox'[c] = Append(mailbox[c], x)
        BY <1>0, <1>12, <2>2, <3>4, <4>1 DEF EndOf, Tell
      <4>4. ItemOK(x, c)'
        <5>1. OutcomeOK(r)
          BY <3>1 DEF IInv, Outcome, Running
        <5> QED
          BY <2>1, <3>1, <3>2, <3>4, <4>2, <5>1 DEF ItemOK, Cancelled, Ended, Answers, OutcomeOK, Running
      <4>5. stage[x.id] # "over"
        BY <3>1, <4>2 DEF Running
      <4> HIDE DEF r, back
      <4> QED
        BY <2>1, <3>3, <4>2, <4>3, <4>4, <4>5, NewItem
    <3>5. CASE ~(Answers(status) /\ handle[back] /\ c = back)
      <4>1. mailbox'[c] = mailbox[c]
        BY <1>0, <1>12, <2>2, <3>5 DEF EndOf, Tell
      <4> QED
        BY <2>1, <3>3, <4>1, LineAlone
    <3> QED
      BY <3>4, <3>5
  <2>3. CASE turn[b].kind # "request"
    BY <1>12, <2>1, <2>3, LineAlone DEF EndOf
  <2> QED
    BY <2>2, <2>3
<1>13. ASSUME NEW resumed, Restart(resumed)
       PROVE  LineOK(c)'
  BY <1>13, NoLine DEF Restart
<1>14. CASE UNCHANGED vars
  BY <1>14, LineAlone DEF vars
<1> QED
  BY <1>1, <1>2, <1>3, <1>4, <1>5, <1>6, <1>7, <1>8, <1>9, <1>10, <1>11, <1>12, <1>13, <1>14
     DEF Next, ActorStep, StartFails, TurnEnds

-----------------------------------------------------------------------------
(* Types. *)

LEMMA BegunIs ==
  ASSUME NEW kind \in {"idle", "user", "request", "reply"}, NEW id \in {0} \cup Request, NEW d \in Nat
  PROVE  Begun(kind, id, d) \in Turn
BY DEF Begun, Turn, Depth

LEMMA TurnFlags ==
  ASSUME NEW t \in Turn, NEW z \in BOOLEAN
  PROVE  [t EXCEPT !.stop = z] \in Turn /\ [t EXCEPT !.running = z] \in Turn
BY DEF Turn

LEMMA EndedIs ==
  ASSUME TypeOK, NEW r \in Request, NEW status \in Notice
  PROVE  Ended(r, status) \in [{"source", "target"} -> Notice]
BY DEF Ended, TypeOK, Notice

LEMMA OverIs ==
  ASSUME TypeOK, NEW S, NEW status \in Notice, Over(S, status)
  PROVE  stage' \in [Request -> Stage] /\ notice' \in [Request -> [{"source", "target"} -> Notice]]
<1>1. stage' \in [Request -> Stage]
  BY DEF Over, TypeOK, Stage
<1>2. \A r \in Request : (IF r \in S THEN Ended(r, status) ELSE notice[r]) \in [{"source", "target"} -> Notice]
  BY EndedIs DEF TypeOK
<1> QED
  BY <1>1, <1>2 DEF Over

LEMMA ImageFinite ==
  ASSUME NEW S, IsFiniteSet(S), NEW f
  PROVE  IsFiniteSet({f[x] : x \in S})
<1> DEFINE g == [x \in S |-> f[x]]
<1>1. g \in Surjection(S, {f[x] : x \in S})
  BY DEF Surjection
<1> QED
  BY <1>1, FS_Surjection

LEMMA TellIs ==
  ASSUME TypeOK, NEW b \in Bot, NEW cmd, NEW id, [cmd |-> cmd, id |-> id] \in Command, Tell(b, cmd, id)
  PROVE  mailbox' \in [Bot -> Seq(Command)]
<1>1. Append(mailbox[b], [cmd |-> cmd, id |-> id]) \in Seq(Command)
  BY AppendProperties DEF TypeOK
<1> QED
  BY <1>1 DEF Tell, TypeOK

\* The reply turn's place in the chain.
LEMMA Furthest ==
  ASSUME IInv, NEW b \in Bot, StartReplyTurn(b)
  PROVE  /\ FirstIds(b) \in SUBSET Request
         /\ \E r \in FirstIds(b) : ReplyHops(b) = req[r].hops
         /\ \A r \in FirstIds(b) : req[r].hops <= ReplyHops(b)
         /\ \E r \in FirstIds(b) : Highest({depth[k] : k \in FirstIds(b)}) = depth[r]
<1>0. req \in [Request -> Record] /\ depth \in [Request -> Nat] /\ Hops \subseteq Nat
  BY DEF IInv, TypeOK, Depth, Hops
<1>1. FirstIds(b) \in SUBSET Request /\ FirstIds(b) # {}
  <2>1. TypeOK /\ queue[b] # <<>> /\ Head(queue[b]).cmd = "reply"
    BY DEF IInv, StartReplyTurn
  <2>2. /\ Batch(b) \in 1..Len(queue[b]) /\ Len(queue[b]) \in Nat
        /\ \A i \in 1..Batch(b) : queue[b][i].cmd = "reply"
    BY <2>1, BatchIs, FirstItem
  <2>3. ASSUME NEW i \in 1..Batch(b) PROVE queue[b][i].id \in Request
    <3>1. i \in 1..Len(queue[b])
      BY <2>2
    <3>2. queue[b][i] \in Item /\ queue[b][i].cmd = "reply"
      BY <2>2, <3>1, LineItems
    <3> QED
      BY <3>2 DEF Item
  <2>4. 1 \in 1..Batch(b)
    BY <2>2
  <2> QED
    BY <2>3, <2>4 DEF FirstIds
<1>2. IsFiniteSet(FirstIds(b))
  BY <1>1, Finite
<1>3. \A r \in FirstIds(b) : req[r].hops \in Nat /\ depth[r] \in Nat
  BY <1>0, <1>1 DEF Record
<1>4. \A f : {f[r] : r \in FirstIds(b)} # {}
  BY <1>1
<1>5. /\ IsFiniteSet({req[r].hops : r \in FirstIds(b)}) /\ {req[r].hops : r \in FirstIds(b)} # {}
      /\ {req[r].hops : r \in FirstIds(b)} \in SUBSET Nat
  <2> DEFINE h == [r \in FirstIds(b) |-> req[r].hops]
  <2>1. IsFiniteSet({h[r] : r \in FirstIds(b)})
    BY <1>2, ImageFinite
  <2> QED
    BY <1>1, <1>3, <2>1
<1>6. /\ IsFiniteSet({depth[r] : r \in FirstIds(b)}) /\ {depth[r] : r \in FirstIds(b)} # {}
      /\ {depth[r] : r \in FirstIds(b)} \in SUBSET Nat
  <2>1. IsFiniteSet({depth[r] : r \in FirstIds(b)})
    BY <1>2, ImageFinite
  <2> QED
    BY <1>1, <1>3, <2>1
<1>7. ReplyHops(b) \in {req[r].hops : r \in FirstIds(b)}
      /\ \A k \in {req[r].hops : r \in FirstIds(b)} : k <= ReplyHops(b)
  BY <1>5, HighestIs DEF ReplyHops
<1>8. Highest({depth[k] : k \in FirstIds(b)}) \in {depth[r] : r \in FirstIds(b)}
  BY <1>6, HighestIs
<1> QED
  BY <1>1, <1>7, <1>8

LEMMA TypeStep ==
  ASSUME IInv, [Next]_vars, SlotsGood
  PROVE  TypeOK'
<1>0. TypeOK
  BY DEF IInv
<1>s. messages' \in Nat /\ messages_by_sender' \in [Bot -> Nat]
  BY DEF SlotsGood
<1>1. ASSUME NEW r \in Request, SaveNotice(r)
      PROVE  TypeOK'
  <2>1. stage' \in [Request -> Stage]
    BY <1>0, <1>1 DEF SaveNotice, TypeOK, Stage, Live
  <2>2. notice' \in [Request -> [{"source", "target"} -> Notice]]
    <3>1. /\ [notice[r] EXCEPT !.source = "queued"] \in [{"source", "target"} -> Notice]
          /\ [notice[r] EXCEPT !.target = "queued"] \in [{"source", "target"} -> Notice]
      BY <1>0 DEF TypeOK, Notice
    <3> QED
      BY <1>0, <1>1, <3>1 DEF SaveNotice, TypeOK
  <2> QED
    BY <1>0, <1>1, <1>s, <2>1, <2>2 DEF SaveNotice, TypeOK, actors, bounds
<1>2. ASSUME NEW r \in Request, NoticeFails(r) \/ DeliverFails(r)
      PROVE  TypeOK'
  <2>1. stage' \in [Request -> Stage] /\ notice' \in [Request -> [{"source", "target"} -> Notice]]
    BY <1>0, <1>2, OverIs DEF NoticeFails, DeliverFails, Notice
  <2> QED
    BY <1>0, <1>2, <1>s, <2>1 DEF NoticeFails, DeliverFails, TypeOK, actors, bounds
<1>3. ASSUME NEW r \in Request, Deliver(r)
      PROVE  TypeOK'
  <2>1. [cmd |-> "request", id |-> r] \in Command
    BY DEF Command, Item
  <2>2. mailbox' \in [Bot -> Seq(Command)]
    <3>1. req[r].target \in Bot
      BY <1>0 DEF TypeOK, Record
    <3> QED
      BY <1>0, <1>3, <2>1, <3>1, TellIs DEF Deliver
  <2> QED
    BY <1>0, <1>3, <1>s, <2>2 DEF Deliver, TypeOK, bounds, Stage, Live
<1>4. ASSUME NEW b \in Bot, NEW target \in Bot, NEW r \in Request, Reserve(b, target, r)
      PROVE  TypeOK'
  <2>1. active[b].hops + 1 \in Hops
    <3>1. active[b] \in Active /\ active[b].hops < MAX_REQUEST_HOPS
      BY <1>0, <1>4 DEF Reserve, TypeOK
    <3>2. active[b].hops \in Nat
      BY <3>1 DEF Active, Hops
    <3> QED
      BY <3>1, <3>2, TeamAssumption DEF Hops
  <2>2. [source |-> b, target |-> target, hops |-> active[b].hops + 1] \in Record
    BY <2>1 DEF Record
  <2>3. req' \in [Request -> Record]
    BY <1>0, <1>4, <2>2 DEF Reserve, TypeOK
  <2>4. depth' \in [Request -> Depth]
    <3>1. turn[b].depth \in Nat /\ depth \in [Request -> Nat]
      BY <1>0 DEF TypeOK, Turn, Depth
    <3>2. depth' = [depth EXCEPT ![r] = turn[b].depth + 1]
      BY <1>4 DEF Reserve
    <3> QED
      BY <3>1, <3>2 DEF Depth
  <2> QED
    BY <1>0, <1>4, <1>s, <2>3, <2>4 DEF Reserve, TypeOK, actors, bounds, Stage, Live
<1>5. ASSUME NEW b \in Bot, UserWrites(b) \/ UserStops(b) \/ DeleteBot(b)
      PROVE  TypeOK'
  <2>1. /\ [cmd |-> "user", id |-> 0] \in Command /\ [cmd |-> "stop", id |-> 0] \in Command
        /\ [cmd |-> "shutdown", id |-> 0] \in Command
    BY DEF Command, Item
  <2>2. mailbox' \in [Bot -> Seq(Command)]
    BY <1>0, <1>5, <2>1, TellIs DEF UserWrites, UserStops, DeleteBot
  <2>3. NoTurn \in Active
    BY DEF NoTurn, Active
  <2>4. active' \in [Bot -> Active]
    BY <1>0, <1>5, <2>3 DEF UserWrites, UserStops, DeleteBot, TypeOK
  <2>5. userTurns' \in 0..MaxUserTurns /\ touches' \in 0..MaxTouches
    <3>1. userTurns \in 0..MaxUserTurns /\ touches \in 0..MaxTouches
      BY <1>0 DEF TypeOK
    <3>2. CASE UserWrites(b)
      BY <3>1, <3>2, TeamAssumption DEF UserWrites
    <3>3. CASE UserStops(b) \/ DeleteBot(b)
      BY <3>1, <3>3, TeamAssumption DEF UserStops, DeleteBot
    <3> QED
      BY <1>5, <3>2, <3>3
  <2> QED
    BY <1>0, <1>5, <1>s, <2>2, <2>4, <2>5 DEF UserWrites, UserStops, DeleteBot, TypeOK
<1>6. ASSUME NEW b \in Bot, Enqueue(b)
      PROVE  TypeOK'
  <2>1. /\ queue \in [Bot -> Seq(Item)] /\ mailbox \in [Bot -> Seq(Command)] /\ mailbox[b] # <<>>
        /\ Head(mailbox[b]).cmd \in {"user", "request", "reply"}
    BY <1>0, <1>6 DEF Enqueue, TypeOK
  <2>2. Head(mailbox[b]) \in Command /\ Tail(mailbox[b]) \in Seq(Command)
    BY <2>1, HeadTailProperties
  <2>3. Head(mailbox[b]) \in Item
    BY <2>1, <2>2, ItemIs
  <2>4. Append(queue[b], Head(mailbox[b])) \in Seq(Item)
    BY <2>1, <2>3, AppendProperties
  <2>5. queue' \in [Bot -> Seq(Item)] /\ mailbox' \in [Bot -> Seq(Command)]
    BY <1>6, <2>1, <2>2, <2>4 DEF Enqueue
  <2> QED
    BY <1>0, <1>6, <1>s, <2>5 DEF Enqueue, TypeOK, bounds
<1>7. ASSUME NEW b \in Bot, HandleStop(b)
      PROVE  TypeOK'
  <2>1. stage' \in [Request -> Stage] /\ notice' \in [Request -> [{"source", "target"} -> Notice]]
    BY <1>0, <1>7, OverIs DEF HandleStop, Notice
  <2>2. /\ queue \in [Bot -> Seq(Item)] /\ mailbox \in [Bot -> Seq(Command)] /\ mailbox[b] # <<>>
    BY <1>0, <1>7 DEF HandleStop, Take, TypeOK
  <2>3. Tail(mailbox[b]) \in Seq(Command) /\ <<>> \in Seq(Item)
    BY <2>2, HeadTailProperties
  <2>4. queue' \in [Bot -> Seq(Item)] /\ mailbox' \in [Bot -> Seq(Command)]
    BY <1>7, <2>2, <2>3 DEF HandleStop
  <2>5. turn' \in [Bot -> Turn]
    <3>1. PICK z \in BOOLEAN : z = (turn[b].kind # "idle")
      OBVIOUS
    <3>2. turn' = [turn EXCEPT ![b].stop = z]
      BY <1>7, <3>1 DEF HandleStop
    <3>3. turn[b] \in Turn
      BY <1>0 DEF TypeOK
    <3>4. [turn[b] EXCEPT !.stop = z] \in Turn
      BY <3>3, TurnFlags
    <3> QED
      BY <1>0, <3>2, <3>4 DEF TypeOK
  <2>6. active' \in [Bot -> Active]
    BY <1>0, <1>7 DEF HandleStop, TypeOK, NoTurn, Active
  <2> QED
    BY <1>0, <1>7, <1>s, <2>1, <2>4, <2>5, <2>6 DEF HandleStop, TypeOK, bounds
<1>8. ASSUME NEW b \in Bot, HandleShutdown(b)
      PROVE  TypeOK'
  <2>1. stage' \in [Request -> Stage] /\ notice' \in [Request -> [{"source", "target"} -> Notice]]
    BY <1>0, <1>8, OverIs DEF HandleShutdown, Notice
  <2>2. queue' \in [Bot -> Seq(Item)] /\ mailbox' \in [Bot -> Seq(Command)]
    BY <1>0, <1>8 DEF HandleShutdown, TypeOK
  <2>3. Idle \in Turn /\ NoTurn \in Active
    BY BegunIs DEF Idle, NoTurn, Active
  <2>4. turn' \in [Bot -> Turn] /\ active' \in [Bot -> Active]
    BY <1>0, <1>8, <2>3 DEF HandleShutdown, TypeOK
  <2> QED
    BY <1>0, <1>8, <1>s, <2>1, <2>2, <2>4 DEF HandleShutdown, TypeOK, bounds
<1>9. ASSUME NEW b \in Bot, StartUserTurn(b) \/ StartReplyTurn(b)
      PROVE  TypeOK'
  <2>1. queue[b] # <<>> /\ queue \in [Bot -> Seq(Item)] /\ queue' = [queue EXCEPT ![b] = SubSeq(@, Batch(b) + 1, Len(@))]
    BY <1>0, <1>9 DEF StartUserTurn, StartReplyTurn, TypeOK
  <2>2. queue' \in [Bot -> Seq(Item)]
    <3>1. Batch(b) \in 1..Len(queue[b]) /\ Len(queue[b]) \in Nat
      BY <1>0, <2>1, BatchIs, FirstItem
    <3>2. \A i \in (Batch(b) + 1)..Len(queue[b]) : i \in 1..Len(queue[b])
      BY <3>1
    <3>3. \A i \in (Batch(b) + 1)..Len(queue[b]) : queue[b][i] \in Item
      BY <3>2, LineItems
    <3>4. SubSeq(queue[b], Batch(b) + 1, Len(queue[b])) \in Seq(Item)
      <4>1. Batch(b) + 1 \in Int /\ Len(queue[b]) \in Int
        BY <3>1
      <4> QED
        BY <3>3, <4>1, SubSeqProperties
    <3> QED
      BY <2>1, <3>4
  <2>3. CASE StartUserTurn(b)
    <3>1. Begun("user", 0, 0) \in Turn
      BY BegunIs
    <3>2. Chat(0) \in Active
      BY TeamAssumption DEF Chat, Active, Hops
    <3> QED
      BY <1>0, <1>s, <2>2, <2>3, <3>1, <3>2 DEF StartUserTurn, TypeOK, bounds
  <2>4. CASE StartReplyTurn(b)
    <3>1. \A r \in Request : req[r].hops \in Hops /\ depth[r] \in Nat
      BY <1>0 DEF TypeOK, Record, Depth
    <3>2. ReplyHops(b) \in Hops /\ Highest({depth[k] : k \in FirstIds(b)}) \in Nat
      BY <2>4, <3>1, Furthest
    <3>3. Begun("reply", 0, Highest({depth[r] : r \in FirstIds(b)})) \in Turn
      BY <3>2, BegunIs
    <3>4. Chat(ReplyHops(b)) \in Active
      BY <3>2 DEF Chat, Active
    <3>5. replied' \in [Request -> Nat]
      <4>1. \A r \in Request :
              /\ Cardinality({i \in 1..Batch(b) : queue[b][i].id = r}) \in Nat /\ replied[r] \in Nat
        BY <1>0, <2>4, RepliesOfBatch DEF TypeOK
      <4> QED
        BY <2>4, <4>1 DEF StartReplyTurn
    <3>6. turn' \in [Bot -> Turn] /\ active' \in [Bot -> Active] /\ marked' \in [Bot -> BOOLEAN]
      BY <1>0, <2>4, <3>3, <3>4 DEF StartReplyTurn, TypeOK
    <3> QED
      BY <1>0, <1>s, <2>2, <2>4, <3>5, <3>6 DEF StartReplyTurn, TypeOK, bounds
  <2> QED
    BY <1>9, <2>3, <2>4
<1>10. ASSUME NEW b \in Bot, StartRequestTurn(b)
       PROVE  TypeOK'
  <2>1. queue[b] # <<>> /\ Head(queue[b]).cmd = "request" /\ queue \in [Bot -> Seq(Item)]
    BY <1>0, <1>10 DEF StartRequestTurn, TypeOK
  <2>2. Head(queue[b]).id \in Request
    BY <2>1, FirstItem
  <2>3. queue' \in [Bot -> Seq(Item)]
    BY <1>10, <2>1, HeadTailProperties DEF StartRequestTurn
  <2>4. Begun("request", Head(queue[b]).id, depth[Head(queue[b]).id]) \in Turn
    BY <1>0, <2>2, BegunIs DEF TypeOK, Depth
  <2>5. [kind |-> "request", hops |-> 0] \in Active
    BY DEF Active
  <2>6. turn' \in [Bot -> Turn] /\ active' \in [Bot -> Active] /\ marked' \in [Bot -> BOOLEAN]
    BY <1>0, <1>10, <2>4, <2>5 DEF StartRequestTurn, TypeOK
  <2>7. stage' \in [Request -> Stage] /\ notice' \in [Request -> [{"source", "target"} -> Notice]]
    <3>1. Ended(Head(queue[b]).id, "sent") \in [{"source", "target"} -> Notice]
      BY <1>0, <2>2, EndedIs DEF Notice
    <3> QED
      BY <1>0, <1>10, <3>1 DEF StartRequestTurn, TypeOK, Stage, Live
  <2> QED
    BY <1>0, <1>10, <1>s, <2>3, <2>6, <2>7 DEF StartRequestTurn, TypeOK, bounds
<1>11. ASSUME NEW b \in Bot, Prompted(b)
       PROVE  TypeOK'
  <2>1. turn' \in [Bot -> Turn]
    <3>1. turn[b] \in Turn
      BY <1>0 DEF TypeOK
    <3>2. [turn[b] EXCEPT !.running = TRUE] \in Turn
      BY <3>1, TurnFlags
    <3> QED
      BY <1>0, <1>11, <3>2 DEF Prompted, TypeOK
  <2> QED
    BY <1>0, <1>11, <1>s, <2>1 DEF Prompted, TypeOK, bounds
<1>12. ASSUME NEW b \in Bot, NEW status \in {"completed", "failed", "cancelled"}, EndOf(b, status)
       PROVE  TypeOK'
  <2>1. status \in Notice
    BY DEF Notice
  <2>2. Idle \in Turn /\ NoTurn \in Active
    BY BegunIs DEF Idle, NoTurn, Active
  <2>3. turn' \in [Bot -> Turn] /\ active' \in [Bot -> Active] /\ marked' \in [Bot -> BOOLEAN]
    BY <1>0, <1>12, <2>2 DEF EndOf, TypeOK
  <2>4. CASE turn[b].kind = "request"
    <3>1. turn[b].id \in Request
      BY <2>4, Held DEF IInv, InTurn, TurnOK, Running
    <3>2. [cmd |-> "reply", id |-> turn[b].id] \in Command /\ req[turn[b].id].source \in Bot
      BY <1>0, <3>1 DEF Command, Item, TypeOK, Record
    <3>3. mailbox' \in [Bot -> Seq(Command)]
      <4>1. Tell(req[turn[b].id].source, "reply", turn[b].id) \/ mailbox' = mailbox
        BY <1>12, <2>4 DEF EndOf
      <4>2. mailbox \in [Bot -> Seq(Command)]
        BY <1>0 DEF TypeOK
      <4> QED
        BY <1>0, <3>2, <4>1, <4>2, TellIs
    <3>4. stage' \in [Request -> Stage] /\ notice' \in [Request -> [{"source", "target"} -> Notice]]
      BY <1>0, <1>12, <2>1, <2>4, OverIs DEF EndOf
    <3> QED
      BY <1>0, <1>12, <1>s, <2>3, <3>3, <3>4 DEF EndOf, TypeOK, bounds
  <2>5. CASE turn[b].kind # "request"
    BY <1>0, <1>12, <1>s, <2>3, <2>5 DEF EndOf, TypeOK, bounds
  <2> QED
    BY <2>4, <2>5
<1>13. ASSUME NEW resumed, Restart(resumed)
       PROVE  TypeOK'
  <2>1. /\ Idle \in Turn /\ NoTurn \in Active /\ Chat(0) \in Active
        /\ \A b \in Bot : Begun("user", 0, turn[b].depth) \in Turn
    <3>1. Idle \in Turn /\ NoTurn \in Active
      BY BegunIs DEF Idle, NoTurn, Active
    <3>2. Chat(0) \in Active
      BY TeamAssumption DEF Chat, Active, Hops
    <3>3. \A b \in Bot : turn[b].depth \in Nat
      BY <1>0 DEF TypeOK, Turn, Depth
    <3> QED
      BY <3>1, <3>2, <3>3, BegunIs
  <2>2. turn' \in [Bot -> Turn] /\ active' \in [Bot -> Active]
    BY <1>13, <2>1 DEF Restart
  <2>3. \A r \in Request : [side \in {"source", "target"} |-> Expired(notice[r][side])] \in [{"source", "target"} -> Notice]
    BY <1>0 DEF TypeOK, Expired, Notice
  <2>4. notice' \in [Request -> [{"source", "target"} -> Notice]]
    BY <1>13, <2>3 DEF Restart
  <2>5. stage' \in [Request -> Stage]
    BY <1>13 DEF Restart, Stage
  <2>6. mailbox' \in [Bot -> Seq(Command)] /\ queue' \in [Bot -> Seq(Item)]
    BY <1>13 DEF Restart
  <2>7. marked' \in [Bot -> BOOLEAN]
    BY <1>13 DEF Restart
  <2>8. crashes' \in 0..MaxCrashes
    BY <1>0, <1>13, TeamAssumption DEF Restart, TypeOK
  <2> QED
    BY <1>0, <1>13, <1>s, <2>2, <2>4, <2>5, <2>6, <2>7, <2>8 DEF Restart, TypeOK
<1>14. CASE UNCHANGED vars
  BY <1>0, <1>14 DEF vars, TypeOK
<1> QED
  BY <1>1, <1>2, <1>3, <1>4, <1>5, <1>6, <1>7, <1>8, <1>9, <1>10, <1>11, <1>12, <1>13, <1>14
     DEF Next, ActorStep, StartFails, TurnEnds

-----------------------------------------------------------------------------
(***************************************************************************)
(* The theorems.                                                           *)
(***************************************************************************)
LEMMA InitInv == Init => IInv
<1> SUFFICES ASSUME Init PROVE IInv
  OBVIOUS
<1>1. TypeOK
  <2>1. (CHOOSE b \in Bot : TRUE) \in Bot
    BY TeamAssumption
  <2>2. [source |-> CHOOSE b \in Bot : TRUE, target |-> CHOOSE b \in Bot : TRUE, hops |-> 0] \in Record
    BY <2>1, TeamAssumption DEF Record, Hops
  <2>3. req \in [Request -> Record]
    BY <2>2 DEF Init
  <2>4. Idle \in Turn /\ NoTurn \in Active
    BY BegunIs DEF Idle, NoTurn, Active
  <2>5. turn \in [Bot -> Turn] /\ active \in [Bot -> Active]
    BY <2>4 DEF Init
  <2>6. notice \in [Request -> [{"source", "target"} -> Notice]] /\ stage \in [Request -> Stage]
    BY DEF Init, Notice, Stage
  <2> QED
    BY <2>3, <2>5, <2>6, TeamAssumption DEF Init, TypeOK, Depth
<1>2. SlotsExact /\ WithinLimits
  <2>1. LiveRequests = {}
    BY DEF Init, LiveRequests, Live
  <2>2. \A b \in Bot : {r \in LiveRequests : req[r].source = b} = {}
    BY <2>1
  <2>3. Cardinality({}) = 0
    BY FS_EmptySet
  <2> QED
    BY <2>1, <2>2, <2>3, TeamAssumption DEF Init, SlotsExact, WithinLimits
<1>3. Lines
  <2> SUFFICES ASSUME NEW b \in Bot PROVE LineOK(b)
    BY DEF Lines
  <2>1. Line(b) = <<>>
    BY DEF Init, Line
  <2>2. Len(<<>>) = 0
    OBVIOUS
  <2> QED
    BY <2>1, <2>2 DEF LineOK
<1>4. InTurn
  BY DEF Init, InTurn, TurnOK, Idle, Begun
<1>5. Outcome
  BY DEF Init, Outcome, OutcomeOK
<1> QED
  BY <1>1, <1>2, <1>3, <1>4, <1>5 DEF IInv

LEMMA StepInv == IInv /\ [Next]_vars => IInv'
<1> SUFFICES ASSUME IInv, [Next]_vars PROVE IInv'
  OBVIOUS
<1>1. SlotsGood
  BY SlotsStep
<1>2. TypeOK'
  BY <1>1, TypeStep
<1>3. Lines' /\ InTurn' /\ Outcome'
  BY LinesStep, TurnStep, OutcomeStep
<1> QED
  BY <1>1, <1>2, <1>3 DEF IInv, SlotsGood

\* The inductive invariant holds in every reachable state.
THEOREM Invariant == Spec => []IInv
<1> QED
  BY InitInv, StepInv, PTL DEF Spec

\* Every variable keeps its type.
THEOREM TypeCorrect == Spec => []TypeOK
<1>1. IInv => TypeOK
  BY DEF IInv
<1> QED
  BY <1>1, Invariant, PTL

\* A slot is taken exactly as long as its request is pending (team/requests.rs:
\* reserve_message, release_message, Drop), for any bots and limits.
THEOREM SlotsCorrect == Spec => []SlotsExact
<1>1. IInv => SlotsExact
  BY DEF IInv
<1> QED
  BY <1>1, Invariant, PTL

\* The limits of pending requests hold (team/requests.rs: reserve_message).
THEOREM LimitsHold == Spec => []WithinLimits
<1>1. IInv => WithinLimits
  BY DEF IInv
<1> QED
  BY <1>1, Invariant, PTL

\* A request's reply wakes its sender at most once, and not when the recipient was stopped
\* (team/requests.rs: complete; agent/bot/queue.rs).
THEOREM RepliedOnce == Spec => []RepliesOnce
<1>1. IInv => RepliesOnce
  BY DEF IInv, Outcome, OutcomeOK, RepliesOnce, Cancelled
<1> QED
  BY <1>1, Invariant, PTL

\* What FinishedStays says of one step.
Stays ==
  \A r \in Request : \A side \in {"source", "target"} :
    notice[r][side] \in {"completed", "failed", "cancelled"} => notice'[r][side] = notice[r][side]

LEMMA StaysOver ==
  ASSUME IInv, NEW S \in SUBSET LiveRequests, NEW status, Over(S, status)
  PROVE  Stays
<1>1. \A r \in S : notice[r].source \in {"none", "queued", "sent"} /\ notice[r].target \in {"none", "queued", "sent"}
  BY DEF IInv, Outcome, OutcomeOK, LiveRequests, Live
<1> QED
  BY <1>1 DEF Stays, Over

LEMMA StaysStep ==
  ASSUME IInv, [Next]_vars
  PROVE  Stays
<1>0. /\ notice \in [Request -> [{"source", "target"} -> Notice]]
      /\ \A r \in Request : OutcomeOK(r)
  BY DEF IInv, TypeOK, Outcome
<1>1. ASSUME NEW r \in Request, SaveNotice(r)
      PROVE  Stays
  <2>1. OutcomeOK(r) /\ stage[r] # "over"
    BY <1>0, <1>1 DEF SaveNotice
  <2>2. CASE notice' = [notice EXCEPT ![r].source = "queued"]
    BY <1>0, <2>1, <2>2 DEF Stays, OutcomeOK
  <2>3. CASE notice' = [notice EXCEPT ![r].target = "queued"]
    BY <1>0, <2>1, <2>3 DEF Stays, OutcomeOK
  <2> QED
    BY <1>1, <2>2, <2>3 DEF SaveNotice
<1>2. ASSUME NEW r \in Request, NoticeFails(r) \/ DeliverFails(r)
      PROVE  Stays
  <2>1. {r} \in SUBSET LiveRequests /\ Over({r}, "cancelled")
    BY <1>2 DEF NoticeFails, DeliverFails, LiveRequests, Live
  <2> QED
    BY <2>1, StaysOver
<1>3. ASSUME notice' = notice
      PROVE  Stays
  BY <1>3 DEF Stays
<1>4. ASSUME NEW b \in Bot, HandleStop(b) \/ HandleShutdown(b)
      PROVE  Stays
  <2>1. /\ RequestsIn(queue[b]) \in SUBSET LiveRequests
        /\ mailbox[b] # <<>> =>
             RequestsIn(queue[b]) \cup RequestsIn(Tail(mailbox[b])) \cup ({turn[b].id} \ {0}) \in SUBSET LiveRequests
    BY Held DEF Waiting, Running, LiveRequests, Live
  <2>2. CASE HandleStop(b)
    BY <2>1, <2>2, StaysOver DEF HandleStop
  <2>3. CASE HandleShutdown(b)
    BY <2>1, <2>3, StaysOver DEF HandleShutdown, Take
  <2> QED
    BY <1>4, <2>2, <2>3
<1>5. ASSUME NEW b \in Bot, StartRequestTurn(b)
      PROVE  Stays
  <2> DEFINE r == Head(queue[b]).id
  <2>1. r \in Request /\ stage[r] = "waiting"
    BY <1>5, FirstItem DEF StartRequestTurn, ItemOK
  <2>2. OutcomeOK(r) /\ notice' = [notice EXCEPT ![r] = Ended(r, "sent")]
    BY <1>0, <1>5, <2>1 DEF StartRequestTurn
  <2> HIDE DEF r
  <2> QED
    BY <1>0, <2>1, <2>2 DEF Stays, OutcomeOK
<1>6. ASSUME NEW b \in Bot, NEW status, EndOf(b, status)
      PROVE  Stays
  <2>1. CASE turn[b].kind = "request"
    <3>1. {turn[b].id} \in SUBSET LiveRequests
      BY <2>1, Held DEF IInv, InTurn, TurnOK, Running, LiveRequests, Live
    <3> QED
      BY <1>6, <2>1, <3>1, StaysOver DEF EndOf
  <2>2. CASE turn[b].kind # "request"
    BY <1>3, <1>6, <2>2 DEF EndOf
  <2> QED
    BY <2>1, <2>2
<1>7. ASSUME NEW resumed, Restart(resumed)
      PROVE  Stays
  BY <1>7 DEF Restart, Stays, Expired
<1> QED
  BY <1>1, <1>2, <1>3, <1>4, <1>5, <1>6, <1>7
     DEF Next, ActorStep, StartFails, TurnEnds, Deliver, Reserve, UserWrites, UserStops, DeleteBot, Enqueue,
         StartUserTurn, StartReplyTurn, Prompted, vars

\* A finished exchange is never changed: not by a late start, a Stop, a deletion or a
\* restart (team/requests.rs: finish; store/entries.rs: expire_pending).
THEOREM OutcomesStay == Spec => FinishedStays
<1>1. IInv /\ [Next]_vars => [Stays]_vars
  BY StaysStep
<1> QED
  BY <1>1, Invariant, PTL DEF Spec, FinishedStays, Stays

-----------------------------------------------------------------------------
(***************************************************************************)
(* Chains.  A turn that may send stands at least as far in its chain as    *)
(* the handoffs that led to it, and so does every request.  A restart      *)
(* breaks this: the resumed turn starts a chain of its own.                *)
(***************************************************************************)
Placed ==
  /\ \A r \in Request : depth[r] <= req[r].hops
  /\ \A b \in Bot : active[b].kind = "chat" => turn[b].depth <= active[b].hops

LEMMA PlacedStep ==
  ASSUME IInv, Placed, [Next]_vars, MaxCrashes = 0
  PROVE  Placed'
<1>0. /\ req \in [Request -> Record] /\ depth \in [Request -> Nat] /\ turn \in [Bot -> Turn]
      /\ active \in [Bot -> Active] /\ crashes \in 0..MaxCrashes
  BY DEF IInv, TypeOK, Depth
<1>1. ASSUME NEW b \in Bot, NEW target \in Bot, NEW r \in Request, Reserve(b, target, r)
      PROVE  Placed'
  <2>1. /\ turn[b].depth \in Nat /\ active[b].hops \in Nat /\ active[b].kind = "chat"
        /\ active' = active /\ turn' = turn
    BY <1>0, <1>1 DEF Reserve, Turn, Depth, Active, Hops, actors
  <2>2. turn[b].depth + 1 <= active[b].hops + 1
    BY <2>1 DEF Placed
  <2>3. PICK z : z = [source |-> b, target |-> target, hops |-> active[b].hops + 1]
    OBVIOUS
  <2>4. depth' = [depth EXCEPT ![r] = turn[b].depth + 1] /\ req' = [req EXCEPT ![r] = z]
    BY <1>1, <2>3 DEF Reserve
  <2>5. z.hops = active[b].hops + 1
    BY <2>3
  <2>6. \A k \in Request : depth'[k] <= req'[k].hops
    BY <1>0, <2>2, <2>4, <2>5 DEF Placed
  <2> QED
    BY <2>1, <2>6 DEF Placed
<1>2. ASSUME depth' = depth, req' = req, active' = active, turn' = turn
      PROVE  Placed'
  BY <1>2 DEF Placed
<1>3. ASSUME NEW b \in Bot, NEW t, depth' = depth, req' = req,
             turn' = [turn EXCEPT ![b] = t], active' = [active EXCEPT ![b] = NoTurn]
      PROVE  Placed'
  <2>1. NoTurn.kind # "chat"
    BY DEF NoTurn
  <2> QED
    BY <1>0, <1>3, <2>1 DEF Placed
<1>4. ASSUME NEW b \in Bot, DeleteBot(b)
      PROVE  Placed'
  <2>1. active' = [active EXCEPT ![b] = NoTurn] /\ NoTurn.kind # "chat"
    BY <1>4 DEF DeleteBot, NoTurn
  <2> QED
    BY <1>0, <1>4, <2>1 DEF DeleteBot, Placed
<1>5. ASSUME NEW b \in Bot, HandleStop(b)
      PROVE  Placed'
  <2>1. active' = [active EXCEPT ![b] = NoTurn] /\ NoTurn.kind # "chat"
    BY <1>5 DEF HandleStop, NoTurn
  <2>2. \A c \in Bot : c # b => turn'[c] = turn[c]
    BY <1>0, <1>5 DEF HandleStop
  <2> QED
    BY <1>0, <1>5, <2>1, <2>2 DEF HandleStop, Placed
<1>6. ASSUME NEW b \in Bot, Prompted(b)
      PROVE  Placed'
  <2>1. \A c \in Bot : turn'[c].depth = turn[c].depth
    BY <1>0, <1>6 DEF Prompted, Turn
  <2> QED
    BY <1>6, <2>1 DEF Prompted, Placed
<1>7. ASSUME NEW b \in Bot, StartUserTurn(b)
      PROVE  Placed'
  <2>1. /\ depth' = depth /\ req' = req
        /\ turn' = [turn EXCEPT ![b] = Begun("user", 0, 0)] /\ active' = [active EXCEPT ![b] = Chat(0)]
    BY <1>7 DEF StartUserTurn
  <2>2. Begun("user", 0, 0).depth = 0 /\ Chat(0).hops = 0
    BY DEF Begun, Chat
  <2> QED
    BY <1>0, <2>1, <2>2 DEF Placed
<1>8. ASSUME NEW b \in Bot, StartReplyTurn(b)
      PROVE  Placed'
  <2> DEFINE d == Highest({depth[r] : r \in FirstIds(b)})
             h == ReplyHops(b)
  <2>1. /\ depth' = depth /\ req' = req
        /\ turn' = [turn EXCEPT ![b] = Begun("reply", 0, d)] /\ active' = [active EXCEPT ![b] = Chat(h)]
    BY <1>8 DEF StartReplyTurn
  <2>2. d <= h
    <3>1. PICK r \in FirstIds(b) : d = depth[r]
      BY <1>8, Furthest
    <3>2. r \in Request /\ req[r].hops <= h /\ \E k \in Request : h = req[k].hops
      BY <1>8, Furthest
    <3>3. depth[r] \in Nat /\ req[r].hops \in Nat /\ h \in Nat
      BY <1>0, <3>2 DEF Record, Hops
    <3>4. depth[r] <= req[r].hops
      BY <3>2 DEF Placed
    <3> HIDE DEF d, h
    <3> QED
      BY <3>1, <3>2, <3>3, <3>4
  <2> HIDE DEF d, h
  <2>3. Begun("reply", 0, d).depth = d /\ Chat(h).hops = h
    BY DEF Begun, Chat
  <2> QED
    BY <1>0, <2>1, <2>2, <2>3 DEF Placed
<1>9. ASSUME NEW b \in Bot, StartRequestTurn(b)
      PROVE  Placed'
  <2>1. active'[b].kind # "chat" /\ \A c \in Bot : c # b => active'[c] = active[c] /\ turn'[c] = turn[c]
    BY <1>0, <1>9 DEF StartRequestTurn
  <2> QED
    BY <1>0, <1>9, <2>1 DEF StartRequestTurn, Placed
<1>10. ASSUME NEW resumed, Restart(resumed)
       PROVE  FALSE
  BY <1>0, <1>10 DEF Restart
<1> QED
  BY <1>1, <1>2, <1>3, <1>4, <1>5, <1>6, <1>7, <1>8, <1>9, <1>10
     DEF Next, ActorStep, StartFails, TurnEnds, EndOf, SaveNotice, NoticeFails, Deliver, DeliverFails, UserWrites,
         UserStops, Enqueue, HandleShutdown, actors, vars

\* "Bot request chains can make at most eight handoffs" (docs/features/bot-collaboration.md;
\* team/requests.rs: reserve_message), as long as the host is not restarted.
THEOREM ChainsEnd == ASSUME MaxCrashes = 0 PROVE Spec => []ChainsBounded
<1>1. Init => Placed
  <2> SUFFICES ASSUME Init PROVE Placed
    OBVIOUS
  <2>1. \A r \in Request : depth[r] = 0 /\ req[r].hops = 0
    BY DEF Init
  <2>2. \A b \in Bot : active[b].kind = "none"
    BY DEF Init, NoTurn
  <2> QED
    BY <2>1, <2>2 DEF Placed
<1>2. IInv /\ Placed /\ [Next]_vars => Placed'
  BY PlacedStep
<1>3. IInv /\ Placed => ChainsBounded
  <2> SUFFICES ASSUME IInv, Placed, NEW r \in Request PROVE depth[r] <= MAX_REQUEST_HOPS
    BY DEF ChainsBounded
  <2>1. depth[r] \in Nat /\ req[r].hops \in Hops /\ depth[r] <= req[r].hops
    BY DEF IInv, TypeOK, Record, Depth, Placed
  <2> QED
    BY <2>1, TeamAssumption DEF Hops
<1> QED
  BY <1>1, <1>2, <1>3, Invariant, PTL DEF Spec
=============================================================================
