----------------------------- MODULE SyncProofs -----------------------------
(***************************************************************************)
(* Proofs about Sync, for any bots, numbers and bounds.                    *)
(*                                                                         *)
(* Known: every variable has its type, events come in the order of their   *)
(* revisions, and a copy that is anywhere is not newer than its row.       *)
(*                                                                         *)
(* Heard: the bots.  A bot that the cursor has passed is known as it is,   *)
(* or its event is yet to come on this stream, or it was lost with one     *)
(* (Racer, HostHeard and ReceiveHeard).                                    *)
(*                                                                         *)
(* Windows: the entries.  What the cursor has passed is held, or below all *)
(* that is held (Whole), which needs to know what is on its way (News,     *)
(* FromNothing), that everything below a floor is missing (Floored), that  *)
(* a chat is never left without an entry (Tops), and how new the copies    *)
(* next to a gap can be (Gaps).                                            *)
(*                                                                         *)
(* With both, a client that has nothing left to take is in step.           *)
(***************************************************************************)
EXTENDS Sync, RankLemmas, FiniteSetTheorems, SequenceTheorems, TLAPS

-----------------------------------------------------------------------------
(* What is on its way. *)

Event == BotEvent \cup EntryEvent \cup {Hello}
\* The events of a list that tell of a revision: all but hello.
Told(q) == {v \in {q[i] : i \in 1..Len(q)} : v.t # "hello"}
\* They come in the order of their revisions, after hello.
Rising(q) ==
  /\ \A i \in 1..Len(q) : q[i].t = "hello" => i = 1
  /\ \A i, j \in 1..Len(q) : i < j /\ q[i].t # "hello" => q[i].rev < q[j].rev

LEMMA Kinds ==
  /\ \A v \in BotEvent : v.t = "bot" /\ v.bot \in Bot /\ v.rev \in Nat /\ v.rev \in Rev /\ v.deleted \in BOOLEAN
  /\ \A v \in EntryEvent : v.t = "entry" /\ v.seq \in Seqno /\ v.seq \in Nat /\ v.bot \in Bot /\ v.rev \in Nat /\ v.rev \in Rev
  /\ Hello.t = "hello" /\ Hello \in Event
  /\ BotEvent \subseteq Event /\ EntryEvent \subseteq Event
  /\ \A v \in Event : /\ v.t # "hello" => v \in BotEvent \cup EntryEvent
                      /\ v.t = "hello" => v = Hello
                      /\ v.t = "bot" => v \in BotEvent
                      /\ v.t = "entry" => v \in EntryEvent
  /\ NoAnswer \notin EntryEvent
<1>1. \A v \in BotEvent : v.t = "bot" /\ v.bot \in Bot /\ v.rev \in Nat /\ v.rev \in Rev /\ v.deleted \in BOOLEAN
  BY SyncAssumption DEF BotEvent, Rev
<1>2. \A v \in EntryEvent : v.t = "entry" /\ v.seq \in Seqno /\ v.seq \in Nat /\ v.bot \in Bot /\ v.rev \in Nat /\ v.rev \in Rev
  BY SyncAssumption DEF EntryEvent, Rev, Seqno
<1>3. Hello.t = "hello"
  BY DEF Hello
<1>4. NoAnswer.t = "none"
  BY DEF NoAnswer
<1>5. NoAnswer \notin EntryEvent
  BY <1>2, <1>4
<1> QED
  BY <1>1, <1>2, <1>3, <1>5 DEF Event

LEMMA ToldTypes ==
  ASSUME NEW q \in Seq(Event)
  PROVE  Told(q) \subseteq BotEvent \cup EntryEvent
<1>1. \A i \in 1..Len(q) : q[i] \in Event
  OBVIOUS
<1> QED
  BY <1>1, Kinds DEF Told

LEMMA ToldNone == Told(<<>>) = {} /\ Rising(<<>>)
BY DEF Told, Rising

\* Taking the first event.
LEMMA TailTold ==
  ASSUME NEW q \in Seq(Event), q # <<>>, Rising(q)
  PROVE  /\ Head(q) \in Event /\ Tail(q) \in Seq(Event) /\ Rising(Tail(q)) /\ Len(Tail(q)) = Len(q) - 1
         /\ Told(q) = Told(Tail(q)) \cup (IF Head(q).t = "hello" THEN {} ELSE {Head(q)})
         /\ Head(q).t # "hello" => \A v \in Told(Tail(q)) : Head(q).rev < v.rev
<1> DEFINE r == Tail(q)
<1>1. /\ Head(q) = q[1] /\ Head(q) \in Event /\ r \in Seq(Event) /\ Len(q) \in Nat \ {0}
      /\ Len(r) = Len(q) - 1 /\ \A i \in 1..Len(r) : r[i] = q[i + 1]
  OBVIOUS
<1> HIDE DEF r
<1>2. \A i \in 1..Len(r) : i + 1 \in 1..Len(q) /\ r[i].t # "hello"
  BY <1>1 DEF Rising
<1>3. Rising(r)
  <2>1. ASSUME NEW i \in 1..Len(r), NEW j \in 1..Len(r), i < j
        PROVE  r[i].rev < r[j].rev
    <3>1. i + 1 \in 1..Len(q) /\ j + 1 \in 1..Len(q) /\ i + 1 < j + 1 /\ q[i + 1].t # "hello"
      BY <1>1, <1>2, <2>1
    <3>2. q[i + 1].rev < q[j + 1].rev
      BY <3>1 DEF Rising
    <3> QED
      BY <1>1, <3>2
  <2> QED
    BY <1>2, <2>1 DEF Rising
<1>4. Told(q) = Told(r) \cup (IF Head(q).t = "hello" THEN {} ELSE {Head(q)})
  <2>1. ASSUME NEW v \in Told(q)
        PROVE  v \in Told(r) \cup (IF Head(q).t = "hello" THEN {} ELSE {Head(q)})
    <3>1. PICK i \in 1..Len(q) : v = q[i] /\ q[i].t # "hello"
      BY DEF Told
    <3>2. CASE i = 1
      BY <1>1, <3>1, <3>2
    <3>3. CASE i # 1
      <4>1. i - 1 \in 1..Len(r) /\ r[i - 1] = q[i]
        BY <1>1, <3>3
      <4> QED
        BY <3>1, <4>1 DEF Told
    <3> QED
      BY <3>2, <3>3
  <2>2. ASSUME NEW v \in Told(r)
        PROVE  v \in Told(q)
    <3>1. PICK i \in 1..Len(r) : v = r[i] /\ r[i].t # "hello"
      BY DEF Told
    <3>2. i + 1 \in 1..Len(q) /\ v = q[i + 1]
      BY <1>1, <1>2, <3>1
    <3> QED
      BY <3>1, <3>2 DEF Told
  <2>3. Head(q).t # "hello" => Head(q) \in Told(q)
    <3>1. 1 \in 1..Len(q)
      BY <1>1
    <3> QED
      BY <1>1, <3>1 DEF Told
  <2> QED
    BY <2>1, <2>2, <2>3
<1>5. ASSUME Head(q).t # "hello", NEW v \in Told(r)
      PROVE  Head(q).rev < v.rev
  <2>1. PICK i \in 1..Len(r) : v = r[i]
    BY DEF Told
  <2>2. 1 \in 1..Len(q) /\ i + 1 \in 1..Len(q) /\ 1 < i + 1 /\ v = q[i + 1]
    BY <1>1, <1>2, <2>1
  <2>3. q[1].rev < q[i + 1].rev
    BY <1>1, <1>5, <2>2 DEF Rising
  <2> QED
    BY <1>1, <2>2, <2>3
<1> QED
  BY <1>1, <1>3, <1>4, <1>5 DEF r

\* Putting an event at the end.
LEMMA AppendTold ==
  ASSUME NEW q \in Seq(Event), Rising(q), NEW x \in BotEvent \cup EntryEvent, \A v \in Told(q) : v.rev < x.rev,
         \A i \in 1..Len(q) : q[i].t # "hello"
  PROVE  /\ Append(q, x) \in Seq(Event) /\ Rising(Append(q, x)) /\ Len(Append(q, x)) = Len(q) + 1
         /\ Append(q, x) # <<>> /\ Told(Append(q, x)) = Told(q) \cup {x}
         /\ \A i \in 1..Len(Append(q, x)) : Append(q, x)[i].t # "hello"
<1> DEFINE r == Append(q, x)
<1>1. x \in Event /\ x.t # "hello"
  BY Kinds
<1>2. /\ r \in Seq(Event) /\ Len(r) = Len(q) + 1 /\ Len(q) \in Nat /\ r[Len(q) + 1] = x
      /\ \A i \in 1..Len(q) : r[i] = q[i]
  BY <1>1, AppendProperties
<1> HIDE DEF r
<1>3. \A i \in 1..Len(r) : i \in 1..Len(q) \/ i = Len(q) + 1
  BY <1>2
<1>4. \A i \in 1..Len(r) : r[i].t # "hello"
  BY <1>1, <1>2, <1>3
<1>5. ASSUME NEW i \in 1..Len(r), NEW j \in 1..Len(r), i < j
      PROVE  r[i].rev < r[j].rev
  <2>1. i \in 1..Len(q)
    BY <1>2, <1>5
  <2>2. CASE j \in 1..Len(q)
    BY <1>2, <1>5, <2>1, <2>2 DEF Rising
  <2>3. CASE j = Len(q) + 1
    <3>1. q[i] \in Told(q)
      BY <2>1 DEF Told
    <3> QED
      BY <1>2, <2>1, <2>3, <3>1
  <2> QED
    BY <1>3, <2>2, <2>3
<1>6. Told(r) = Told(q) \cup {x}
  <2>1. ASSUME NEW v \in Told(r)
        PROVE  v \in Told(q) \cup {x}
    <3>1. PICK i \in 1..Len(r) : v = r[i] /\ r[i].t # "hello"
      BY DEF Told
    <3> QED
      BY <1>2, <1>3, <3>1 DEF Told
  <2>2. ASSUME NEW v \in Told(q)
        PROVE  v \in Told(r)
    <3>1. PICK i \in 1..Len(q) : v = q[i] /\ q[i].t # "hello"
      BY DEF Told
    <3>2. i \in 1..Len(r) /\ v = r[i]
      BY <1>2, <3>1
    <3> QED
      BY <3>1, <3>2 DEF Told
  <2>3. x \in Told(r)
    <3>1. Len(q) + 1 \in 1..Len(r)
      BY <1>2
    <3> QED
      BY <1>1, <1>2, <3>1 DEF Told
  <2> QED
    BY <2>1, <2>2, <2>3
<1>7. r # <<>>
  BY <1>2
<1> QED
  BY <1>2, <1>4, <1>5, <1>6, <1>7 DEF Rising, r

LEMMA FewRevisions ==
  ASSUME NEW E \in SUBSET (BotEvent \cup EntryEvent), \A v, w \in E : v.rev = w.rev => v = w
  PROVE  IsFiniteSet(E)
<1> DEFINE key == [v \in E |-> v.rev]
<1>1. key \in Injection(E, Rev)
  BY Kinds DEF Injection, IsInjective
<1>2. IsFiniteSet(Rev)
  BY FS_Interval, SyncAssumption DEF Rev
<1> QED
  BY <1>1, <1>2, FS_Injection

\* A set of events in the order of their revisions: each of them, once.
LEMMA SortedTold ==
  ASSUME NEW E \in SUBSET (BotEvent \cup EntryEvent), \A v, w \in E : v.rev = w.rev => v = w
  PROVE  LET q == <<Hello>> \o Sorted(E)
         IN  /\ q \in Seq(Event) /\ Rising(q) /\ Told(q) = E /\ q # <<>> /\ Head(q) = Hello
             /\ E # {} => Len(q) > 1
<1> DEFINE key == [v \in E |-> v.rev]
           n == Cardinality(E)
           place(v) == Cardinality({w \in E : w.rev < v.rev})
           r == Sorted(E)
           q == <<Hello>> \o r
<1>1. IsFiniteSet(E) /\ n \in Nat
  BY FewRevisions, FS_CardinalityType
<1>2. key \in [E -> Int] /\ (\A x, y \in E : key[x] = key[y] => x = y) /\ \A x \in E : key[x] = x.rev /\ key[x] \in Int
  BY Kinds
<1>3. \A x \in E : {w \in E : w.rev < x.rev} = Below(E, key, x)
  BY DEF Below
<1>4. \A x \in E : place(x) = Cardinality(Below(E, key, x))
  BY <1>3
<1> HIDE DEF place, key, n
<1>5. \A i \in 1..n : \E x \in E : place(x) = i - 1
  <2>1. TAKE i \in 1..n
  <2>2. \E x \in E : Cardinality(Below(E, key, x)) = i - 1
    BY <1>1, <1>2, <2>1, RankExists DEF n
  <2> QED
    BY <1>4, <2>2
<1>6. ASSUME NEW x \in E, NEW y \in E
      PROVE  place(x) \in 0..n - 1 /\ (key[x] < key[y] => place(x) < place(y))
  <2>1. Cardinality(Below(E, key, x)) \in Nat /\ Cardinality(Below(E, key, x)) < n
    BY <1>1, <1>2, RankBound DEF n
  <2>2. key[x] < key[y] => Cardinality(Below(E, key, x)) < Cardinality(Below(E, key, y))
    BY <1>1, <1>2, RankMonotone
  <2> QED
    BY <1>1, <1>4, <2>1, <2>2
<1>7. r = [i \in 1..n |-> CHOOSE v \in E : place(v) = i - 1]
  BY DEF Sorted, place, n
<1>8. \A i \in 1..n : r[i] \in E /\ place(r[i]) = i - 1
  <2>1. TAKE i \in 1..n
  <2>2. PICK x \in E : place(x) = i - 1
    BY <1>5
  <2>3. r[i] = CHOOSE v \in E : place(v) = i - 1
    BY <1>7
  <2> QED
    BY <2>2, <2>3
<1>9. r \in Seq(E) /\ Len(r) = n
  <2> DEFINE item(i) == CHOOSE v \in E : place(v) = i - 1
  <2>1. \A i \in 1..n : item(i) \in E
    BY <1>5
  <2>2. r = [i \in 1..n |-> item(i)]
    BY <1>7
  <2> HIDE DEF item
  <2> QED
    BY <1>1, <2>1, <2>2
<1> HIDE DEF r
<1>10. E \subseteq Event /\ \A v \in E : v.t # "hello"
  BY Kinds DEF Event
<1>11. /\ q \in Seq(Event) /\ Len(q) = n + 1 /\ q[1] = Hello
       /\ \A i \in 1..Len(q) : i # 1 => i - 1 \in 1..n /\ q[i] = r[i - 1]
  <2>1. <<Hello>> \in Seq(Event) /\ r \in Seq(Event) /\ Len(<<Hello>>) = 1 /\ <<Hello>>[1] = Hello
    BY <1>9, <1>10, Kinds
  <2> QED
    BY <1>1, <1>9, <2>1, ConcatProperties
<1>12. q # <<>> /\ Head(q) = Hello
  BY <1>1, <1>11
<1> HIDE DEF q
<1>13. \A i \in 1..Len(q) : q[i].t = "hello" => i = 1
  BY <1>8, <1>10, <1>11
<1>14. ASSUME NEW i \in 1..Len(q), NEW j \in 1..Len(q), i < j, q[i].t # "hello"
       PROVE  q[i].rev < q[j].rev
  <2>1. i # 1 /\ j # 1
    BY <1>11, <1>14, Kinds
  <2>2. PICK x \in E : x = q[i] /\ place(x) = i - 2
    BY <1>8, <1>11, <2>1
  <2>3. PICK y \in E : y = q[j] /\ place(y) = j - 2
    BY <1>8, <1>11, <2>1
  <2>4. place(x) < place(y) /\ place(x) \in 0..n - 1 /\ place(y) \in 0..n - 1
    BY <1>6, <1>14, <2>2, <2>3
  <2>5. ~(key[y] < key[x])
    BY <1>1, <1>6, <2>4
  <2>6. key[x] # key[y]
    BY <1>1, <1>2, <2>4
  <2>7. key[x] < key[y]
    BY <1>2, <2>5, <2>6
  <2> QED
    BY <1>2, <2>2, <2>3, <2>7
<1>15. Told(q) = E
  <2>1. ASSUME NEW v \in Told(q)
        PROVE  v \in E
    <3>1. PICK i \in 1..Len(q) : v = q[i] /\ v.t # "hello"
      BY DEF Told
    <3>2. i # 1
      BY <1>11, <3>1, Kinds
    <3> QED
      BY <1>8, <1>11, <3>1, <3>2
  <2>2. ASSUME NEW v \in E
        PROVE  v \in Told(q)
    <3>1. place(v) \in 0..n - 1
      BY <1>6
    <3>2. PICK i \in 1..n : i = place(v) + 1
      BY <1>1, <3>1
    <3>3. PICK x \in E : x = r[i] /\ place(x) = i - 1
      BY <1>8
    <3>4. ~(key[x] < key[v]) /\ ~(key[v] < key[x])
      BY <1>1, <1>6, <3>1, <3>2, <3>3
    <3>5. x = v
      BY <1>2, <3>4
    <3>6. PICK k \in 1..Len(q) : k = i + 1
      BY <1>1, <1>11
    <3>7. k # 1 /\ k - 1 = i
      BY <3>6
    <3>8. q[k] = v
      BY <1>11, <3>3, <3>5, <3>7
    <3> QED
      BY <1>10, <3>8 DEF Told
  <2> QED
    BY <2>1, <2>2
<1>16. E # {} => n # 0
  BY <1>1, FS_EmptySet DEF n
<1>17. E # {} => Len(q) > 1
  BY <1>1, <1>11, <1>16
<1>18. Rising(q)
  BY <1>13, <1>14 DEF Rising
<1> QED
  BY <1>11, <1>12, <1>15, <1>17, <1>18 DEF q, r

-----------------------------------------------------------------------------
(* The rows, and what was told of them. *)

\* No two writes have the same revision, and a deleted bot has no entries.
Rows ==
  /\ \A b \in Bot : bots[b].rev <= rev /\ (bots[b].deleted => bots[b].rev # 0)
  /\ \A s \in Seqno : entries[s].rev <= rev /\ (entries[s].rev # 0 => s <= added /\ ~bots[BotOf(s)].deleted)
  /\ \A a, b \in Bot : bots[a].rev # 0 /\ bots[a].rev = bots[b].rev => a = b
  /\ \A s, q \in Seqno : entries[s].rev # 0 /\ entries[s].rev = entries[q].rev => s = q
  /\ \A s \in Seqno, b \in Bot : entries[s].rev # 0 => entries[s].rev # bots[b].rev
  /\ \E b \in Bot : bots[b].rev # 0

\* An event tells of a version the host has had.
FitBot(v) ==
  /\ v.rev > 0 /\ v.rev <= bots[v.bot].rev /\ (v.deleted => bots[v.bot].deleted)
  /\ v.rev = bots[v.bot].rev => (v.deleted <=> bots[v.bot].deleted)
FitCopy(s, r) == s <= added /\ r <= rev /\ (r <= entries[s].rev \/ bots[BotOf(s)].deleted)
FitEntry(v) == v.rev > 0 /\ v.bot = BotOf(v.seq) /\ FitCopy(v.seq, v.rev)
Fit(v) == IF v.t = "bot" THEN FitBot(v) ELSE FitEntry(v)
FitMirror(m) == \A s \in Seqno : m.entries[s] # 0 => FitCopy(s, m.entries[s])
Fits ==
  /\ \A v \in read \cup Told(feed) \cup Told(live) : Fit(v)
  /\ answer # NoAnswer => FitEntry(answer)
  /\ FitMirror(mirror) /\ FitMirror(cache)

\* What is on its way comes in order, and the catch-up is ahead of the cursor.
Lists ==
  /\ Rising(feed) /\ Rising(live)
  /\ \A v \in Told(feed) : mirror.cursor < v.rev
  /\ \A v, w \in read : v.rev = w.rev => v = w
  /\ \A v \in read : asked < v.rev /\ \A s \in Seqno : entries[s].rev # v.rev
Stages ==
  /\ stage = "none" => live = <<>> /\ ~lagged /\ racing = {}
  /\ stage # "open" => feed = <<>>
  /\ stage # "bots" => read = {}
  /\ stage \in {"subscribed", "bots"} => asked = mirror.cursor
  /\ stage # "none" => asked <= mirror.cursor
  /\ cache.cursor <= mirror.cursor
  /\ stage = "bots" /\ asked = 0 => read # {}
  /\ asked = 0 /\ feed # <<>> => Head(feed).t # "hello" \/ Told(feed) # {}
Known == TypeOK /\ Rows /\ Fits /\ Lists /\ Stages

-----------------------------------------------------------------------------
(* A write of the host. *)

BotNow(b) == [t |-> "bot", bot |-> b, rev |-> bots[b].rev, deleted |-> bots[b].deleted]
EntryNow(s) == [t |-> "entry", seq |-> s, bot |-> BotOf(s), rev |-> entries[s].rev]

\* The rows only get newer, or are deleted with their bot.
Grew ==
  /\ rev' = rev + 1 /\ rev' \in Rev /\ added' \in 0..MaxEntries /\ added <= added'
  /\ bots' \in [Bot -> [rev : Rev, deleted : BOOLEAN]] /\ entries' \in [Seqno -> Row]
  /\ \A b \in Bot : bots'[b] = bots[b] \/ (bots'[b].rev = rev + 1 /\ (bots[b].deleted => bots'[b].deleted))
  /\ \A s \in Seqno : s <= added => entries'[s].bot = entries[s].bot
  /\ \A s \in Seqno :
       \/ entries'[s] = entries[s]
       \/ entries'[s].rev = rev + 1 /\ s <= added' /\ ~bots'[entries'[s].bot].deleted /\ (s <= added => entries[s].rev # 0)
       \/ entries'[s].rev = 0 /\ entries[s].rev # 0 /\ bots'[entries'[s].bot].deleted
  /\ \A s \in Seqno : entries'[s].rev # 0 => s <= added' /\ ~bots'[entries'[s].bot].deleted

\* What becomes of an event that is published.
Said(v) ==
  /\ live' \in Seq(BotEvent \cup EntryEvent) /\ Len(live') <= Buffer /\ lagged' \in BOOLEAN /\ Rising(live')
  /\ Told(live') \subseteq Told(live) \cup {v}
  /\ stage = "none" => live' = live /\ lagged' = lagged
  /\ stage # "none" => v \in Told(live')
  /\ lagged => lagged'
  /\ ~lagged' => Told(live) \subseteq Told(live')
  /\ racing' = racing \cup (IF stage \in {"subscribed", "bots"} /\ v.t = "bot" THEN {v.bot} ELSE {})

\* Whose row a step writes, it tells.
Tells(v) ==
  /\ v.rev = rev + 1 /\ Said(v) /\ Fit(v)'
  /\ \A b \in Bot : bots'[b] # bots[b] => v = BotNow(b)'
  /\ \A b \in saving \ saving' : v = BotNow(b)'
  /\ saving' \subseteq saving
  /\ \A s \in Seqno : entries'[s] # entries[s] => entries'[s].rev = 0 \/ v = EntryNow(s)'
  /\ answer' = answer \/ (answer = NoAnswer /\ answer' = v /\ v.t = "entry" /\ v.seq > added)
Saves ==
  /\ UNCHANGED <<live, lagged, racing, answer, entries, added>>
  /\ \A b \in Bot : bots'[b] # bots[b] => b \in saving'
  /\ saving \subseteq saving' /\ saving' \subseteq Bot

HostMoves ==
  /\ Grew
  /\ UNCHANGED <<stage, read, feed, client, cache, bounds, atSave, skipped, strayed, partial>>
  /\ Saves \/ \E v \in BotEvent \cup EntryEvent : Tells(v)

LEMMA PublishSays ==
  ASSUME Known, NEW v \in BotEvent \cup EntryEvent, v.rev = rev + 1, Publish(v)
  PROVE  Said(v)
<1> USE SyncAssumption DEF Known
<1>1. /\ live \in Seq(BotEvent \cup EntryEvent) /\ live \in Seq(Event) /\ Len(live) \in Nat /\ Len(live) <= Buffer
      /\ lagged \in BOOLEAN /\ Rising(live) /\ rev \in Nat
      /\ \A i \in 1..Len(live) : live[i].t # "hello"
  <2>1. live \in Seq(BotEvent \cup EntryEvent) /\ Len(live) <= Buffer /\ lagged \in BOOLEAN /\ rev \in Nat
    BY DEF TypeOK, Rev
  <2>2. BotEvent \cup EntryEvent \subseteq Event
    BY Kinds
  <2>3. live \in Seq(Event)
    BY <2>1, <2>2, SeqMonotonic
  <2>4. \A i \in 1..Len(live) : live[i] \in BotEvent \cup EntryEvent
    BY <2>1
  <2> QED
    BY <2>1, <2>3, <2>4, Kinds, LenProperties DEF Lists
<1>2. \A w \in Told(live) : w.rev < v.rev
  <2>1. \A w \in Told(live) : w \in BotEvent \cup EntryEvent /\ Fit(w)
    BY <1>1, ToldTypes DEF Fits
  <2>2. \A w \in Told(live) : w.rev <= rev
    <3>1. ASSUME NEW w \in Told(live)
          PROVE  w.rev <= rev
      <4>1. CASE w \in BotEvent
        <5>1. w.rev <= bots[w.bot].rev /\ bots[w.bot].rev <= rev /\ bots[w.bot].rev \in Nat
          BY <2>1, <4>1, Kinds DEF Fit, FitBot, Rows, TypeOK, Rev
        <5> QED
          BY <1>1, <4>1, <5>1, Kinds
      <4>2. CASE w \in EntryEvent
        BY <2>1, <4>2, Kinds DEF Fit, FitEntry, FitCopy
      <4> QED
        BY <2>1, <4>1, <4>2
    <3> QED
      BY <3>1
  <2>3. \A w \in Told(live) : w.rev \in Nat
    BY <2>1, Kinds
  <2> QED
    BY <1>1, <2>2, <2>3
<1> DEFINE q == Append(live, v)
<1>3. /\ q \in Seq(Event) /\ Rising(q) /\ Len(q) = Len(live) + 1 /\ q # <<>> /\ Told(q) = Told(live) \cup {v}
      /\ \A i \in 1..Len(q) : q[i].t # "hello"
  BY <1>1, <1>2, AppendTold
<1>4. q \in Seq(BotEvent \cup EntryEvent)
  BY <1>1
<1>5. CASE stage = "none"
  BY <1>1, <1>5 DEF Publish, Said
<1>6. ASSUME stage # "none", Len(live) # Buffer
      PROVE  Said(v)
  <2>1. live' = q /\ lagged' = lagged
    BY <1>1, <1>6 DEF Publish
  <2>2. racing' = racing \cup (IF stage \in {"subscribed", "bots"} /\ v.t = "bot" THEN {v.bot} ELSE {})
    BY <1>6 DEF Publish, TypeOK
  <2>3. Len(live') <= Buffer
    BY <1>1, <1>3, <1>6, <2>1
  <2> HIDE DEF q
  <2> QED
    BY <1>1, <1>3, <1>4, <1>6, <2>1, <2>2, <2>3 DEF Said
<1>7. ASSUME stage # "none", Len(live) = Buffer
      PROVE  Said(v)
  <2>1. live' = Tail(q) /\ lagged' = TRUE
    BY <1>1, <1>7 DEF Publish
  <2>2. racing' = racing \cup (IF stage \in {"subscribed", "bots"} /\ v.t = "bot" THEN {v.bot} ELSE {})
    BY <1>7 DEF Publish, TypeOK
  <2>3. Tail(q) \in Seq(BotEvent \cup EntryEvent)
    BY <1>3, <1>4
  <2>4. /\ Rising(Tail(q)) /\ Len(Tail(q)) = Len(q) - 1
        /\ Told(q) = Told(Tail(q)) \cup (IF Head(q).t = "hello" THEN {} ELSE {Head(q)})
    BY <1>3, TailTold
  <2>5. v \in Told(Tail(q))
    <3>1. Len(q) - 1 \in 1..Len(Tail(q)) /\ Tail(q)[Len(q) - 1] = q[Len(q)] /\ q[Len(q)] = v
      <4>1. Len(q) - 1 \in 1..Len(Tail(q)) /\ Len(live) + 1 = Len(q)
        BY <1>1, <1>3, <1>7, <2>4
      <4>2. q[Len(live) + 1] = v
        BY <1>1, AppendProperties
      <4> HIDE DEF q
      <4>3. Tail(q)[Len(q) - 1] = q[Len(q)]
        BY <1>3, <4>1
      <4> QED
        BY <4>1, <4>2, <4>3
    <3> QED
      BY <3>1, Kinds DEF Told
  <2> HIDE DEF q
  <2>6. Len(live') <= Buffer
    BY <1>1, <1>3, <1>7, <2>1, <2>4
  <2> QED
    BY <1>3, <1>7, <2>1, <2>2, <2>3, <2>4, <2>5, <2>6 DEF Said
<1> QED
  BY <1>5, <1>6, <1>7

LEMMA RowTypes ==
  ASSUME Known
  PROVE  /\ rev \in Nat /\ rev \in Rev /\ MaxRev \in Nat /\ added \in Nat /\ added \in 0..MaxEntries /\ MaxEntries \in Nat
         /\ bots \in [Bot -> [rev : Rev, deleted : BOOLEAN]] /\ entries \in [Seqno -> Row] /\ saving \subseteq Bot
         /\ \A b \in Bot : bots[b].rev \in Nat /\ bots[b].rev \in Rev /\ bots[b].deleted \in BOOLEAN /\ bots[b].rev <= rev
         /\ \A s \in Seqno : /\ s \in Nat /\ entries[s] \in Row /\ entries[s].rev \in Nat /\ entries[s].rev \in Rev /\ entries[s].bot \in Bot
                             /\ BotOf(s) = entries[s].bot /\ entries[s].rev <= rev
<1> USE SyncAssumption DEF Known, TypeOK, Rev, Row
<1>1. /\ rev \in Nat /\ rev \in Rev /\ MaxRev \in Nat /\ added \in Nat /\ added \in 0..MaxEntries /\ MaxEntries \in Nat
      /\ bots \in [Bot -> [rev : Rev, deleted : BOOLEAN]] /\ entries \in [Seqno -> Row] /\ saving \subseteq Bot
  OBVIOUS
<1>2. \A b \in Bot : bots[b].rev \in Nat /\ bots[b].rev \in Rev /\ bots[b].deleted \in BOOLEAN /\ bots[b].rev <= rev
  BY DEF Rows
<1>3. \A s \in Seqno : /\ s \in Nat /\ entries[s] \in Row /\ entries[s].rev \in Nat /\ entries[s].rev \in Rev /\ entries[s].bot \in Bot
                       /\ BotOf(s) = entries[s].bot /\ entries[s].rev <= rev
  BY DEF Rows, BotOf, Seqno
<1> QED
  BY <1>1, <1>2, <1>3

\* A bot's row is written, alone.
LEMMA BotWritten ==
  ASSUME Known, Writes, NEW b \in Bot, NEW d \in BOOLEAN, bots[b].deleted => d,
         bots' = [bots EXCEPT ![b] = [rev |-> rev + 1, deleted |-> d]], added' = added,
         \/ entries' = entries /\ d = bots[b].deleted
         \/ /\ d = TRUE
            /\ entries' = [s \in Seqno |-> IF s \in EntriesOf(b) THEN [entries[s] EXCEPT !.rev = 0] ELSE entries[s]]
  PROVE  /\ Grew /\ Rows'
         /\ bots'[b] = [rev |-> rev + 1, deleted |-> d] /\ \A c \in Bot : c # b => bots'[c] = bots[c]
         /\ \A s \in Seqno : entries'[s] # entries[s] => entries'[s].rev = 0
         /\ \A s \in Seqno : entries'[s].bot = entries[s].bot
<1>1. /\ rev' = rev + 1 /\ rev' \in Rev /\ rev + 1 \in Rev /\ rev + 1 \in Nat
  BY RowTypes, SyncAssumption DEF Writes, Rev
<1>2. /\ bots'[b] = [rev |-> rev + 1, deleted |-> d] /\ \A c \in Bot : c # b => bots'[c] = bots[c]
      /\ bots' \in [Bot -> [rev : Rev, deleted : BOOLEAN]]
  BY <1>1, RowTypes
<1>3. bots'[b].rev = rev + 1 /\ bots'[b].deleted = d
  BY <1>2
<1>4. /\ entries' \in [Seqno -> Row]
      /\ \A s \in Seqno : /\ entries'[s].bot = entries[s].bot
                          /\ entries'[s] = entries[s] \/ (entries'[s].rev = 0 /\ entries[s].rev # 0 /\ entries[s].bot = b /\ d)
                          /\ entries'[s].rev # 0 => ~(d /\ entries[s].bot = b)
  <2>1. CASE entries' = entries /\ d = bots[b].deleted
    <3>1. entries' \in [Seqno -> Row] /\ \A s \in Seqno : entries'[s] = entries[s]
      BY <2>1, RowTypes
    <3>2. ASSUME NEW s \in Seqno, entries'[s].rev # 0, d, entries[s].bot = b
          PROVE  FALSE
      <4>1. ~bots[b].deleted
        BY <3>1, <3>2 DEF Known, Rows, BotOf
      <4>2. bots[b].deleted
        BY <2>1, <3>2
      <4> QED
        BY <4>1, <4>2
    <3> QED
      BY <3>1, <3>2
  <2>2. CASE d = TRUE /\ entries' = [s \in Seqno |-> IF s \in EntriesOf(b) THEN [entries[s] EXCEPT !.rev = 0] ELSE entries[s]]
    <3>1. ASSUME NEW s \in Seqno
          PROVE  /\ entries'[s] \in Row
                 /\ entries'[s].bot = entries[s].bot
                 /\ entries'[s] = entries[s] \/ (entries'[s].rev = 0 /\ entries[s].rev # 0 /\ entries[s].bot = b /\ d)
                 /\ entries'[s].rev # 0 => ~(d /\ entries[s].bot = b)
      <4>1. CASE s \in EntriesOf(b)
        <5>1. entries'[s] = [entries[s] EXCEPT !.rev = 0]
          BY <2>2, <4>1
        <5>2. entries[s] \in Row /\ 0 \in Rev /\ entries[s].rev # 0 /\ entries[s].bot = b
          BY <4>1, RowTypes, SyncAssumption DEF EntriesOf, Rev, BotOf
        <5>3. entries'[s] \in Row /\ entries'[s].bot = entries[s].bot /\ entries'[s].rev = 0
          BY <5>1, <5>2 DEF Row
        <5> QED
          BY <2>2, <5>2, <5>3
      <4>2. CASE s \notin EntriesOf(b)
        <5>1. entries'[s] = entries[s] /\ entries[s] \in Row
          BY <2>2, <4>2, RowTypes
        <5>2. entries[s].rev # 0 => entries[s].bot # b
          BY <4>2 DEF EntriesOf, BotOf
        <5> QED
          BY <5>1, <5>2
      <4> QED
        BY <4>1, <4>2
    <3> QED
      BY <2>2, <3>1
  <2> QED
    BY <2>1, <2>2
<1>5. \A s \in Seqno : entries'[s].rev # 0 =>
         entries'[s] = entries[s] /\ entries[s].rev # 0 /\ s <= added /\ ~bots'[entries[s].bot].deleted
  <2>1. ASSUME NEW s \in Seqno, entries'[s].rev # 0
        PROVE  entries'[s] = entries[s] /\ entries[s].rev # 0 /\ s <= added /\ ~bots'[entries[s].bot].deleted
    <3>1. entries'[s] = entries[s] /\ entries[s].rev # 0 /\ ~(d /\ entries[s].bot = b)
      BY <1>4, <2>1
    <3>2. s <= added /\ ~bots[entries[s].bot].deleted /\ entries[s].bot \in Bot
      BY <3>1, RowTypes DEF Known, Rows
    <3>3. ~bots'[entries[s].bot].deleted
      BY <1>2, <1>3, <3>1, <3>2
    <3> QED
      BY <3>1, <3>2, <3>3
  <2> QED
    BY <2>1
<1>6. Grew
  <2>1. \A c \in Bot : bots'[c] = bots[c] \/ (bots'[c].rev = rev + 1 /\ (bots[c].deleted => bots'[c].deleted))
    BY <1>2, <1>3
  <2>2. \A s \in Seqno :
       \/ entries'[s] = entries[s]
       \/ entries'[s].rev = 0 /\ entries[s].rev # 0 /\ bots'[entries'[s].bot].deleted
    BY <1>3, <1>4
  <2>3. \A s \in Seqno : entries'[s].rev # 0 => s <= added' /\ ~bots'[entries'[s].bot].deleted
    BY <1>5
  <2>4. added' \in 0..MaxEntries /\ added <= added'
    BY RowTypes
  <2> QED
    BY <1>1, <1>2, <1>4, <2>1, <2>2, <2>3, <2>4 DEF Grew
<1>7. Rows'
  <2>1. /\ \A c \in Bot : bots'[c].rev <= rev' /\ (bots'[c].deleted => bots'[c].rev # 0)
        /\ \A a, c \in Bot : bots'[a].rev # 0 /\ bots'[a].rev = bots'[c].rev => a = c
        /\ \E c \in Bot : bots'[c].rev # 0
    BY <1>1, <1>2, <1>3, RowTypes DEF Known, Rows
  <2>2. \A s \in Seqno : entries'[s].rev <= rev' /\ (entries'[s].rev # 0 => s <= added' /\ ~bots'[entries'[s].bot].deleted)
    BY <1>1, <1>4, <1>5, RowTypes
  <2>3. \A s, q \in Seqno : entries'[s].rev # 0 /\ entries'[s].rev = entries'[q].rev => s = q
    BY <1>5 DEF Known, Rows
  <2>4. \A s \in Seqno, c \in Bot : entries'[s].rev # 0 => entries'[s].rev # bots'[c].rev
    BY <1>1, <1>2, <1>3, <1>5, RowTypes DEF Known, Rows
  <2> QED
    BY <2>1, <2>2, <2>3, <2>4 DEF Rows, BotOf
<1> QED
  BY <1>2, <1>4, <1>6, <1>7

\* An entry's row is written, alone.
LEMMA EntryWritten ==
  ASSUME Known, Writes, NEW k \in Seqno, NEW b \in Bot, bots' = bots, ~bots[b].deleted,
         entries' = [entries EXCEPT ![k] = [bot |-> b, rev |-> rev + 1]],
         \/ k = added + 1 /\ added' = added + 1
         \/ entries[k].rev # 0 /\ b = BotOf(k) /\ added' = added
  PROVE  /\ Grew /\ Rows'
         /\ entries'[k] = [bot |-> b, rev |-> rev + 1] /\ \A s \in Seqno : s # k => entries'[s] = entries[s]
<1>1. /\ rev' = rev + 1 /\ rev' \in Rev /\ rev + 1 \in Rev /\ rev + 1 \in Nat
  BY RowTypes, SyncAssumption DEF Writes, Rev
<1>2. /\ entries'[k] = [bot |-> b, rev |-> rev + 1] /\ \A s \in Seqno : s # k => entries'[s] = entries[s]
      /\ entries' \in [Seqno -> Row] /\ k \in 1..MaxEntries
  BY <1>1, RowTypes DEF Row, Seqno
<1>3. entries'[k].rev = rev + 1 /\ entries'[k].bot = b
  BY <1>2
<1>4. /\ k <= added' /\ added <= added' /\ added' \in 0..MaxEntries
      /\ k <= added => entries[k].rev # 0 /\ entries[k].bot = b
  BY <1>2, RowTypes DEF Known, Rows
<1>5. Grew
  <2>1. \A s \in Seqno : s <= added => entries'[s].bot = entries[s].bot
    BY <1>2, <1>3, <1>4
  <2>2. \A s \in Seqno :
       \/ entries'[s] = entries[s]
       \/ entries'[s].rev = rev + 1 /\ s <= added' /\ ~bots'[entries'[s].bot].deleted /\ (s <= added => entries[s].rev # 0)
    BY <1>2, <1>3, <1>4
  <2>3. \A s \in Seqno : entries'[s].rev # 0 => s <= added' /\ ~bots'[entries'[s].bot].deleted
    <3>1. ASSUME NEW s \in Seqno, s # k, entries'[s].rev # 0
          PROVE  s <= added' /\ ~bots'[entries'[s].bot].deleted
      <4>1. s <= added /\ ~bots[entries[s].bot].deleted
        BY <1>2, <3>1, RowTypes DEF Known, Rows
      <4> QED
        BY <1>2, <1>4, <3>1, <4>1, RowTypes
    <3> QED
      BY <1>3, <1>4, <3>1
  <2> QED
    BY <1>1, <1>2, <1>4, <2>1, <2>2, <2>3, RowTypes DEF Grew
<1>6. Rows'
  <2>1. /\ \A c \in Bot : bots'[c].rev <= rev' /\ (bots'[c].deleted => bots'[c].rev # 0)
        /\ \A a, c \in Bot : bots'[a].rev # 0 /\ bots'[a].rev = bots'[c].rev => a = c
        /\ \E c \in Bot : bots'[c].rev # 0
    BY <1>1, RowTypes DEF Known, Rows
  <2>2. \A s \in Seqno : entries'[s].rev <= rev' /\ (entries'[s].rev # 0 => s <= added' /\ ~bots'[entries'[s].bot].deleted)
    BY <1>1, <1>2, <1>3, <1>5, RowTypes DEF Grew
  <2>3. \A s, q \in Seqno : entries'[s].rev # 0 /\ entries'[s].rev = entries'[q].rev => s = q
    BY <1>1, <1>2, <1>3, RowTypes DEF Known, Rows
  <2>4. \A s \in Seqno, c \in Bot : entries'[s].rev # 0 => entries'[s].rev # bots'[c].rev
    BY <1>1, <1>2, <1>3, RowTypes DEF Known, Rows
  <2> QED
    BY <2>1, <2>2, <2>3, <2>4 DEF Rows, BotOf
<1> QED
  BY <1>2, <1>5, <1>6

LEMMA HostMakes ==
  ASSUME Known, HostStep
  PROVE  HostMoves /\ Rows'
<1> USE DEF host, stream, client, bounds, history
<1>1. ASSUME NEW b \in Bot, SaveBot(b)
      PROVE  HostMoves /\ Rows'
  <2>1. bots' = [bots EXCEPT ![b] = [rev |-> rev + 1, deleted |-> bots[b].deleted]]
    <3>1. bots[b] \in [rev : Rev, deleted : BOOLEAN]
      BY RowTypes
    <3>2. [bots[b] EXCEPT !.rev = rev + 1] = [rev |-> rev + 1, deleted |-> bots[b].deleted]
      BY <3>1
    <3>3. bots' = [bots EXCEPT ![b] = [bots[b] EXCEPT !.rev = rev + 1]]
      BY <1>1 DEF SaveBot
    <3> QED
      BY <3>2, <3>3
  <2>2. /\ Grew /\ Rows' /\ \A c \in Bot : c # b => bots'[c] = bots[c]
    BY <1>1, <2>1, BotWritten, RowTypes DEF SaveBot
  <2>3. Saves
    BY <1>1, <2>2, RowTypes DEF SaveBot, Saves
  <2> QED
    BY <1>1, <2>2, <2>3 DEF SaveBot, HostMoves
<1>2. ASSUME NEW b \in Bot, NEW d \in BOOLEAN, Grew, Rows', EmitBot(b) \/ DeleteBot(b),
             bots'[b] = [rev |-> rev + 1, deleted |-> d], \A c \in Bot : c # b => bots'[c] = bots[c],
             \A s \in Seqno : entries'[s] # entries[s] => entries'[s].rev = 0,
             Publish([t |-> "bot", bot |-> b, rev |-> rev + 1, deleted |-> d])
      PROVE  HostMoves
  <2>0. PICK v : v = [t |-> "bot", bot |-> b, rev |-> rev + 1, deleted |-> d]
    OBVIOUS
  <2>1. rev + 1 \in Rev /\ rev + 1 > 0
    BY <1>2, RowTypes DEF Grew
  <2>2. v \in BotEvent /\ v.rev = rev + 1 /\ v.bot = b /\ v.deleted = d /\ v.t = "bot"
    BY <2>0, <2>1 DEF BotEvent
  <2>3. \A c \in Bot : c = b => v = BotNow(c)'
    BY <1>2, <2>0 DEF BotNow
  <2>4. Publish(v)
    BY <1>2, <2>0
  <2>5. Said(v)
    BY <2>2, <2>4, PublishSays
  <2>6. Fit(v)'
    <3>1. bots'[b].rev = rev + 1 /\ bots'[b].deleted = d
      BY <1>2
    <3>2. v.deleted <=> bots'[b].deleted
      BY <2>2, <3>1
    <3> QED
      BY <2>1, <2>2, <3>1, <3>2, RowTypes DEF Fit, FitBot
  <2>7. saving' \subseteq saving /\ (saving \ saving') \subseteq {b} /\ answer' = answer
    BY <1>2 DEF EmitBot, DeleteBot
  <2>8. Tells(v)
    <3>1. \A c \in Bot : bots'[c] # bots[c] => v = BotNow(c)'
      BY <1>2, <2>3
    <3>2. \A c \in saving \ saving' : v = BotNow(c)'
      BY <2>3, <2>7
    <3> QED
      <4>1. \A s \in Seqno : entries'[s] # entries[s] => entries'[s].rev = 0 \/ v = EntryNow(s)'
        BY <1>2
      <4> HIDE DEF BotNow, EntryNow, Said, Fit
      <4> QED
        BY <2>2, <2>5, <2>6, <2>7, <3>1, <3>2, <4>1 DEF Tells
  <2> QED
    BY <1>2, <2>2, <2>8 DEF HostMoves, EmitBot, DeleteBot
<1>3. ASSUME NEW b \in Bot, EmitBot(b)
      PROVE  HostMoves /\ Rows'
  <2>1. bots' = [bots EXCEPT ![b] = [rev |-> rev + 1, deleted |-> bots[b].deleted]] /\ bots[b].deleted \in BOOLEAN
    <3>1. bots[b] \in [rev : Rev, deleted : BOOLEAN]
      BY RowTypes
    <3>2. [bots[b] EXCEPT !.rev = rev + 1] = [rev |-> rev + 1, deleted |-> bots[b].deleted]
      BY <3>1
    <3>3. bots' = [bots EXCEPT ![b] = [bots[b] EXCEPT !.rev = rev + 1]]
      BY <1>3 DEF EmitBot
    <3> QED
      BY <3>1, <3>2, <3>3
  <2>2. /\ Grew /\ Rows' /\ bots'[b] = [rev |-> rev + 1, deleted |-> bots[b].deleted] /\ \A c \in Bot : c # b => bots'[c] = bots[c]
        /\ \A s \in Seqno : entries'[s] # entries[s] => entries'[s].rev = 0
    BY <1>3, <2>1, BotWritten DEF EmitBot
  <2> QED
    BY <1>2, <1>3, <2>1, <2>2 DEF EmitBot
<1>4. ASSUME NEW b \in Bot, DeleteBot(b)
      PROVE  HostMoves /\ Rows'
  <2>1. /\ Grew /\ Rows' /\ bots'[b] = [rev |-> rev + 1, deleted |-> TRUE] /\ \A c \in Bot : c # b => bots'[c] = bots[c]
        /\ \A s \in Seqno : entries'[s] # entries[s] => entries'[s].rev = 0
    BY <1>4, BotWritten DEF DeleteBot
  <2> QED
    BY <1>2, <1>4, <2>1 DEF DeleteBot
<1>5. ASSUME NEW k \in Seqno, NEW b \in Bot, Grew, Rows', bots' = bots, saving' = saving,
             UNCHANGED <<stage, read, feed, client, cache, bounds, atSave, skipped, strayed, partial>>,
             entries'[k] = [bot |-> b, rev |-> rev + 1], \A s \in Seqno : s # k => entries'[s] = entries[s],
             NEW v, v = [t |-> "entry", seq |-> k, bot |-> b, rev |-> rev + 1], Publish(v),
             k <= added',
             answer' = answer \/ (answer = NoAnswer /\ answer' = v /\ k > added)
      PROVE  HostMoves
  <2>1. rev + 1 \in Rev /\ rev + 1 > 0 /\ rev' = rev + 1
    BY <1>5, RowTypes DEF Grew
  <2>2. v \in EntryEvent /\ v.rev = rev + 1 /\ v.bot = b /\ v.seq = k /\ v.t = "entry"
    BY <1>5, <2>1 DEF EntryEvent
  <2>3. v = EntryNow(k)' /\ BotOf(k)' = b
    BY <1>5 DEF EntryNow, BotOf
  <2>4. Said(v)
    BY <1>5, <2>2, PublishSays
  <2>5. Fit(v)'
    <3>1. entries'[k].rev = rev + 1
      BY <1>5
    <3> QED
      BY <1>5, <2>1, <2>2, <2>3, <3>1, RowTypes DEF Fit, FitEntry, FitCopy
  <2>6. Tells(v)
    BY <1>5, <2>2, <2>3, <2>4, <2>5 DEF Tells
  <2> QED
    BY <1>5, <2>2, <2>6 DEF HostMoves
<1>6. ASSUME NEW b \in Bot, NEW own \in BOOLEAN, AddEntry(b, own)
      PROVE  HostMoves /\ Rows'
  <2>0. PICK v : v = [t |-> "entry", seq |-> added + 1, bot |-> b, rev |-> rev + 1]
    OBVIOUS
  <2>1. PICK k \in Seqno : k = added + 1
    BY <1>6, RowTypes DEF AddEntry, Seqno
  <2>2. /\ Writes /\ ~bots[b].deleted /\ bots' = bots /\ saving' = saving /\ added' = added + 1
        /\ entries' = [entries EXCEPT ![k] = [bot |-> b, rev |-> rev + 1]]
        /\ UNCHANGED <<stage, read, feed, client, cache, bounds, atSave, skipped, strayed, partial>>
    BY <1>6, <2>1 DEF AddEntry, Exists
  <2>3. Publish(v) /\ (answer' = answer \/ (answer = NoAnswer /\ answer' = v))
    <3>1. CASE own
      BY <1>6, <2>0, <3>1 DEF AddEntry
    <3>2. CASE ~own
      <4>1. Publish(v)
        BY <1>6, <2>0 DEF AddEntry
      <4>2. answer' = answer
        BY <1>6, <3>2 DEF AddEntry
      <4> QED
        BY <4>1, <4>2
    <3> QED
      BY <3>1, <3>2
  <2>4. v = [t |-> "entry", seq |-> k, bot |-> b, rev |-> rev + 1]
    BY <2>0, <2>1
  <2>5. /\ Grew /\ Rows' /\ entries'[k] = [bot |-> b, rev |-> rev + 1] /\ \A s \in Seqno : s # k => entries'[s] = entries[s]
    BY <2>1, <2>2, EntryWritten
  <2>6. k <= added' /\ k > added
    BY <2>1, <2>2, RowTypes
  <2> QED
    BY <1>5, <2>2, <2>3, <2>4, <2>5, <2>6
<1>7. ASSUME NEW k \in Seqno, EditEntry(k)
      PROVE  HostMoves /\ Rows'
  <2>0. PICK v : v = [t |-> "entry", seq |-> k, bot |-> BotOf(k), rev |-> rev + 1]
    OBVIOUS
  <2>1. /\ Writes /\ bots' = bots /\ saving' = saving /\ added' = added /\ entries[k].rev # 0 /\ answer' = answer /\ added' = added
        /\ UNCHANGED <<stage, read, feed, client, cache, bounds, atSave, skipped, strayed, partial>>
    BY <1>7 DEF EditEntry
  <2>2. entries' = [entries EXCEPT ![k] = [bot |-> BotOf(k), rev |-> rev + 1]]
    <3>1. entries[k] \in [bot : Bot, rev : Rev]
      BY RowTypes DEF Row
    <3>2. [entries[k] EXCEPT !.rev = rev + 1] = [bot |-> entries[k].bot, rev |-> rev + 1]
      BY <3>1
    <3>3. entries' = [entries EXCEPT ![k] = [entries[k] EXCEPT !.rev = rev + 1]]
      BY <1>7 DEF EditEntry
    <3> QED
      BY <3>2, <3>3 DEF BotOf
  <2>3. BotOf(k) \in Bot /\ ~bots[BotOf(k)].deleted /\ k <= added
    BY <2>1, RowTypes DEF Known, Rows
  <2>4. PICK b \in Bot : b = BotOf(k)
    BY <2>3
  <2>5. Publish(v) /\ v = [t |-> "entry", seq |-> k, bot |-> b, rev |-> rev + 1]
    BY <1>7, <2>0, <2>4 DEF EditEntry
  <2>6. /\ Grew /\ Rows' /\ entries'[k] = [bot |-> b, rev |-> rev + 1] /\ \A s \in Seqno : s # k => entries'[s] = entries[s]
    BY <2>1, <2>2, <2>3, <2>4, EntryWritten
  <2> QED
    BY <1>5, <2>1, <2>3, <2>5, <2>6
<1> QED
  BY <1>1, <1>3, <1>4, <1>6, <1>7 DEF HostStep

LEMMA StreamTypes ==
  ASSUME Known
  PROVE  /\ stage \in {"none", "subscribed", "bots", "open"} /\ read \subseteq BotEvent
         /\ feed \in Seq(Event) /\ live \in Seq(BotEvent \cup EntryEvent) /\ live \in Seq(Event) /\ Len(live) <= Buffer
         /\ lagged \in BOOLEAN /\ Told(feed) \subseteq BotEvent \cup EntryEvent /\ Told(live) \subseteq BotEvent \cup EntryEvent
         /\ \A i \in 1..Len(live) : live[i].t # "hello"
         /\ answer \in EntryEvent \cup {NoAnswer} /\ racing \subseteq Bot
         /\ \A v \in read \cup Told(feed) \cup Told(live) : v \in BotEvent \cup EntryEvent /\ v.rev \in Nat
<1>1. /\ stage \in {"none", "subscribed", "bots", "open"} /\ read \subseteq BotEvent
      /\ feed \in Seq(Event) /\ live \in Seq(BotEvent \cup EntryEvent) /\ Len(live) <= Buffer
      /\ lagged \in BOOLEAN /\ answer \in EntryEvent \cup {NoAnswer} /\ racing \subseteq Bot
  BY DEF Known, TypeOK, Event
<1>2. live \in Seq(Event)
  <2>1. BotEvent \cup EntryEvent \subseteq Event
    BY Kinds
  <2> QED
    BY <1>1, <2>1, SeqMonotonic
<1>3. Told(feed) \subseteq BotEvent \cup EntryEvent /\ Told(live) \subseteq BotEvent \cup EntryEvent
  BY <1>1, <1>2, ToldTypes
<1>4. \A i \in 1..Len(live) : live[i].t # "hello"
  <2>1. \A i \in 1..Len(live) : live[i] \in BotEvent \cup EntryEvent
    BY <1>1
  <2> QED
    BY <2>1, Kinds
<1>5. \A v \in read \cup Told(feed) \cup Told(live) : v \in BotEvent \cup EntryEvent /\ v.rev \in Nat
  BY <1>1, <1>3, Kinds
<1> QED
  BY <1>1, <1>2, <1>3, <1>4, <1>5

LEMMA MirrorTypes ==
  ASSUME Known
  PROVE  /\ mirror \in Mirror /\ mirror.cursor \in Nat /\ mirror.cursor \in Rev /\ mirror.cursor <= rev
         /\ mirror.bots \in [Bot -> Rev] /\ mirror.entries \in [Seqno -> Rev]
         /\ cache \in Mirror /\ cache.cursor \in Nat /\ cache.cursor \in Rev /\ cache.cursor <= mirror.cursor
         /\ cache.bots \in [Bot -> Rev] /\ cache.entries \in [Seqno -> Rev]
         /\ \A s \in Seqno : mirror.entries[s] \in Nat /\ cache.entries[s] \in Nat
         /\ \A b \in Bot : mirror.bots[b] \in Nat /\ cache.bots[b] \in Nat
         /\ asked \in Nat /\ asked \in Rev /\ floors \in [Bot -> 0..MaxEntries] /\ \A b \in Bot : floors[b] \in Nat
<1>1. mirror \in Mirror /\ cache \in Mirror /\ mirror.cursor <= rev /\ asked \in Rev /\ floors \in [Bot -> 0..MaxEntries]
  BY DEF Known, TypeOK
<1>2. cache.cursor <= mirror.cursor
  BY DEF Known, Stages
<1>3. \A m \in Mirror : m.cursor \in Rev /\ m.bots \in [Bot -> Rev] /\ m.entries \in [Seqno -> Rev]
  BY DEF Mirror
<1>4. Rev \subseteq Nat
  BY DEF Rev
<1>5. \A m \in Mirror : m.cursor \in Nat /\ (\A s \in Seqno : m.entries[s] \in Nat) /\ (\A b \in Bot : m.bots[b] \in Nat)
  BY <1>3, <1>4
<1>6. \A b \in Bot : floors[b] \in Nat
  BY <1>1, SyncAssumption
<1> QED
  BY <1>1, <1>2, <1>3, <1>4, <1>5, <1>6

\* What is on its way is no newer than the host.
LEMMA FitBound ==
  ASSUME Known, NEW v \in BotEvent \cup EntryEvent, Fit(v)
  PROVE  v.rev \in Nat /\ v.rev > 0 /\ v.rev <= rev
<1>1. CASE v \in BotEvent
  <2>1. v.rev > 0 /\ v.rev <= bots[v.bot].rev /\ bots[v.bot].rev <= rev /\ bots[v.bot].rev \in Nat /\ v.rev \in Nat /\ rev \in Nat
    BY <1>1, Kinds, RowTypes DEF Fit, FitBot
  <2> QED
    BY <2>1
<1>2. CASE v \in EntryEvent
  BY <1>2, Kinds DEF Fit, FitEntry, FitCopy
<1> QED
  BY <1>1, <1>2

\* What fitted still does after a write.
LEMMA FitKept ==
  ASSUME Known, Grew
  PROVE  /\ \A v \in BotEvent \cup EntryEvent : Fit(v) => Fit(v)'
         /\ \A s \in Seqno, r \in Nat : FitCopy(s, r) => FitCopy(s, r)'
<1>1. ASSUME NEW v \in BotEvent, Fit(v)
      PROVE  Fit(v)'
  <2>1. /\ v.t = "bot" /\ v.bot \in Bot /\ v.rev \in Nat /\ v.rev > 0 /\ v.rev <= bots[v.bot].rev /\ (v.deleted => bots[v.bot].deleted)
        /\ v.rev = bots[v.bot].rev => (v.deleted <=> bots[v.bot].deleted)
    BY <1>1, Kinds DEF Fit, FitBot
  <2>2. CASE bots'[v.bot] = bots[v.bot]
    BY <2>1, <2>2 DEF Fit, FitBot
  <2>3. CASE bots'[v.bot].rev = rev + 1 /\ (bots[v.bot].deleted => bots'[v.bot].deleted)
    <3>1. v.rev <= bots'[v.bot].rev /\ v.rev # bots'[v.bot].rev
      BY <2>1, <2>3, RowTypes
    <3> QED
      BY <2>1, <2>3, <3>1 DEF Fit, FitBot
  <2> QED
    BY <2>1, <2>2, <2>3 DEF Grew
<1>2. ASSUME NEW s \in Seqno, NEW r \in Nat, FitCopy(s, r)
      PROVE  FitCopy(s, r)'
  <2>1. s <= added /\ r <= rev /\ (r <= entries[s].rev \/ bots[entries[s].bot].deleted)
    BY <1>2 DEF FitCopy, BotOf
  <2>2. s <= added' /\ r <= rev' /\ entries'[s].bot = entries[s].bot /\ entries[s].bot \in Bot
    BY <2>1, RowTypes DEF Grew
  <2>3. CASE bots[entries[s].bot].deleted
    BY <2>2, <2>3 DEF Grew, FitCopy, BotOf
  <2>4. CASE r <= entries[s].rev
    <3>1. CASE entries'[s] = entries[s]
      BY <2>2, <2>4, <3>1 DEF FitCopy, BotOf
    <3>2. CASE entries'[s].rev = rev + 1
      BY <2>1, <2>2, <3>2, RowTypes DEF FitCopy
    <3>3. CASE bots'[entries'[s].bot].deleted
      BY <2>2, <3>3 DEF FitCopy, BotOf
    <3> QED
      BY <3>1, <3>2, <3>3 DEF Grew
  <2> QED
    BY <2>1, <2>3, <2>4
<1>3. ASSUME NEW v \in EntryEvent, Fit(v)
      PROVE  Fit(v)'
  <2>1. v.t = "entry" /\ v.seq \in Seqno /\ v.rev \in Nat /\ v.rev > 0 /\ v.bot = entries[v.seq].bot /\ FitCopy(v.seq, v.rev)
    BY <1>3, Kinds DEF Fit, FitEntry, BotOf
  <2>2. FitCopy(v.seq, v.rev)'
    BY <1>2, <2>1
  <2>3. entries'[v.seq].bot = entries[v.seq].bot
    BY <2>1 DEF FitCopy, Grew
  <2> QED
    BY <2>1, <2>2, <2>3 DEF Fit, FitEntry, BotOf
<1> QED
  BY <1>1, <1>2, <1>3

LEMMA HostKnown ==
  ASSUME Known, HostMoves, Rows'
  PROVE  Known'
<1>1. /\ UNCHANGED <<stage, read, feed, mirror, asked, floors, cache, drops, saves, refetches, atSave, skipped, strayed, partial>>
      /\ Grew
  BY DEF HostMoves, client, bounds
<1>2. /\ live' \in Seq(BotEvent \cup EntryEvent) /\ Len(live') <= Buffer /\ lagged' \in BOOLEAN /\ Rising(live')
      /\ stage = "none" => live' = live /\ lagged' = lagged
      /\ \A v \in Told(live') : v \in Told(live) \/ (v \in BotEvent \cup EntryEvent /\ Fit(v)')
      /\ racing' \subseteq Bot /\ (stage = "none" => racing' = racing)
      /\ answer' \in EntryEvent \cup {NoAnswer}
      /\ answer' = answer \/ (answer' \in EntryEvent /\ Fit(answer)')
      /\ saving' \subseteq Bot
  <2>1. CASE Saves
    BY <2>1, StreamTypes DEF Saves, Known, Lists
  <2>2. ASSUME NEW v \in BotEvent \cup EntryEvent, Tells(v)
        PROVE  <1>2!:
    <3>1. Said(v) /\ Fit(v)' /\ saving' \subseteq saving /\ (answer' = answer \/ (answer' = v /\ v.t = "entry"))
      BY <2>2 DEF Tells
    <3>2. v.t = "bot" => v.bot \in Bot
      BY Kinds
    <3>3. v.t = "entry" => v \in EntryEvent
      BY Kinds
    <3>4. racing' \subseteq Bot /\ (stage = "none" => racing' = racing)
      BY <3>1, <3>2, StreamTypes DEF Said
    <3>5. answer' = v => Fit(answer)'
      BY <3>1
    <3> HIDE DEF Fit
    <3> QED
      BY <3>1, <3>3, <3>4, <3>5, StreamTypes, RowTypes DEF Said
  <2> QED
    BY <2>1, <2>2 DEF HostMoves
<1>3. TypeOK'
  <2>1. /\ rev' \in Rev /\ bots' \in [Bot -> [rev : Rev, deleted : BOOLEAN]] /\ entries' \in [Seqno -> Row]
        /\ added' \in 0..MaxEntries /\ rev' = rev + 1
    BY <1>1 DEF Grew
  <2>2. mirror'.cursor <= rev'
    BY <1>1, <2>1, MirrorTypes, RowTypes
  <2> QED
    BY <1>1, <1>2, <2>1, <2>2 DEF Known, TypeOK
<1>4. Fits'
  <2>1. \A v \in read \cup Told(feed) \cup Told(live) : Fit(v)'
    BY FitKept, StreamTypes, <1>1 DEF Known, Fits
  <2>2. \A v \in read' \cup Told(feed') \cup Told(live') : Fit(v)'
    BY <1>1, <1>2, <2>1
  <2>3. ASSUME answer' # NoAnswer
        PROVE  FitEntry(answer)'
    <3>1. CASE answer' = answer
      <4>1. answer \in EntryEvent /\ Fit(answer)
        BY <2>3, <3>1, StreamTypes, Kinds DEF Known, Fits, Fit
      <4>2. PICK v \in EntryEvent : v = answer
        BY <4>1
      <4>3. FitEntry(v)'
        BY <1>1, <4>1, <4>2, FitKept, Kinds DEF Fit
      <4> QED
        BY <3>1, <4>2, <4>3
    <3>2. CASE answer' \in EntryEvent /\ Fit(answer)'
      BY <3>2, Kinds DEF Fit
    <3> QED
      BY <1>2, <3>1, <3>2
  <2>4. ASSUME NEW m \in Mirror, FitMirror(m)
        PROVE  FitMirror(m)'
    <3>1. \A s \in Seqno : m.entries[s] \in Nat
      BY DEF Mirror, Rev
    <3> QED
      BY <1>1, <2>4, <3>1, FitKept DEF FitMirror
  <2>5. FitMirror(mirror)' /\ FitMirror(cache)'
    <3>1. PICK m \in Mirror : m = mirror
      BY MirrorTypes
    <3>2. PICK c \in Mirror : c = cache
      BY MirrorTypes
    <3>3. FitMirror(m) /\ FitMirror(c)
      BY <3>1, <3>2 DEF Known, Fits
    <3>4. FitMirror(m)' /\ FitMirror(c)' /\ mirror' = m /\ cache' = c
      BY <1>1, <2>4, <3>1, <3>2, <3>3
    <3> QED
      BY <3>4
  <2> QED
    BY <2>2, <2>3, <2>5 DEF Fits
<1>5. Lists'
  <2>1. ASSUME NEW v \in read, NEW s \in Seqno
        PROVE  entries'[s].rev # v.rev
    <3>1. v.rev > 0 /\ v.rev <= rev /\ entries[s].rev # v.rev
      BY FitBound, StreamTypes DEF Known, Fits, Lists
    <3> QED
      BY <3>1, RowTypes, StreamTypes DEF Grew, HostMoves
  <2> QED
    BY <1>1, <1>2, <2>1 DEF Known, Lists
<1>6. Stages'
  BY <1>1, <1>2 DEF Known, Stages
<1> QED
  BY <1>3, <1>4, <1>5, <1>6 DEF Known

-----------------------------------------------------------------------------
(* The stream and the client. *)

Still == UNCHANGED <<rev, bots, entries, added>>

LEMMA StillKept ==
  ASSUME Known, Still
  PROVE  /\ Rows' /\ (\A v : Fit(v)' <=> Fit(v)) /\ (\A s, r : FitCopy(s, r)' <=> FitCopy(s, r))
         /\ (\A v : FitEntry(v)' <=> FitEntry(v))
         /\ rev' \in Rev /\ bots' \in [Bot -> [rev : Rev, deleted : BOOLEAN]] /\ entries' \in [Seqno -> Row] /\ added' \in 0..MaxEntries
<1> USE DEF Still
<1>1. Rows'
  BY DEF Known, Rows, BotOf
<1>2. \A s, r : FitCopy(s, r)' <=> FitCopy(s, r)
  BY DEF FitCopy, BotOf
<1>3. \A v : FitEntry(v)' <=> FitEntry(v)
  BY <1>2 DEF FitEntry, BotOf
<1>4. \A v : Fit(v)' <=> Fit(v)
  BY <1>3 DEF Fit, FitBot
<1> QED
  BY <1>1, <1>2, <1>3, <1>4, RowTypes

\* A step that writes no row.
LEMMA StillKnown ==
  ASSUME Known, Still, TypeOK', Lists', Stages',
         \A v \in read' \cup Told(feed') \cup Told(live') : v \in read \cup Told(feed) \cup Told(live) \/ Fit(v),
         answer' = answer \/ answer' = NoAnswer,
         FitMirror(mirror'), FitMirror(cache')
  PROVE  Known'
<1>1. \A v \in read' \cup Told(feed') \cup Told(live') : Fit(v)'
  BY StillKept DEF Known, Fits
<1>2. answer' # NoAnswer => FitEntry(answer)'
  <2>1. CASE answer' = NoAnswer
    BY <2>1
  <2>2. CASE answer' = answer
    BY <2>2, StillKept DEF Known, Fits, FitEntry, FitCopy, Still, BotOf
  <2> QED
    BY <2>1, <2>2
<1>3. FitMirror(mirror)' /\ FitMirror(cache)'
  BY StillKept DEF FitMirror
<1> QED
  BY <1>1, <1>2, <1>3, StillKept DEF Known, Fits

LEMMA RewoundTypes ==
  ASSUME NEW m \in Mirror
  PROVE  /\ Rewound(m) \in Mirror /\ Rewound(m).cursor = 0 /\ Rewound(m).bots = m.bots
         /\ \A s \in Seqno : Rewound(m).entries[s] = 0
<1>1. 0 \in Rev
  BY SyncAssumption DEF Rev
<1> QED
  BY <1>1 DEF Rewound, Mirror

LEMMA ConnectKnown ==
  ASSUME Known, NEW full \in BOOLEAN, Connect(full)
  PROVE  Known'
<1> USE DEF host, stream, client, bounds, history
<1>1. /\ stage = "none" /\ stage' = "subscribed" /\ asked' = mirror'.cursor /\ floors' = NoFloors
      /\ UNCHANGED <<rev, bots, entries, added, saving, read, feed, live, lagged, answer, drops, saves, racing, atSave, skipped>>
      /\ partial' \in BOOLEAN
  BY DEF Connect, Known, TypeOK
<1>2. /\ refetches' \in 0..MaxRefetches /\ mirror' \in Mirror /\ cache' \in Mirror /\ strayed' \subseteq Bot
      /\ cache'.cursor <= mirror'.cursor /\ mirror'.cursor <= rev
      /\ FitMirror(mirror') /\ FitMirror(cache')
  <2>1. CASE full
    <3>1. mirror' = Rewound(mirror) /\ cache' = Rewound(cache) /\ refetches' \in 0..MaxRefetches /\ strayed' = {}
      BY <2>1, SyncAssumption DEF Connect, Known, TypeOK
    <3> QED
      BY <3>1, RewoundTypes, MirrorTypes, RowTypes DEF FitMirror
  <2>2. CASE ~full
    BY <2>2, MirrorTypes DEF Connect, Known, TypeOK, Fits
  <2> QED
    BY <2>1, <2>2
<1>3. asked' \in Rev /\ mirror'.cursor \in Nat /\ floors' \in [Bot -> 0..MaxEntries]
  BY <1>1, <1>2, SyncAssumption DEF Mirror, Rev, NoFloors
<1>4. feed = <<>> /\ read = {} /\ live = <<>> /\ racing = {}
  BY <1>1 DEF Known, Stages
<1>5. TypeOK'
  BY <1>1, <1>2, <1>3 DEF Known, TypeOK
<1>6. Lists'
  BY <1>1, <1>4, ToldNone DEF Lists
<1>7. Stages'
  BY <1>1, <1>2, <1>3, <1>4 DEF Known, Stages
<1> QED
  BY <1>1, <1>2, <1>5, <1>6, <1>7, StillKnown DEF Still

LEMMA ReadBotsKnown ==
  ASSUME Known, ReadBots
  PROVE  /\ Known'
         /\ \A b \in Bot : bots[b].rev > asked => BotNow(b) \in read'
<1> USE DEF host, stream, client, bounds, history
<1>1. /\ stage = "subscribed" /\ stage' = "bots" /\ read' = BotsAfter(asked)
      /\ UNCHANGED <<rev, bots, entries, added, saving, feed, live, lagged, mirror, asked, floors, answer, cache, drops, saves, refetches,
                     racing, atSave, skipped, strayed, partial>>
  BY DEF ReadBots
<1>2. ASSUME NEW v \in read'
      PROVE  /\ v \in BotEvent /\ Fit(v) /\ asked < v.rev /\ v.bot \in Bot /\ v = BotNow(v.bot) /\ v.rev = bots[v.bot].rev
             /\ \A s \in Seqno : entries[s].rev # v.rev
  <2>1. PICK b \in Bot : bots[b].rev > asked /\ v = [t |-> "bot", bot |-> b, rev |-> bots[b].rev, deleted |-> bots[b].deleted]
    BY <1>1 DEF BotsAfter
  <2>2. v \in BotEvent /\ v.t = "bot" /\ v.bot = b /\ v.rev = bots[b].rev /\ v.deleted = bots[b].deleted
    BY <2>1, RowTypes DEF BotEvent
  <2>3. v.rev \in Nat /\ v.rev > 0 /\ asked < v.rev
    BY <2>1, <2>2, RowTypes, MirrorTypes
  <2>4. Fit(v)
    BY <2>2, <2>3 DEF Fit, FitBot
  <2>5. \A s \in Seqno : entries[s].rev # v.rev
    BY <2>2, <2>3, RowTypes DEF Known, Rows
  <2> QED
    BY <2>1, <2>2, <2>3, <2>4, <2>5 DEF BotNow
<1>3. \A v, w \in read' : v.rev = w.rev => v = w
  <2>1. ASSUME NEW v \in read', NEW w \in read', v.rev = w.rev
        PROVE  v = w
    <3>1. bots[v.bot].rev # 0 /\ bots[v.bot].rev = bots[w.bot].rev /\ v.bot \in Bot /\ w.bot \in Bot
      BY <1>2, <2>1, RowTypes, MirrorTypes
    <3>2. v.bot = w.bot
      BY <3>1 DEF Known, Rows
    <3> QED
      BY <1>2, <3>2 DEF BotNow
  <2> QED
    BY <2>1
<1>4. ASSUME NEW b \in Bot, bots[b].rev > asked
      PROVE  BotNow(b) \in read'
  BY <1>1, <1>4 DEF BotsAfter, BotNow
<1>5. asked = 0 => read' # {}
  <2>1. PICK b \in Bot : bots[b].rev # 0
    BY DEF Known, Rows
  <2> QED
    BY <1>4, <2>1, RowTypes
<1>6. feed = <<>> /\ asked = mirror.cursor
  BY <1>1 DEF Known, Stages
<1>7. TypeOK'
  BY <1>1, <1>2 DEF Known, TypeOK
<1>8. Lists'
  BY <1>1, <1>2, <1>3 DEF Known, Lists
<1>9. Stages'
  BY <1>1, <1>5, <1>6 DEF Known, Stages
<1>10. FitMirror(mirror') /\ FitMirror(cache')
  BY <1>1 DEF Known, Fits
<1>11. Known'
  BY <1>1, <1>2, <1>7, <1>8, <1>9, <1>10, StillKnown DEF Still
<1> QED
  BY <1>4, <1>11

LEMMA ReadEntriesKnown ==
  ASSUME Known, ReadEntries
  PROVE  /\ Known'
         /\ stage = "bots" /\ stage' = "open" /\ feed' # <<>> /\ Head(feed') = Hello
         /\ Told(feed') = read \cup EntriesAfter(asked)
         /\ UNCHANGED <<rev, bots, entries, added, saving, live, lagged, mirror, asked, floors, answer, cache, drops, saves, refetches,
                        racing, atSave, skipped, strayed, partial>>
         /\ \A v \in EntriesAfter(asked) : /\ v.seq \in Seqno /\ v = EntryNow(v.seq) /\ v \in EntryEvent /\ v.rev = entries[v.seq].rev
                                           /\ v.seq \in Sent(asked, BotOf(v.seq)) /\ v.bot = BotOf(v.seq) /\ v.rev > asked
         /\ \A s \in Seqno : s \in Sent(asked, BotOf(s)) => EntryNow(s) \in EntriesAfter(asked)
<1> USE DEF host, stream, client, bounds, history
<1> DEFINE E == read \cup EntriesAfter(asked)
<1>1. /\ stage = "bots" /\ stage' = "open" /\ read' = {} /\ feed' = <<Hello>> \o Sorted(E)
      /\ UNCHANGED <<rev, bots, entries, added, saving, live, lagged, mirror, asked, floors, answer, cache, drops, saves, refetches,
                     racing, atSave, skipped, strayed, partial>>
  BY DEF ReadEntries, InOrder
<1>2. \A s \in Seqno, b \in Bot : s \in Sent(asked, b) => b = BotOf(s) /\ entries[s].rev > asked /\ entries[s].rev # 0
  BY RowTypes, MirrorTypes DEF Sent, Newest, EntriesOf
<1>3. ASSUME NEW v \in EntriesAfter(asked)
      PROVE  /\ v.seq \in Seqno /\ v = EntryNow(v.seq) /\ v \in EntryEvent /\ v.rev = entries[v.seq].rev
             /\ v.seq \in Sent(asked, BotOf(v.seq)) /\ v.bot = BotOf(v.seq) /\ v.rev > asked /\ v.rev > 0
             /\ Fit(v) /\ \A w \in read : w.rev # v.rev
  <2>1. PICK b \in Bot, s \in Seqno : s \in Sent(asked, b) /\ v = [t |-> "entry", seq |-> s, bot |-> BotOf(s), rev |-> entries[s].rev]
    BY <1>3 DEF EntriesAfter, Sent, Newest, EntriesOf
  <2>2. s \in Seqno
    BY <2>1
  <2>3. b = BotOf(s) /\ entries[s].rev > asked /\ entries[s].rev # 0
    BY <1>2, <2>1, <2>2
  <2>4. v \in EntryEvent /\ v.t = "entry" /\ v.seq = s /\ v.bot = BotOf(s) /\ v.rev = entries[s].rev
    BY <2>1, <2>2, RowTypes DEF EntryEvent
  <2>5. v = EntryNow(v.seq)
    BY <2>1, <2>4 DEF EntryNow
  <2>6. s <= added /\ entries[s].rev <= rev /\ entries[s].rev \in Nat
    BY <2>2, <2>3, RowTypes DEF Known, Rows
  <2>7. Fit(v)
    BY <2>3, <2>4, <2>6 DEF Fit, FitEntry, FitCopy
  <2>8. \A w \in read : w.rev # v.rev
    BY <2>2, <2>4 DEF Known, Lists
  <2> QED
    BY <2>1, <2>2, <2>3, <2>4, <2>5, <2>6, <2>7, <2>8
<1>4. ASSUME NEW s \in Seqno, s \in Sent(asked, BotOf(s))
      PROVE  EntryNow(s) \in EntriesAfter(asked)
  <2>1. BotOf(s) \in Bot
    BY RowTypes
  <2>2. s \in UNION {Sent(asked, b) : b \in Bot}
    BY <1>4, <2>1
  <2> QED
    BY <2>2 DEF EntriesAfter, EntryNow
<1>5. E \in SUBSET (BotEvent \cup EntryEvent)
  BY <1>3, StreamTypes
<1>6. ASSUME NEW v \in E, NEW w \in E, v.rev = w.rev
      PROVE  v = w
  <2>1. CASE v \in read /\ w \in read
    BY <1>6, <2>1 DEF Known, Lists
  <2>2. CASE v \in EntriesAfter(asked) /\ w \in EntriesAfter(asked)
    <3>1. v.seq \in Seqno /\ w.seq \in Seqno /\ entries[v.seq].rev # 0 /\ entries[v.seq].rev = entries[w.seq].rev
      BY <1>3, <1>6, <2>2
    <3>2. v.seq = w.seq
      BY <3>1 DEF Known, Rows
    <3>3. v = EntryNow(v.seq) /\ w = EntryNow(w.seq)
      BY <1>3, <2>2
    <3> QED
      BY <3>2, <3>3
  <2> QED
    BY <1>3, <1>6, <2>1, <2>2
<1>7. /\ feed' \in Seq(Event) /\ Rising(feed') /\ Told(feed') = E /\ feed' # <<>> /\ Head(feed') = Hello
  <2>1. \A v, w \in E : v.rev = w.rev => v = w
    BY <1>6
  <2> HIDE DEF E
  <2> QED
    BY <1>1, <1>5, <2>1, SortedTold
<1>8. asked = mirror.cursor /\ (asked = 0 => read # {})
  BY <1>1 DEF Known, Stages
<1>9. TypeOK'
  BY <1>1, <1>7 DEF Known, TypeOK, Event
<1>10. Lists'
  <2>1. \A v \in E : mirror.cursor < v.rev
    BY <1>3, <1>8, MirrorTypes, Kinds, StreamTypes DEF Known, Lists
  <2> HIDE DEF E
  <2> QED
    BY <1>1, <1>7, <2>1 DEF Known, Lists
<1>11. Stages'
  BY <1>1, <1>7, <1>8, Kinds DEF Known, Stages
<1>12. FitMirror(mirror') /\ FitMirror(cache')
  BY <1>1 DEF Known, Fits
<1>13. \A v \in read' \cup Told(feed') \cup Told(live') : v \in read \cup Told(feed) \cup Told(live) \/ Fit(v)
  BY <1>1, <1>3, <1>7
<1>14. Known'
  BY <1>1, <1>9, <1>10, <1>11, <1>12, <1>13, StillKnown DEF Still
<1> QED
  BY <1>1, <1>3, <1>4, <1>7, <1>14

LEMMA LowestIs ==
  ASSUME NEW S \in SUBSET Seqno, S # {}
  PROVE  Lowest(S) \in S /\ \A q \in S : Lowest(S) <= q
<1>1. IsFiniteSet(Seqno) /\ Seqno \subseteq Nat
  BY SyncAssumption, FS_Interval DEF Seqno
<1>2. IsFiniteSet(S) /\ Cardinality(S) \in Nat /\ Cardinality(S) # 0 /\ S \subseteq Int
  <2>1. IsFiniteSet(S)
    BY <1>1, FS_Subset
  <2> QED
    BY <1>1, <2>1, FS_CardinalityType, FS_EmptySet
<1>3. 1 \in 1..Cardinality(S)
  BY <1>2
<1>4. PICK k \in S : Cardinality({j \in S : j < k}) = 1 - 1
  BY <1>2, <1>3, PlaceExists
<1>5. {j \in S : j < k} = {}
  <2>1. IsFiniteSet({j \in S : j < k})
    BY <1>2, FS_Subset
  <2> QED
    BY <1>4, <2>1, FS_EmptySet
<1>6. \A q \in S : k <= q
  BY <1>2, <1>5
<1> QED
  BY <1>6 DEF Lowest

LEMMA UpsertedIs ==
  ASSUME NEW copies \in [Seqno -> Rev], NEW s \in Seqno, NEW r \in Rev
  PROVE  /\ Upserted(copies, s, r) \in [Seqno -> Rev]
         /\ Upserted(copies, s, r)[s] = Higher(copies[s], r)
         /\ \A q \in Seqno : q # s => Upserted(copies, s, r)[q] = copies[q]
         /\ Higher(copies[s], r) \in Nat /\ Higher(copies[s], r) >= r /\ Higher(copies[s], r) >= copies[s]
         /\ Higher(copies[s], r) = r \/ Higher(copies[s], r) = copies[s]
<1>1. copies[s] \in Nat /\ r \in Nat /\ copies[s] \in Rev
  BY DEF Rev
<1>2. Higher(copies[s], r) \in Rev
  BY <1>1 DEF Higher
<1> QED
  BY <1>1, <1>2 DEF Upserted, Higher

\* What the client takes: the first of the catch-up, or of what is published once the catch-up is through.
TakesFeed(v) == feed # <<>> /\ v = Head(feed) /\ feed' = Tail(feed) /\ live' = live
TakesLive(v) == feed = <<>> /\ ~lagged /\ live # <<>> /\ v = Head(live) /\ live' = Tail(live) /\ feed' = feed
Taken(v) ==
  /\ stage = "open" /\ v \in Event
  /\ feed' \in Seq(Event) /\ live' \in Seq(BotEvent \cup EntryEvent) /\ Rising(feed') /\ Rising(live') /\ Len(live') <= Buffer
  /\ Told(feed') \subseteq Told(feed) /\ Told(live') \subseteq Told(live)
  /\ \A w \in Told(feed') : mirror.cursor < w.rev
  /\ feed' # <<>> => \A i \in 1..Len(feed') : feed'[i].t # "hello"
  /\ \/ /\ TakesFeed(v)
        /\ v.t = "hello" => Told(feed') = Told(feed) /\ (asked = 0 => feed' # <<>>)
        /\ v.t # "hello" => /\ v \in Told(feed) /\ Told(feed) = Told(feed') \cup {v} /\ mirror.cursor < v.rev
                            /\ \A w \in Told(feed') : v.rev < w.rev
     \/ /\ TakesLive(v) /\ v.t # "hello" /\ Told(feed) = {} /\ Told(feed') = {}
        /\ v \in Told(live) /\ Told(live) = Told(live') \cup {v} /\ \A w \in Told(live') : v.rev < w.rev
LEMMA ReceiveTakes ==
  ASSUME Known, Receive
  PROVE  \E v \in Event :
           /\ Taken(v) /\ ((TakesFeed(v) /\ Apply(v, asked = 0)) \/ (TakesLive(v) /\ Apply(v, FALSE)))
           /\ UNCHANGED <<rev, bots, entries, added, saving, stage, read, lagged, asked, answer, cache, drops, saves, refetches, atSave>>
           /\ racing' = (IF feed' = <<>> /\ live' = <<>> /\ ~lagged THEN {} ELSE racing)
           /\ partial' = (partial /\ feed' # <<>>)
<1>1. /\ UNCHANGED <<rev, bots, entries, added, saving, stage, read, lagged, asked, answer, cache, drops, saves, refetches, atSave>>
      /\ racing' = (IF feed' = <<>> /\ live' = <<>> /\ ~lagged THEN {} ELSE racing)
      /\ partial' = (partial /\ feed' # <<>>)
  BY DEF Receive, host, bounds
<1>2. /\ Rising(feed) /\ Rising(live) /\ \A w \in Told(feed) : mirror.cursor < w.rev
  BY DEF Known, Lists
<1>3. CASE feed # <<>>
  <2>1. PICK v : v = Head(feed)
    OBVIOUS
  <2>2. Apply(v, asked = 0) /\ feed' = Tail(feed) /\ live' = live
    BY <1>3, <2>1 DEF Receive
  <2>3. stage = "open"
    BY <1>3 DEF Known, Stages
  <2>4. /\ v \in Event /\ feed' \in Seq(Event) /\ Rising(feed') /\ Len(feed') = Len(feed) - 1
        /\ Told(feed) = Told(feed') \cup (IF v.t = "hello" THEN {} ELSE {v})
        /\ v.t # "hello" => \A w \in Told(feed') : v.rev < w.rev
    BY <1>2, <1>3, <2>1, <2>2, StreamTypes, TailTold
  <2>5. \A i \in 1..Len(feed') : feed'[i].t # "hello"
    <3>1. ASSUME NEW i \in 1..Len(feed')
          PROVE  feed'[i].t # "hello"
      <4>1. i + 1 \in 1..Len(feed) /\ i + 1 # 1 /\ feed'[i] = feed[i + 1]
        BY <1>3, <2>2, StreamTypes
      <4> QED
        BY <1>2, <4>1 DEF Rising
    <3> QED
      BY <3>1
  <2>6. v.t = "hello" /\ asked = 0 => feed' # <<>>
    <3>1. v.t = "hello" /\ asked = 0 => Told(feed') # {}
      BY <1>3, <2>1, <2>4 DEF Known, Stages
    <3> QED
      BY <3>1, ToldNone
  <2>7. TakesFeed(v)
    BY <1>3, <2>1, <2>2 DEF TakesFeed
  <2>8. Taken(v)
    BY <1>2, <2>2, <2>3, <2>4, <2>5, <2>6, <2>7, StreamTypes DEF Taken
  <2> QED
    BY <1>1, <2>2, <2>4, <2>7, <2>8
<1>4. CASE feed = <<>>
  <2>1. PICK v : v = Head(live)
    OBVIOUS
  <2>2. Apply(v, FALSE) /\ live' = Tail(live) /\ feed' = feed /\ stage = "open" /\ ~lagged /\ live # <<>>
    BY <1>4, <2>1 DEF Receive
  <2>3. /\ v \in Event /\ live' \in Seq(Event) /\ Rising(live') /\ Len(live') = Len(live) - 1
        /\ Told(live) = Told(live') \cup (IF v.t = "hello" THEN {} ELSE {v})
        /\ v.t # "hello" => \A w \in Told(live') : v.rev < w.rev
    BY <1>2, <2>1, <2>2, StreamTypes, TailTold
  <2>4. v.t # "hello" /\ live' \in Seq(BotEvent \cup EntryEvent)
    BY <2>1, <2>2, StreamTypes, Kinds
  <2>5. Len(live') <= Buffer
    BY <2>3, StreamTypes, SyncAssumption
  <2>6. TakesLive(v) /\ Told(feed) = {}
    BY <1>4, <2>1, <2>2, ToldNone DEF TakesLive
  <2>7. Taken(v)
    BY <1>2, <1>4, <2>2, <2>3, <2>4, <2>5, <2>6, StreamTypes DEF Taken
  <2> QED
    BY <1>1, <2>2, <2>3, <2>6, <2>7
<1> QED
  BY <1>3, <1>4

LEMMA HelloTypes ==
  ASSUME Known, ApplyHello
  PROVE  /\ floors' \in [Bot -> 0..MaxEntries] /\ UNCHANGED <<mirror, skipped, strayed>>
         /\ \A b \in Bot : floors'[b] # 0 =>
              asked > 0 /\ floors'[b] \in Loaded(b) /\ floors'[b] \in Seqno /\ \A q \in Loaded(b) : floors'[b] <= q
         /\ \A b \in Bot : floors'[b] = 0 => asked = 0 \/ Loaded(b) = {}
<1>1. UNCHANGED <<mirror, skipped, strayed>>
  BY DEF ApplyHello
<1>2. ASSUME NEW b \in Bot
      PROVE  /\ floors'[b] \in 0..MaxEntries
             /\ floors'[b] # 0 =>
                   asked > 0 /\ floors'[b] \in Loaded(b) /\ floors'[b] \in Seqno /\ \A q \in Loaded(b) : floors'[b] <= q
             /\ floors'[b] = 0 => asked = 0 \/ Loaded(b) = {}
  <2>1. Loaded(b) \in SUBSET Seqno
    BY DEF Loaded, HeldOf
  <2>2. CASE asked > 0 /\ Loaded(b) # {}
    <3>1. floors'[b] = Lowest(Loaded(b))
      BY <2>2 DEF ApplyHello
    <3>2. Lowest(Loaded(b)) \in Loaded(b) /\ \A q \in Loaded(b) : Lowest(Loaded(b)) <= q
      BY <2>1, <2>2, LowestIs
    <3> HIDE DEF Lowest, Loaded
    <3>3. floors'[b] \in Loaded(b) /\ \A q \in Loaded(b) : floors'[b] <= q
      BY <3>1, <3>2
    <3>4. floors'[b] \in Seqno
      BY <2>1, <3>3
    <3>5. floors'[b] \in 0..MaxEntries /\ floors'[b] # 0
      BY <3>4, SyncAssumption DEF Seqno
    <3> QED
      BY <2>2, <3>3, <3>4, <3>5
  <2>3. CASE asked > 0 /\ Loaded(b) = {}
    <3>1. floors'[b] = 0
      BY <2>3 DEF ApplyHello
    <3> QED
      BY <2>3, <3>1, SyncAssumption
  <2>4. CASE asked = 0
    <3>1. floors'[b] = 0
      BY <2>4 DEF ApplyHello, NoFloors
    <3> QED
      BY <2>4, <3>1, SyncAssumption
  <2> QED
    BY <2>2, <2>3, <2>4, MirrorTypes
<1>3. floors' \in [Bot -> 0..MaxEntries]
  <2>1. floors' = [b \in Bot |-> floors'[b]]
    BY DEF ApplyHello, NoFloors
  <2> QED
    BY <1>2, <2>1
<1> QED
  BY <1>1, <1>2, <1>3

\* What an event does to the mirror.
BotApplied(v) ==
  /\ mirror' \in Mirror /\ mirror'.cursor = Bumped(v.rev)
  /\ mirror'.bots[v.bot] = (IF v.deleted THEN 0 ELSE v.rev) /\ \A b \in Bot : b # v.bot => mirror'.bots[b] = mirror.bots[b]
  /\ \A s \in Seqno : mirror'.entries[s] = IF v.deleted /\ BotOf(s) = v.bot THEN 0 ELSE mirror.entries[s]
EntryApplied(v) ==
  /\ mirror' \in Mirror /\ mirror'.cursor = Bumped(v.rev) /\ mirror'.bots = mirror.bots
  /\ \A s \in Seqno : s # v.seq => mirror'.entries[s] = mirror.entries[s]
  /\ mirror'.entries[v.seq] = IF Outside(v.seq, v.bot) THEN mirror.entries[v.seq] ELSE Higher(mirror.entries[v.seq], v.rev)

LEMMA AppliedMirror ==
  ASSUME Known
  PROVE  /\ \A v \in BotEvent : ApplyBot(v) => BotApplied(v)
         /\ \A v \in EntryEvent, fresh \in BOOLEAN : ApplyEntry(v, fresh) => EntryApplied(v)
<1>1. \A r \in Rev : Bumped(r) \in Rev
  BY MirrorTypes DEF Bumped, Higher
<1>2. 0 \in Rev
  BY SyncAssumption DEF Rev
<1>3. ASSUME NEW v \in BotEvent, ApplyBot(v)
      PROVE  BotApplied(v)
  <2> DEFINE bs == [mirror.bots EXCEPT ![v.bot] = IF v.deleted THEN 0 ELSE v.rev]
             es == [s \in Seqno |-> IF v.deleted /\ BotOf(s) = v.bot THEN 0 ELSE mirror.entries[s]]
  <2>1. mirror' = [cursor |-> Bumped(v.rev), bots |-> bs, entries |-> es]
    BY <1>3 DEF ApplyBot
  <2>2. bs \in [Bot -> Rev] /\ bs[v.bot] = (IF v.deleted THEN 0 ELSE v.rev) /\ \A b \in Bot : b # v.bot => bs[b] = mirror.bots[b]
    BY <1>2, Kinds, MirrorTypes
  <2>3. es \in [Seqno -> Rev] /\ \A s \in Seqno : es[s] = IF v.deleted /\ BotOf(s) = v.bot THEN 0 ELSE mirror.entries[s]
    BY <1>2, MirrorTypes
  <2>4. Bumped(v.rev) \in Rev
    BY <1>1, Kinds
  <2> HIDE DEF bs, es
  <2> QED
    BY <2>1, <2>2, <2>3, <2>4 DEF BotApplied, Mirror
<1>4. ASSUME NEW v \in EntryEvent, NEW fresh \in BOOLEAN, ApplyEntry(v, fresh)
      PROVE  EntryApplied(v)
  <2> DEFINE up == Upserted(mirror.entries, v.seq, v.rev)
             es == IF Outside(v.seq, v.bot) THEN mirror.entries ELSE up
  <2>1. mirror' = [cursor |-> Bumped(v.rev), bots |-> mirror.bots, entries |-> es]
    BY <1>4 DEF ApplyEntry
  <2>2. /\ up \in [Seqno -> Rev] /\ up[v.seq] = Higher(mirror.entries[v.seq], v.rev)
        /\ \A q \in Seqno : q # v.seq => up[q] = mirror.entries[q]
    <3>1. v.seq \in Seqno /\ v.rev \in Rev /\ mirror.entries \in [Seqno -> Rev]
      BY <1>4, Kinds, MirrorTypes
    <3> QED
      BY <3>1, UpsertedIs
  <2> HIDE DEF up
  <2>3. /\ es \in [Seqno -> Rev] /\ es[v.seq] = (IF Outside(v.seq, v.bot) THEN mirror.entries[v.seq] ELSE Higher(mirror.entries[v.seq], v.rev))
        /\ \A q \in Seqno : q # v.seq => es[q] = mirror.entries[q]
    BY <2>2, MirrorTypes
  <2>4. Bumped(v.rev) \in Rev
    BY <1>1, Kinds
  <2> HIDE DEF es
  <2> QED
    BY <2>1, <2>3, <2>4, MirrorTypes DEF EntryApplied, Mirror
<1> QED
  BY <1>3, <1>4

\* The mirror after an event: only versions the host has had, and a cursor that does not fall.
LEMMA AppliedFits ==
  ASSUME Known, NEW v \in BotEvent \cup EntryEvent, Fit(v), BotApplied(v) \/ EntryApplied(v), v \in BotEvent => BotApplied(v),
         v \in EntryEvent => EntryApplied(v)
  PROVE  /\ FitMirror(mirror') /\ mirror' \in Mirror
         /\ mirror'.cursor \in Nat /\ mirror'.cursor <= rev /\ mirror.cursor <= mirror'.cursor /\ v.rev <= mirror'.cursor
         /\ mirror'.cursor = mirror.cursor \/ mirror'.cursor = v.rev
<1>1. v.rev \in Nat /\ v.rev <= rev
  BY FitBound
<1>2. mirror' \in Mirror /\ mirror'.cursor = Bumped(v.rev)
  BY DEF BotApplied, EntryApplied
<1>3. /\ mirror'.cursor \in Nat /\ mirror'.cursor <= rev /\ mirror.cursor <= mirror'.cursor /\ v.rev <= mirror'.cursor
      /\ mirror'.cursor = mirror.cursor \/ mirror'.cursor = v.rev
  BY <1>1, <1>2, MirrorTypes DEF Bumped, Higher
<1>4. FitMirror(mirror)
  BY DEF Known, Fits
<1>5. CASE v \in BotEvent
  <2>1. \A s \in Seqno : mirror'.entries[s] # 0 => mirror'.entries[s] = mirror.entries[s]
    BY <1>5 DEF BotApplied
  <2>2. FitMirror(mirror')
    BY <1>4, <2>1 DEF FitMirror
  <2> QED
    BY <1>2, <1>3, <2>2
<1>6. CASE v \in EntryEvent
  <2>1. v.seq \in Seqno /\ FitCopy(v.seq, v.rev)
    BY <1>6, Kinds DEF Fit, FitEntry
  <2>2. \A s \in Seqno : mirror'.entries[s] = mirror.entries[s] \/ (s = v.seq /\ mirror'.entries[s] = v.rev)
    BY <1>6 DEF EntryApplied, Higher
  <2>3. FitMirror(mirror')
    BY <1>4, <2>1, <2>2 DEF FitMirror
  <2> QED
    BY <1>2, <1>3, <2>3
<1> QED
  BY <1>5, <1>6

LEMMA ReceiveKnown ==
  ASSUME Known, Receive
  PROVE  Known'
<1>1. PICK v \in Event :
        /\ Taken(v) /\ ((TakesFeed(v) /\ Apply(v, asked = 0)) \/ (TakesLive(v) /\ Apply(v, FALSE)))
        /\ UNCHANGED <<rev, bots, entries, added, saving, stage, read, lagged, asked, answer, cache, drops, saves, refetches, atSave>>
        /\ racing' = (IF feed' = <<>> /\ live' = <<>> /\ ~lagged THEN {} ELSE racing)
        /\ partial' = (partial /\ feed' # <<>>)
  BY ReceiveTakes
<1>2. PICK fresh \in BOOLEAN : Apply(v, fresh)
  <2>1. (asked = 0) \in BOOLEAN
    OBVIOUS
  <2> QED
    BY <1>1, <2>1
<1>3. racing' \subseteq Bot /\ partial' \in BOOLEAN /\ stage = "open" /\ asked <= mirror.cursor /\ read = {}
  BY <1>1, StreamTypes DEF Known, TypeOK, Stages, Taken
<1>4. /\ mirror' \in Mirror /\ mirror'.cursor \in Nat /\ mirror'.cursor <= rev /\ mirror.cursor <= mirror'.cursor /\ FitMirror(mirror')
      /\ floors' \in [Bot -> 0..MaxEntries] /\ skipped' \subseteq Bot /\ strayed' \subseteq Bot
      /\ \A w \in Told(feed') : mirror'.cursor < w.rev
  <2>1. CASE v.t = "hello"
    <3>1. ApplyHello
      BY <1>2, <2>1 DEF Apply
    <3>2. floors' \in [Bot -> 0..MaxEntries] /\ UNCHANGED <<mirror, skipped, strayed>>
      BY <3>1, HelloTypes
    <3> QED
      BY <1>1, <3>2, MirrorTypes DEF Known, TypeOK, Fits, Taken
  <2>2. ASSUME v.t # "hello"
        PROVE  /\ v \in BotEvent \cup EntryEvent /\ v \in Told(feed) \cup Told(live) /\ Fit(v) /\ v.rev \in Nat
               /\ \A w \in Told(feed') : mirror.cursor < w.rev /\ v.rev < w.rev
    <3>1. v \in BotEvent \cup EntryEvent /\ v \in Told(feed) \cup Told(live)
      BY <1>1, <2>2, Kinds DEF Taken
    <3>2. Fit(v) /\ v.rev \in Nat
      BY <3>1, Kinds DEF Known, Fits
    <3>3. \A w \in Told(feed') : mirror.cursor < w.rev /\ v.rev < w.rev
      BY <1>1, <2>2 DEF Taken
    <3> QED
      BY <3>1, <3>2, <3>3
  <2>3. ASSUME v \in BotEvent
        PROVE  <1>4!:
    <3>1. v.t = "bot" /\ ApplyBot(v)
      BY <1>2, <2>3, Kinds DEF Apply
    <3>2. BotApplied(v)
      BY <2>3, <3>1, AppliedMirror
    <3>3. v \notin EntryEvent
      BY <2>3, Kinds
    <3>4. /\ FitMirror(mirror') /\ mirror' \in Mirror
          /\ mirror'.cursor \in Nat /\ mirror'.cursor <= rev /\ mirror.cursor <= mirror'.cursor
          /\ mirror'.cursor = mirror.cursor \/ mirror'.cursor = v.rev
      BY <2>2, <2>3, <3>1, <3>2, <3>3, AppliedFits
    <3>5. floors' \in [Bot -> 0..MaxEntries] /\ skipped' \subseteq Bot /\ strayed' \subseteq Bot
      <4>1. 0 \in 0..MaxEntries
        BY SyncAssumption
      <4>2. floors' \in [Bot -> 0..MaxEntries]
        BY <3>1, <4>1, MirrorTypes DEF ApplyBot
      <4>3. skipped' \subseteq Bot /\ strayed' \subseteq Bot
        BY <3>1 DEF ApplyBot, Known, TypeOK
      <4> QED
        BY <4>2, <4>3
    <3> QED
      BY <2>2, <3>1, <3>4, <3>5
  <2>4. ASSUME v \in EntryEvent
        PROVE  <1>4!:
    <3>1. v.t = "entry" /\ ApplyEntry(v, fresh) /\ v.bot \in Bot
      BY <1>2, <2>4, Kinds DEF Apply
    <3>2. EntryApplied(v)
      BY <2>4, <3>1, AppliedMirror
    <3>3. v \notin BotEvent
      BY <2>4, Kinds
    <3>4. /\ FitMirror(mirror') /\ mirror' \in Mirror
          /\ mirror'.cursor \in Nat /\ mirror'.cursor <= rev /\ mirror.cursor <= mirror'.cursor
          /\ mirror'.cursor = mirror.cursor \/ mirror'.cursor = v.rev
      BY <2>2, <2>4, <3>1, <3>2, <3>3, AppliedFits
    <3>5. floors' \in [Bot -> 0..MaxEntries] /\ skipped' \subseteq Bot /\ strayed' \subseteq Bot
      BY <3>1, MirrorTypes DEF ApplyEntry, Known, TypeOK
    <3> QED
      BY <2>2, <3>1, <3>4, <3>5
  <2> QED
    BY <2>1, <2>2, <2>3, <2>4
<1>5. TypeOK'
  <2>1. feed' \in Seq(BotEvent \cup EntryEvent \cup {Hello}) /\ live' \in Seq(BotEvent \cup EntryEvent) /\ Len(live') <= Buffer
    BY <1>1 DEF Taken, Event
  <2> QED
    BY <1>1, <1>3, <1>4, <2>1 DEF Known, TypeOK
<1>6. Lists'
  <2>1. Rising(feed') /\ Rising(live') /\ read' = {}
    BY <1>1, <1>3 DEF Taken
  <2> QED
    BY <1>4, <2>1 DEF Lists
<1>7. Stages'
  <2>1. cache.cursor <= mirror'.cursor /\ asked <= mirror'.cursor
    BY <1>3, <1>4, MirrorTypes
  <2>2. feed' # <<>> => Head(feed').t # "hello"
    <3>1. feed' # <<>> => Head(feed') = feed'[1] /\ 1 \in 1..Len(feed')
      BY <1>1 DEF Taken
    <3> QED
      BY <1>1, <3>1 DEF Taken
  <2> QED
    BY <1>1, <1>3, <2>1, <2>2 DEF Stages
<1>8. FitMirror(cache') /\ \A w \in read' \cup Told(feed') \cup Told(live') : w \in read \cup Told(feed) \cup Told(live)
  BY <1>1 DEF Known, Fits, Taken
<1> QED
  BY <1>1, <1>4, <1>5, <1>6, <1>7, <1>8, StillKnown DEF Still

LEMMA EndsKnown ==
  ASSUME Known, StreamEnds, Still, saving' \subseteq Bot, drops' \in 0..MaxDrops, skipped' \subseteq Bot, partial' \in BOOLEAN,
         UNCHANGED <<asked, floors, cache, saves, refetches, atSave, strayed>>, mirror' = mirror \/ mirror' = cache,
         answer' = answer \/ answer' = NoAnswer
  PROVE  Known'
<1>1. /\ stage' = "none" /\ read' = {} /\ feed' = <<>> /\ live' = <<>> /\ lagged' = FALSE /\ racing' = {}
  BY DEF StreamEnds
<1>2. mirror' \in Mirror /\ mirror'.cursor <= rev /\ cache.cursor <= mirror'.cursor /\ FitMirror(mirror') /\ FitMirror(cache')
  BY MirrorTypes, RowTypes DEF Known, Fits
<1>3. TypeOK'
  <2>1. Len(live') <= Buffer
    BY <1>1, SyncAssumption
  <2> QED
    <3>1. stage' \in {"none", "subscribed", "bots", "open"} /\ read' \subseteq BotEvent /\ lagged' \in BOOLEAN /\ racing' \subseteq Bot
      BY <1>1
    <3>2. feed' \in Seq(BotEvent \cup EntryEvent \cup {Hello}) /\ live' \in Seq(BotEvent \cup EntryEvent)
      BY <1>1
    <3>3. answer' \in EntryEvent \cup {NoAnswer}
      BY StreamTypes
    <3>4. mirror' \in Mirror /\ mirror'.cursor <= rev' /\ cache' \in Mirror
      BY <1>2, MirrorTypes DEF Still
    <3>5. TypeOK
      BY DEF Known
    <3> QED
      BY <2>1, <3>1, <3>2, <3>3, <3>4, <3>5 DEF TypeOK, Still
<1>4. Lists'
  BY <1>1, ToldNone DEF Lists
<1>5. Stages'
  BY <1>1, <1>2 DEF Stages
<1> QED
  BY <1>1, <1>2, <1>3, <1>4, <1>5, ToldNone, StillKnown

LEMMA EndingKnown ==
  ASSUME Known, Resync \/ Drop \/ Relaunch \/ HostDies
  PROVE  Known'
<1> USE DEF host, stream, client, bounds, history
<1>1. CASE Resync
  <2>1. /\ StreamEnds /\ Still /\ saving' = saving /\ drops' = drops /\ skipped' = skipped \cup racing /\ partial' = partial
        /\ UNCHANGED <<asked, floors, cache, saves, refetches, atSave, strayed, mirror, answer>>
    BY <1>1 DEF Resync, Still
  <2> QED
    BY <2>1, EndsKnown DEF Known, TypeOK
<1>2. Fails => drops' \in 0..MaxDrops
  BY SyncAssumption DEF Fails, Known, TypeOK
<1>3. CASE Drop
  <2>1. /\ StreamEnds /\ Still /\ saving' = saving /\ Fails /\ skipped' = skipped \cup racing /\ partial' = partial
        /\ UNCHANGED <<asked, floors, cache, saves, refetches, atSave, strayed, mirror, answer>>
    BY <1>3 DEF Drop, Still
  <2> QED
    BY <1>2, <2>1, EndsKnown DEF Known, TypeOK
<1>4. CASE Relaunch
  <2>1. /\ StreamEnds /\ Still /\ saving' = saving /\ Fails /\ skipped' = skipped \cup racing \cup atSave.racing
        /\ mirror' = cache /\ answer' = NoAnswer /\ partial' \in BOOLEAN
        /\ UNCHANGED <<asked, floors, cache, saves, refetches, atSave, strayed>>
    BY <1>4 DEF Relaunch, Still
  <2>2. atSave.racing \subseteq Bot
    BY DEF Known, TypeOK
  <2> QED
    BY <1>2, <2>1, <2>2, EndsKnown DEF Known, TypeOK
<1>5. CASE HostDies
  <2>1. /\ StreamEnds /\ Still /\ saving' = {} /\ Fails /\ skipped' = skipped \cup racing \cup saving /\ partial' = partial
        /\ UNCHANGED <<asked, floors, cache, saves, refetches, atSave, strayed, mirror, answer>>
    BY <1>5 DEF HostDies, Still
  <2> QED
    BY <1>2, <2>1, EndsKnown DEF Known, TypeOK
<1> QED
  BY <1>1, <1>3, <1>4, <1>5

\* A step that puts copies in the mirror, or saves it.
LEMMA CopiesKnown ==
  ASSUME Known, Still, saves' \in 0..MaxSaves, strayed' \subseteq Bot, answer' = answer \/ answer' = NoAnswer,
         UNCHANGED <<saving, stage, read, feed, live, lagged, asked, floors, drops, refetches, racing, skipped, partial>>,
         mirror' \in Mirror, mirror'.cursor = mirror.cursor, FitMirror(mirror'),
         cache' \in Mirror, cache'.cursor <= mirror.cursor, FitMirror(cache'), atSave' \in [racing : SUBSET Bot, partial : BOOLEAN]
  PROVE  Known'
<1>1. TypeOK'
  BY DEF Known, TypeOK, Still
<1>2. Lists'
  BY DEF Known, Lists, Still
<1>3. Stages'
  BY DEF Known, Stages, Still
<1> QED
  BY <1>1, <1>2, <1>3, StillKnown

AnswerApplied ==
  /\ mirror' \in Mirror /\ mirror'.cursor = mirror.cursor /\ mirror'.bots = mirror.bots
  /\ \A s \in Seqno : s # answer.seq => mirror'.entries[s] = mirror.entries[s]
  /\ mirror'.entries[answer.seq] = Higher(mirror.entries[answer.seq], answer.rev)
LEMMA AnsweredKnown ==
  ASSUME Known, Answered
  PROVE  /\ Known' /\ AnswerApplied /\ answer \in EntryEvent /\ FitEntry(answer) /\ answer' = NoAnswer
         /\ strayed' = (IF Late(answer.seq, answer.bot) THEN strayed \cup {answer.bot} ELSE Strays(answer.bot))
         /\ UNCHANGED <<rev, bots, entries, added, saving, stage, read, feed, live, lagged, asked, floors, cache, drops, saves, refetches,
                        racing, atSave, skipped, partial>>
<1> USE DEF host, stream, client, bounds, history
<1>1. /\ answer # NoAnswer /\ answer' = NoAnswer
      /\ mirror' = [mirror EXCEPT !.entries = Upserted(mirror.entries, answer.seq, answer.rev)]
      /\ strayed' = (IF Late(answer.seq, answer.bot) THEN strayed \cup {answer.bot} ELSE Strays(answer.bot))
      /\ UNCHANGED <<rev, bots, entries, added, saving, stage, read, feed, live, lagged, asked, floors, cache, drops, saves, refetches,
                     racing, atSave, skipped, partial>>
  BY DEF Answered
<1>2. answer \in EntryEvent /\ FitEntry(answer) /\ answer.seq \in Seqno /\ answer.rev \in Rev /\ answer.bot \in Bot
  BY <1>1, StreamTypes, Kinds DEF Known, Fits
<1> DEFINE up == Upserted(mirror.entries, answer.seq, answer.rev)
<1>3. /\ up \in [Seqno -> Rev] /\ up[answer.seq] = Higher(mirror.entries[answer.seq], answer.rev)
      /\ \A q \in Seqno : q # answer.seq => up[q] = mirror.entries[q]
      /\ up[answer.seq] = answer.rev \/ up[answer.seq] = mirror.entries[answer.seq]
  <2>1. mirror.entries \in [Seqno -> Rev]
    BY MirrorTypes
  <2> QED
    <3>1. PICK k \in Seqno : k = answer.seq
      BY <1>2
    <3>2. PICK r \in Rev : r = answer.rev
      BY <1>2
    <3>3. /\ Upserted(mirror.entries, k, r) \in [Seqno -> Rev] /\ Upserted(mirror.entries, k, r)[k] = Higher(mirror.entries[k], r)
          /\ \A q \in Seqno : q # k => Upserted(mirror.entries, k, r)[q] = mirror.entries[q]
          /\ Higher(mirror.entries[k], r) = r \/ Higher(mirror.entries[k], r) = mirror.entries[k]
      BY <2>1, UpsertedIs
    <3> QED
      BY <3>1, <3>2, <3>3
<1> HIDE DEF up
<1>4. AnswerApplied
  <2>1. mirror' = [cursor |-> mirror.cursor, bots |-> mirror.bots, entries |-> up]
    BY <1>1, MirrorTypes DEF Mirror, up
  <2> QED
    BY <1>3, <2>1, MirrorTypes DEF AnswerApplied, Mirror
<1>5. FitMirror(mirror')
  <2>1. FitMirror(mirror) /\ FitCopy(answer.seq, answer.rev)
    BY <1>2 DEF Known, Fits, FitEntry
  <2>2. \A s \in Seqno : mirror'.entries[s] = mirror.entries[s] \/ (s = answer.seq /\ mirror'.entries[s] = answer.rev)
    BY <1>4 DEF AnswerApplied, Higher
  <2> QED
    BY <2>1, <2>2 DEF FitMirror
<1>6. strayed' \subseteq Bot
  BY <1>1, <1>2 DEF Known, TypeOK, Strays
<1>7. FitMirror(cache') /\ cache' \in Mirror /\ cache'.cursor <= mirror.cursor /\ saves' \in 0..MaxSaves
      /\ atSave' \in [racing : SUBSET Bot, partial : BOOLEAN]
  BY <1>1, MirrorTypes DEF Known, Fits, TypeOK
<1>8. Known'
  BY <1>1, <1>4, <1>5, <1>6, <1>7, CopiesKnown DEF Still, AnswerApplied
<1> QED
  BY <1>1, <1>2, <1>4, <1>8

LEMMA NewestIs ==
  ASSUME NEW S \in SUBSET Seqno, NEW n \in Nat \ {0}
  PROVE  /\ Newest(n, S) \subseteq S
         /\ \A s \in Newest(n, S), q \in S : s < q => q \in Newest(n, S)
         /\ S # {} => \E k \in Newest(n, S) : /\ \A q \in S : q <= k
                                              /\ n = 1 => Newest(n, S) = {k}
<1> DEFINE above(s) == {x \in S : x > s}
<1>1. IsFiniteSet(Seqno) /\ Seqno \subseteq Nat
  BY SyncAssumption, FS_Interval DEF Seqno
<1>2. IsFiniteSet(S) /\ S \subseteq Int /\ \A s \in S : s \in Int
  <2>1. IsFiniteSet(S)
    BY <1>1, FS_Subset
  <2> QED
    BY <1>1, <2>1
<1>3. \A s \in S : IsFiniteSet(above(s)) /\ Cardinality(above(s)) \in Nat
  <2>1. TAKE s \in S
  <2>2. above(s) \in SUBSET S
    OBVIOUS
  <2>3. IsFiniteSet(above(s))
    BY <1>2, <2>2, FS_Subset
  <2> QED
    BY <2>3, FS_CardinalityType
<1>4. Newest(n, S) = {s \in S : Cardinality(above(s)) < n}
  BY DEF Newest
<1>5. ASSUME NEW s \in S, NEW q \in S, s < q
      PROVE  Cardinality(above(q)) <= Cardinality(above(s))
  <2>1. \A x \in S : x > q => x > s
    BY <1>2, <1>5
  <2>2. above(q) \in SUBSET above(s)
    BY <2>1
  <2> QED
    BY <1>3, <2>2, FS_Subset
<1>6. ASSUME S # {}
      PROVE  \E k \in Newest(n, S) : (\A q \in S : q <= k) /\ (n = 1 => Newest(n, S) = {k})
  <2>1. PICK k \in S : \A q \in S : q <= k
    BY <1>2, <1>6, HighestExists
  <2>2. above(k) = {}
    <3>1. \A x \in S : ~(x > k)
      BY <1>2, <2>1
    <3> QED
      BY <3>1
  <2>3. Cardinality(above(k)) = 0
    BY <2>2, FS_EmptySet
  <2>4. k \in Newest(n, S)
    BY <1>4, <2>3
  <2>5. ASSUME n = 1, NEW s \in Newest(n, S)
        PROVE  s = k
    <3>1. Cardinality(above(s)) = 0 /\ s \in S
      BY <1>3, <1>4, <2>5
    <3>2. above(s) = {}
      BY <1>3, <3>1, FS_EmptySet
    <3>3. ~(k > s)
      BY <3>2
    <3> QED
      BY <1>2, <2>1, <3>1, <3>3
  <2> QED
    BY <2>1, <2>4, <2>5
<1> HIDE DEF above
<1>7. \A s \in Newest(n, S), q \in S : s < q => q \in Newest(n, S)
  BY <1>3, <1>4, <1>5
<1> QED
  BY <1>4, <1>6, <1>7

Paged(b, k) ==
  /\ k \in Seqno /\ entries[k].rev # 0 /\ BotOf(k) = b /\ mirror.entries[k] = 0 /\ \A q \in HeldOf(b) : k < q
  /\ \A s \in Seqno : entries[s].rev # 0 /\ BotOf(s) = b /\ (\A q \in HeldOf(b) : s < q) => s <= k
  /\ mirror' \in Mirror /\ mirror'.cursor = mirror.cursor /\ mirror'.bots = mirror.bots
  /\ mirror'.entries[k] = entries[k].rev
  /\ \A s \in Seqno : s # k => mirror'.entries[s] = mirror.entries[s]
LEMMA LoadOlderKnown ==
  ASSUME Known, NEW b \in Bot, LoadOlder(b)
  PROVE  /\ Known' /\ (\E k \in Seqno : Paged(b, k)) /\ stage = "open" /\ strayed' = Strays(b)
         /\ UNCHANGED <<rev, bots, entries, added, saving, stage, read, feed, live, lagged, asked, floors, answer, cache, drops, saves, refetches,
                        racing, atSave, skipped, partial>>
<1> USE DEF host, stream, client, bounds, history
<1> DEFINE older == {s \in EntriesOf(b) : \A q \in HeldOf(b) : s < q}
           es == [s \in Seqno |-> IF s \in Newest(1, older) THEN entries[s].rev ELSE mirror.entries[s]]
<1>1. /\ older # {} /\ mirror' = [mirror EXCEPT !.entries = es] /\ stage = "open" /\ strayed' = Strays(b)
      /\ UNCHANGED <<rev, bots, entries, added, saving, stage, read, feed, live, lagged, asked, floors, answer, cache, drops, saves, refetches,
                     racing, atSave, skipped, partial>>
  BY DEF LoadOlder
<1>2. older \in SUBSET Seqno
  BY DEF EntriesOf
<1>3. PICK k \in Newest(1, older) : (\A q \in older : q <= k) /\ Newest(1, older) = {k}
  <2> HIDE DEF older
  <2>1. 1 \in Nat \ {0}
    OBVIOUS
  <2> QED
    BY <1>1, <1>2, <2>1, NewestIs
<1>4. k \in older
  BY <1>3 DEF Newest
<1>5. k \in Seqno /\ entries[k].rev # 0 /\ BotOf(k) = b /\ \A q \in HeldOf(b) : k < q
  BY <1>4 DEF EntriesOf
<1>6. mirror.entries[k] = 0
  BY <1>5, RowTypes DEF HeldOf
<1>7. \A s \in Seqno : entries[s].rev # 0 /\ BotOf(s) = b /\ (\A q \in HeldOf(b) : s < q) => s <= k
  <2>1. TAKE s \in Seqno
  <2>2. entries[s].rev # 0 /\ BotOf(s) = b /\ (\A q \in HeldOf(b) : s < q) => s \in older
    BY DEF EntriesOf
  <2> HIDE DEF older
  <2> QED
    BY <1>3, <2>2
<1>8. es \in [Seqno -> Rev] /\ es[k] = entries[k].rev /\ \A s \in Seqno : s # k => es[s] = mirror.entries[s]
  <2>1. es = [s \in Seqno |-> IF s = k THEN entries[s].rev ELSE mirror.entries[s]]
    BY <1>3
  <2> HIDE DEF es
  <2> QED
    BY <1>5, <2>1, RowTypes, MirrorTypes
<1> HIDE DEF es, older
<1>9. mirror' = [cursor |-> mirror.cursor, bots |-> mirror.bots, entries |-> es]
  BY <1>1, MirrorTypes DEF Mirror
<1>10. Paged(b, k)
  BY <1>5, <1>6, <1>7, <1>8, <1>9, MirrorTypes DEF Paged, Mirror
<1>11. FitMirror(mirror')
  <2>1. FitMirror(mirror) /\ FitCopy(k, entries[k].rev)
    BY <1>5, RowTypes DEF Known, Fits, Rows, FitCopy
  <2>2. \A s \in Seqno : mirror'.entries[s] = mirror.entries[s] \/ (s = k /\ mirror'.entries[s] = entries[k].rev)
    BY <1>10 DEF Paged
  <2> QED
    BY <2>1, <2>2 DEF FitMirror
<1>12. strayed' \subseteq Bot
  BY <1>1 DEF Known, TypeOK, Strays
<1>13. FitMirror(cache') /\ cache' \in Mirror /\ cache'.cursor <= mirror.cursor /\ saves' \in 0..MaxSaves
      /\ atSave' \in [racing : SUBSET Bot, partial : BOOLEAN]
  BY <1>1, MirrorTypes DEF Known, Fits, TypeOK
<1>14. Known'
  BY <1>1, <1>10, <1>11, <1>12, <1>13, CopiesKnown DEF Still, Paged
<1> QED
  BY <1>1, <1>5, <1>10, <1>14

Stored ==
  /\ cache' \in Mirror /\ cache'.cursor = mirror.cursor /\ cache'.bots = mirror.bots
  /\ \A s \in Seqno : cache'.entries[s] # 0 => cache'.entries[s] = mirror.entries[s]
  /\ \A s, q \in Seqno : cache'.entries[s] # 0 /\ s < q /\ mirror.entries[q] # 0 /\ BotOf(q) = BotOf(s) =>
        cache'.entries[q] = mirror.entries[q]
  /\ \A b \in Bot : HeldOf(b) # {} => \E s \in HeldOf(b) : cache'.entries[s] # 0
LEMMA SaveKnown ==
  ASSUME Known, Save
  PROVE  /\ Known' /\ Stored /\ atSave' = [racing |-> racing, partial |-> partial]
         /\ UNCHANGED <<rev, bots, entries, added, saving, stage, read, feed, live, lagged, mirror, asked, floors, answer, drops, refetches,
                        racing, skipped, strayed, partial>>
<1> USE DEF host, stream, client, bounds, history
<1> DEFINE kept == UNION {Newest(CATCH_UP_PER_BOT, HeldOf(b)) : b \in Bot}
           es == [s \in Seqno |-> IF s \in kept THEN mirror.entries[s] ELSE 0]
<1>1. /\ saves' \in 0..MaxSaves /\ cache' = [mirror EXCEPT !.entries = es]
      /\ atSave' = [racing |-> racing, partial |-> partial]
      /\ UNCHANGED <<rev, bots, entries, added, saving, stage, read, feed, live, lagged, mirror, asked, floors, answer, drops, refetches,
                     racing, skipped, strayed, partial>>
  <2>1. saves < MaxSaves /\ saves' = saves + 1 /\ saves \in 0..MaxSaves
    BY DEF Save, Known, TypeOK
  <2>2. saves' \in 0..MaxSaves
    BY <2>1, SyncAssumption
  <2> QED
    BY <2>2 DEF Save
<1>2. \A b \in Bot : HeldOf(b) \in SUBSET Seqno
  BY DEF HeldOf
<1>3. CATCH_UP_PER_BOT \in Nat \ {0}
  BY SyncAssumption
<1>4. \A b \in Bot : /\ Newest(CATCH_UP_PER_BOT, HeldOf(b)) \subseteq HeldOf(b)
                     /\ \A s \in Newest(CATCH_UP_PER_BOT, HeldOf(b)), q \in HeldOf(b) : s < q => q \in Newest(CATCH_UP_PER_BOT, HeldOf(b))
                     /\ HeldOf(b) # {} => Newest(CATCH_UP_PER_BOT, HeldOf(b)) # {}
  <2>1. TAKE b \in Bot
  <2>2. PICK H \in SUBSET Seqno : H = HeldOf(b)
    BY <1>2
  <2>3. /\ Newest(CATCH_UP_PER_BOT, H) \subseteq H
        /\ \A s \in Newest(CATCH_UP_PER_BOT, H), q \in H : s < q => q \in Newest(CATCH_UP_PER_BOT, H)
        /\ H # {} => Newest(CATCH_UP_PER_BOT, H) # {}
    BY <1>3, NewestIs
  <2> QED
    BY <2>2, <2>3
<1>5. \A s \in kept : s \in Seqno /\ mirror.entries[s] # 0 /\ s \in Newest(CATCH_UP_PER_BOT, HeldOf(BotOf(s)))
  <2>1. ASSUME NEW s \in kept
        PROVE  s \in Seqno /\ mirror.entries[s] # 0 /\ s \in Newest(CATCH_UP_PER_BOT, HeldOf(BotOf(s)))
    <3>1. PICK b \in Bot : s \in Newest(CATCH_UP_PER_BOT, HeldOf(b))
      OBVIOUS
    <3>2. s \in HeldOf(b)
      BY <1>4, <3>1
    <3>3. BotOf(s) = b
      BY <3>2 DEF HeldOf
    <3> QED
      BY <3>1, <3>2, <3>3 DEF HeldOf
  <2> QED
    BY <2>1
<1>6. \A s \in Seqno : BotOf(s) \in Bot /\ (s \in Newest(CATCH_UP_PER_BOT, HeldOf(BotOf(s))) => s \in kept)
  BY RowTypes
<1> HIDE DEF kept
<1>7. es \in [Seqno -> Rev] /\ \A s \in Seqno : es[s] = IF s \in kept THEN mirror.entries[s] ELSE 0
  <2>1. 0 \in Rev
    BY SyncAssumption DEF Rev
  <2> QED
    BY <2>1, MirrorTypes
<1> HIDE DEF es
<1>8. cache' = [cursor |-> mirror.cursor, bots |-> mirror.bots, entries |-> es]
  BY <1>1, MirrorTypes DEF Mirror
<1>9. cache' \in Mirror /\ cache'.cursor = mirror.cursor /\ cache'.bots = mirror.bots /\ cache'.entries = es
  BY <1>7, <1>8, MirrorTypes DEF Mirror
<1>10. ASSUME NEW s \in Seqno, NEW q \in Seqno, es[s] # 0, s < q, mirror.entries[q] # 0, BotOf(q) = BotOf(s)
       PROVE  es[q] = mirror.entries[q]
  <2>1. s \in Newest(CATCH_UP_PER_BOT, HeldOf(BotOf(s))) /\ q \in HeldOf(BotOf(s)) /\ BotOf(s) \in Bot
    BY <1>5, <1>6, <1>7, <1>10 DEF HeldOf
  <2>2. q \in Newest(CATCH_UP_PER_BOT, HeldOf(BotOf(q)))
    BY <1>4, <1>10, <2>1
  <2> QED
    BY <1>6, <1>7, <2>2
<1>11. ASSUME NEW b \in Bot, HeldOf(b) # {}
       PROVE  \E s \in HeldOf(b) : es[s] # 0
  <2>1. PICK s : s \in Newest(CATCH_UP_PER_BOT, HeldOf(b))
    BY <1>4, <1>11
  <2>2. s \in HeldOf(b)
    BY <1>4, <2>1
  <2>3. s \in Seqno /\ mirror.entries[s] # 0 /\ BotOf(s) = b
    BY <2>2 DEF HeldOf
  <2>4. s \in kept
    BY <1>6, <2>1, <2>3
  <2> QED
    BY <1>7, <2>2, <2>3, <2>4
<1>12. Stored
  <2>1. \A s \in Seqno : es[s] # 0 => es[s] = mirror.entries[s]
    BY <1>7
  <2> QED
    BY <1>9, <1>10, <1>11, <2>1 DEF Stored
<1>13. FitMirror(cache') /\ FitMirror(mirror')
  <2>1. FitMirror(mirror)
    BY DEF Known, Fits
  <2>2. FitMirror(cache')
    BY <1>12, <2>1 DEF FitMirror, Stored
  <2> QED
    BY <1>1, <2>1, <2>2
<1>14. mirror' \in Mirror /\ strayed' \subseteq Bot /\ atSave' \in [racing : SUBSET Bot, partial : BOOLEAN] /\ cache'.cursor <= mirror.cursor
  BY <1>1, <1>9, MirrorTypes, RowTypes DEF Known, TypeOK
<1>15. Known'
  BY <1>1, <1>9, <1>13, <1>14, CopiesKnown DEF Still
<1> QED
  BY <1>1, <1>12, <1>15

LEMMA InitKnown == Init => Known
<1> SUFFICES ASSUME Init
             PROVE  Known
  OBVIOUS
<1>1. First \in Bot
  BY SyncAssumption DEF First
<1>2. /\ rev = Early + 1 /\ bots = [b \in Bot |-> [rev |-> IF b = First THEN 1 ELSE 0, deleted |-> FALSE]]
      /\ entries = [s \in Seqno |-> [bot |-> First, rev |-> IF s <= Early THEN s + 1 ELSE 0]]
      /\ added = Early /\ saving = {} /\ stage = "none" /\ read = {} /\ feed = <<>> /\ live = <<>> /\ lagged = FALSE
      /\ mirror = Empty /\ asked = 0 /\ floors = NoFloors /\ answer = NoAnswer /\ cache = Empty
      /\ drops = 0 /\ saves = 0 /\ refetches = 0
      /\ racing = {} /\ atSave = [racing |-> {}, partial |-> TRUE] /\ skipped = {} /\ strayed = {} /\ partial = TRUE
  BY DEF Init
<1> HIDE DEF First
<1>3. Early \in Nat /\ MaxRev \in Nat /\ Early < MaxRev /\ MaxEntries \in Nat /\ Early <= MaxEntries /\ Buffer \in Nat
  BY SyncAssumption
<1>4. 0 \in Rev /\ 1 \in Rev /\ Early + 1 \in Rev /\ rev \in Rev /\ rev \in Nat
  BY <1>2, <1>3 DEF Rev
<1>5. \A s \in Seqno : s \in Nat /\ s >= 1 /\ (s <= Early => s + 1 \in Rev)
  BY <1>3 DEF Seqno, Rev
<1>6. \A b \in Bot : bots[b] = [rev |-> IF b = First THEN 1 ELSE 0, deleted |-> FALSE]
  BY <1>2
<1>7. \A b \in Bot : bots[b].rev = (IF b = First THEN 1 ELSE 0) /\ bots[b].deleted = FALSE
  <2>1. TAKE b \in Bot
  <2>2. bots[b] = [rev |-> IF b = First THEN 1 ELSE 0, deleted |-> FALSE]
    BY <1>6
  <2> QED
    BY <2>2
<1>8. bots \in [Bot -> [rev : Rev, deleted : BOOLEAN]]
  BY <1>2, <1>4
<1>9. \A s \in Seqno : entries[s] = [bot |-> First, rev |-> IF s <= Early THEN s + 1 ELSE 0]
  BY <1>2
<1>10. \A s \in Seqno : entries[s].bot = First /\ entries[s].rev = (IF s <= Early THEN s + 1 ELSE 0)
  <2>1. TAKE s \in Seqno
  <2>2. entries[s] = [bot |-> First, rev |-> IF s <= Early THEN s + 1 ELSE 0]
    BY <1>9
  <2> QED
    BY <2>2
<1>11. entries \in [Seqno -> Row]
  <2>1. \A s \in Seqno : (IF s <= Early THEN s + 1 ELSE 0) \in Rev
    BY <1>4, <1>5
  <2> QED
    BY <1>1, <1>2, <2>1 DEF Row
<1>12. Empty \in Mirror /\ Empty.cursor = 0 /\ \A s \in Seqno : Empty.entries[s] = 0
  BY <1>4 DEF Empty, Mirror
<1>13. NoFloors \in [Bot -> 0..MaxEntries]
  BY <1>3 DEF NoFloors
<1>14. TypeOK
  <2>1. /\ rev \in Rev /\ added \in 0..MaxEntries /\ saving \subseteq Bot /\ Len(live) <= Buffer
        /\ mirror.cursor <= rev /\ drops \in 0..MaxDrops /\ saves \in 0..MaxSaves /\ refetches \in 0..MaxRefetches
    BY <1>2, <1>3, <1>4, <1>12, SyncAssumption
  <2>2. feed \in Seq(BotEvent \cup EntryEvent \cup {Hello}) /\ live \in Seq(BotEvent \cup EntryEvent)
    BY <1>2
  <2>3. mirror \in Mirror /\ cache \in Mirror /\ asked \in Rev /\ floors \in [Bot -> 0..MaxEntries]
    BY <1>2, <1>4, <1>12, <1>13
  <2>4. atSave \in [racing : SUBSET Bot, partial : BOOLEAN]
    BY <1>2
  <2> QED
    BY <1>2, <1>8, <1>11, <2>1, <2>2, <2>3, <2>4 DEF TypeOK
<1>15. Rows
  <2>1. /\ \A b \in Bot : bots[b].rev <= rev /\ (bots[b].deleted => bots[b].rev # 0)
        /\ \A a, b \in Bot : bots[a].rev # 0 /\ bots[a].rev = bots[b].rev => a = b
        /\ \E b \in Bot : bots[b].rev # 0
    BY <1>1, <1>2, <1>3, <1>7
  <2>2. \A s \in Seqno : entries[s].rev <= rev /\ (entries[s].rev # 0 => s <= added /\ ~bots[BotOf(s)].deleted)
    BY <1>1, <1>2, <1>3, <1>5, <1>7, <1>10 DEF BotOf
  <2>3. \A s, q \in Seqno : entries[s].rev # 0 /\ entries[s].rev = entries[q].rev => s = q
    BY <1>3, <1>5, <1>10
  <2>4. \A s \in Seqno, b \in Bot : entries[s].rev # 0 => entries[s].rev # bots[b].rev
    BY <1>3, <1>5, <1>7, <1>10
  <2> QED
    BY <2>1, <2>2, <2>3, <2>4 DEF Rows
<1>16. Fits
  BY <1>2, <1>12, ToldNone DEF Fits, FitMirror
<1>17. Lists
  BY <1>2, ToldNone DEF Lists
<1>18. Stages
  BY <1>2, <1>12 DEF Stages
<1> QED
  BY <1>14, <1>15, <1>16, <1>17, <1>18 DEF Known

LEMMA NextKnown ==
  ASSUME Known, [Next]_vars
  PROVE  Known'
<1>1. CASE HostStep
  BY <1>1, HostMakes, HostKnown
<1>2. CASE Follows
  BY <1>2, ConnectKnown, ReadBotsKnown, ReadEntriesKnown, ReceiveKnown, EndingKnown DEF Follows
<1>3. CASE Connect(TRUE)
  BY <1>3, ConnectKnown
<1>4. CASE Answered \/ Save \/ Drop \/ Relaunch \/ HostDies
  BY <1>4, AnsweredKnown, SaveKnown, EndingKnown
<1>5. ASSUME NEW b \in Bot, LoadOlder(b)
      PROVE  Known'
  BY <1>5, LoadOlderKnown
<1>6. CASE UNCHANGED vars
  <2> USE <1>6 DEF vars, host, stream, client, bounds, history
  <2>1. TypeOK'
    BY DEF Known, TypeOK
  <2>2. Lists' /\ Stages'
    BY DEF Known, Lists, Stages
  <2>3. FitMirror(mirror') /\ FitMirror(cache')
    BY DEF Known, Fits
  <2> QED
    BY <2>1, <2>2, <2>3, StillKnown DEF Still
<1> QED
  BY <1>1, <1>2, <1>3, <1>4, <1>5, <1>6 DEF Next

\* Every variable keeps its type: no more events wait than the buffer holds, and the cursor is never
\* ahead of the host's revision.
THEOREM TypesHold == Spec => []TypeOK
<1>1. Known => TypeOK
  BY DEF Known
<1> QED
  BY <1>1, InitKnown, NextKnown, PTL DEF Spec

-----------------------------------------------------------------------------
(* The bots: what the cursor has passed is in the mirror. *)

AboveFeed(r) == \A w \in Told(feed) : w.rev < r
\* An event that will reach the client, after the events it has to come after.
Ahead(x) == x \in Told(feed) \/ (AboveFeed(x.rev) /\ (lagged \/ x \in Told(live)))
KnownIn(m, b) == m.bots[b] = IF bots[b].deleted THEN 0 ELSE bots[b].rev

\* Where a racing bot is: its newest event is still to come, or everything about it has come.
Racer(b) ==
  \/ BotNow(b) \in Told(live)
  \/ /\ stage = "open" /\ feed = <<>> /\ KnownIn(mirror, b) /\ bots[b].rev <= mirror.cursor
     /\ \A v \in Told(live) : v.t = "bot" => v.bot # b

Heard ==
  /\ \A b \in Bot \ (saving \cup skipped \cup racing) : bots[b].rev \in 1..mirror.cursor => KnownIn(mirror, b)
  /\ \A b \in Bot \ (saving \cup skipped \cup atSave.racing) : bots[b].rev \in 1..cache.cursor => KnownIn(cache, b)
  /\ \A b \in racing : bots[b].rev <= cache.cursor => b \in atSave.racing
  /\ stage = "bots" => \A b \in Bot \ (racing \cup saving) : bots[b].rev > asked => BotNow(b) \in read
  /\ stage = "open" => \A b \in Bot \ (racing \cup saving) : bots[b].rev > mirror.cursor => Ahead(BotNow(b))
  /\ \A v \in Told(live) : v.t = "bot" =>
       /\ stage # "open" => v.bot \in racing
       /\ v.bot \notin racing => v.rev > mirror.cursor /\ AboveFeed(v.rev)
  /\ ~lagged => \A b \in racing \ saving : Racer(b)

LEMMA BotNowIs ==
  ASSUME Known, NEW b \in Bot
  PROVE  BotNow(b).t = "bot" /\ BotNow(b).bot = b /\ BotNow(b).rev = bots[b].rev /\ BotNow(b).deleted = bots[b].deleted
BY DEF BotNow
LEMMA EntryNowIs ==
  ASSUME Known, NEW s \in Seqno
  PROVE  EntryNow(s).t = "entry" /\ EntryNow(s).seq = s /\ EntryNow(s).rev = entries[s].rev /\ EntryNow(s).bot = BotOf(s)
BY DEF EntryNow

\* A write of the host.
LEMMA HostHeard ==
  ASSUME Known, Heard, HostMoves
  PROVE  Heard'
<1>1. /\ UNCHANGED <<stage, read, feed, mirror, asked, floors, cache, atSave, skipped, strayed, partial>>
      /\ Grew /\ rev' = rev + 1
  BY DEF HostMoves, client, bounds, Grew
<1>2. mirror.cursor < rev + 1 /\ cache.cursor < rev + 1 /\ AboveFeed(rev + 1) /\ rev \in Nat
  <2>1. \A w \in Told(feed) : w.rev < rev + 1
    <3>1. TAKE w \in Told(feed)
    <3>2. w \in BotEvent \cup EntryEvent /\ Fit(w)
      BY StreamTypes DEF Known, Fits
    <3> QED
      BY <3>2, FitBound, RowTypes
  <2> QED
    BY <2>1, MirrorTypes, RowTypes DEF AboveFeed
\* The bots the step is about, and the others.
<1> DEFINE touched(b) == bots'[b] # bots[b] \/ b \in saving \ saving'
<1>3. /\ racing \subseteq racing' /\ (lagged => lagged') /\ (~lagged' => Told(live) \subseteq Told(live'))
      /\ stage = "none" => racing' = racing
      /\ stage = "open" => racing' = racing
      /\ \A b \in Bot : touched(b) /\ b \notin saving' => /\ stage # "none" => BotNow(b)' \in Told(live')
                                                          /\ stage \in {"subscribed", "bots"} => b \in racing'
                                                          /\ bots'[b].rev = rev + 1
      /\ \A b \in racing' : b \in racing \/ bots'[b].rev > rev
      /\ \A w \in Told(live') :
           \/ w \in Told(live)
           \/ /\ w.rev = rev + 1
              /\ w.t = "bot" => /\ w.bot \in Bot /\ bots'[w.bot].rev > rev
                                /\ stage # "open" => w.bot \in racing'
  <2>1. CASE Saves
    BY <2>1 DEF Saves
  <2>2. ASSUME NEW v \in BotEvent \cup EntryEvent, Tells(v)
        PROVE  <1>3!:
    <3>1. /\ v.rev = rev + 1 /\ Said(v) /\ Fit(v)'
          /\ \A b \in Bot : touched(b) => v = BotNow(b)'
      BY <2>2, RowTypes DEF Tells
    <3>2. v.t = "bot" => v.bot \in Bot /\ bots'[v.bot].rev >= rev + 1
      BY <3>1, Kinds DEF Fit, FitBot
    <3>3. \A b \in Bot : touched(b) => v.t = "bot" /\ v.bot = b /\ bots'[b].rev = rev + 1
      BY <3>1 DEF BotNow
    <3>4. stage = "none" => racing' = racing /\ live' = live
      BY <3>1 DEF Said
    <3>5. stage \in {"none", "subscribed", "bots", "open"}
      BY StreamTypes
    <3>6. v.t = "bot" => bots'[v.bot].rev > rev
      BY <1>1, <3>2, RowTypes DEF Grew
    <3> HIDE DEF touched
    <3>7. \A b \in racing' : b \in racing \/ bots'[b].rev > rev
      BY <3>1, <3>6 DEF Said
    <3>8. \A w \in Told(live') : w \in Told(live) \/ (w = v /\ stage # "none")
      BY <3>1, <3>4 DEF Said
    <3>9. v.t = "bot" /\ stage \in {"subscribed", "bots"} => v.bot \in racing'
      BY <3>1 DEF Said
    <3>10. stage = "open" => racing' = racing
      BY <3>1 DEF Said
    <3>11. \A b \in Bot : touched(b) => /\ stage # "none" => BotNow(b)' \in Told(live')
                                        /\ stage \in {"subscribed", "bots"} => b \in racing'
                                        /\ bots'[b].rev = rev + 1
      BY <3>1, <3>3, <3>9 DEF Said
    <3>12. racing \subseteq racing' /\ (lagged => lagged') /\ (~lagged' => Told(live) \subseteq Told(live'))
      BY <3>1 DEF Said
    <3> QED
      BY <3>1, <3>2, <3>4, <3>5, <3>6, <3>7, <3>8, <3>9, <3>10, <3>11, <3>12
  <2> QED
    BY <2>1, <2>2 DEF HostMoves
<1>4. \A b \in Bot : ~touched(b) => bots'[b] = bots[b] /\ BotNow(b)' = BotNow(b) /\ (b \in saving => b \in saving')
  BY DEF BotNow
<1>5. \A b \in Bot : bots'[b] = bots[b] \/ bots'[b].rev = rev + 1
  BY <1>1 DEF Grew
<1>6. saving' \subseteq Bot
  <2>1. CASE Saves
    BY <2>1 DEF Saves
  <2>2. ASSUME NEW v \in BotEvent \cup EntryEvent, Tells(v)
        PROVE  saving' \subseteq Bot
    BY <2>2, RowTypes DEF Tells
  <2> QED
    BY <2>1, <2>2 DEF HostMoves
<1> HIDE DEF touched
<1>7. \A b \in Bot \ (saving' \cup skipped' \cup racing') : bots'[b].rev \in 1..mirror'.cursor => KnownIn(mirror, b)'
  <2>1. ASSUME NEW b \in Bot \ (saving' \cup skipped' \cup racing'), bots'[b].rev \in 1..mirror'.cursor
        PROVE  KnownIn(mirror, b)'
    <3>1. ~touched(b)
      BY <1>1, <1>2, <1>3, <2>1, MirrorTypes
    <3>2. b \in Bot \ (saving \cup skipped \cup racing) /\ bots[b].rev \in 1..mirror.cursor /\ bots'[b] = bots[b]
      BY <1>1, <1>3, <1>4, <2>1, <3>1
    <3>3. KnownIn(mirror, b)
      BY <3>2 DEF Heard
    <3> QED
      BY <1>1, <3>2, <3>3 DEF KnownIn
  <2> QED
    BY <2>1
<1>8. \A b \in Bot \ (saving' \cup skipped' \cup atSave'.racing) : bots'[b].rev \in 1..cache'.cursor => KnownIn(cache, b)'
  <2>1. ASSUME NEW b \in Bot \ (saving' \cup skipped' \cup atSave'.racing), bots'[b].rev \in 1..cache'.cursor
        PROVE  KnownIn(cache, b)'
    <3>1. ~touched(b)
      BY <1>1, <1>2, <1>3, <2>1, MirrorTypes
    <3>2. b \in Bot \ (saving \cup skipped \cup atSave.racing) /\ bots[b].rev \in 1..cache.cursor /\ bots'[b] = bots[b]
      BY <1>1, <1>4, <2>1, <3>1
    <3>3. KnownIn(cache, b)
      BY <3>2 DEF Heard
    <3> QED
      BY <1>1, <3>2, <3>3 DEF KnownIn
  <2> QED
    BY <2>1
<1>9. \A b \in racing' : bots'[b].rev <= cache'.cursor => b \in atSave'.racing
  <2>1. ASSUME NEW b \in racing', bots'[b].rev <= cache'.cursor
        PROVE  b \in atSave'.racing
    <3>1. b \in Bot
      <4>1. racing' \subseteq Bot
        <5>1. CASE Saves
          BY <5>1, StreamTypes DEF Saves
        <5>2. ASSUME NEW v \in BotEvent \cup EntryEvent, Tells(v)
              PROVE  racing' \subseteq Bot
          BY <5>2, StreamTypes, Kinds DEF Tells, Said
        <5> QED
          BY <5>1, <5>2 DEF HostMoves
      <4> QED
        BY <2>1, <4>1
    <3>2. ~(bots'[b].rev > rev) /\ bots'[b].rev # rev + 1
      BY <1>1, <2>1, <3>1, MirrorTypes, RowTypes DEF Grew
    <3>3. b \in racing /\ bots'[b] = bots[b]
      BY <1>3, <1>5, <2>1, <3>1, <3>2
    <3> QED
      BY <1>1, <2>1, <3>3 DEF Heard
  <2> QED
    BY <2>1
<1>10. ASSUME stage' = "bots", NEW b \in Bot \ (racing' \cup saving'), bots'[b].rev > asked'
       PROVE  BotNow(b)' \in read'
  <2>1. ~touched(b)
    BY <1>1, <1>3, <1>10
  <2>2. b \in Bot \ (racing \cup saving) /\ bots[b].rev > asked /\ BotNow(b)' = BotNow(b)
    BY <1>1, <1>3, <1>4, <1>10, <2>1
  <2> QED
    BY <1>1, <1>10, <2>2 DEF Heard
<1>11. ASSUME stage' = "open", NEW b \in Bot \ (racing' \cup saving'), bots'[b].rev > mirror'.cursor
       PROVE  Ahead(BotNow(b))'
  <2>1. CASE touched(b)
    <3>1. BotNow(b)' \in Told(live') /\ bots'[b].rev = rev + 1
      BY <1>1, <1>3, <1>11, <2>1
    <3>2. BotNow(b)'.rev = rev + 1
      BY <3>1 DEF BotNow
    <3>3. \A w \in Told(feed') : w.rev < rev + 1
      BY <1>1, <1>2 DEF AboveFeed
    <3> QED
      BY <3>1, <3>2, <3>3 DEF Ahead, AboveFeed
  <2>2. CASE ~touched(b)
    <3>1. Ahead(BotNow(b)) /\ BotNow(b)' = BotNow(b)
      BY <1>1, <1>3, <1>4, <1>11, <2>2 DEF Heard
    <3>2. PICK x : x = BotNow(b)
      OBVIOUS
    <3>3. Ahead(x)
      BY <3>1, <3>2
    <3>4. Ahead(x)'
      BY <1>1, <1>3, <3>3 DEF Ahead, AboveFeed
    <3> QED
      BY <3>1, <3>2, <3>4
  <2> QED
    BY <2>1, <2>2
<1>12. ASSUME NEW w \in Told(live'), w.t = "bot"
       PROVE  /\ stage' # "open" => w.bot \in racing'
              /\ w.bot \notin racing' => w.rev > mirror'.cursor /\ AboveFeed(w.rev)'
  <2>1. CASE w \in Told(live)
    <3>1. /\ stage # "open" => w.bot \in racing
          /\ w.bot \notin racing => w.rev > mirror.cursor /\ AboveFeed(w.rev)
      BY <1>12, <2>1 DEF Heard
    <3> QED
      BY <1>1, <1>3, <3>1 DEF AboveFeed
  <2>2. CASE w \notin Told(live)
    <3>1. w.rev = rev + 1 /\ (stage # "open" => w.bot \in racing')
      BY <1>3, <1>12, <2>2
    <3> QED
      BY <1>1, <1>2, <3>1, MirrorTypes DEF AboveFeed
  <2> QED
    BY <2>1, <2>2
<1>13. ASSUME ~lagged', NEW b \in racing' \ saving', b \in Bot
       PROVE  Racer(b)'
  <2>1. ~lagged
    BY <1>3, <1>13
  <2>2. CASE touched(b)
    <3>1. stage # "none"
      BY <1>3, <1>13 DEF Known, Stages
    <3>2. BotNow(b)' \in Told(live')
      BY <1>3, <1>13, <2>2, <3>1
    <3> QED
      BY <3>2 DEF Racer
  <2>3. CASE ~touched(b)
    <3>1. bots'[b] = bots[b] /\ BotNow(b)' = BotNow(b) /\ b \notin saving /\ ~(bots'[b].rev > rev)
      BY <1>4, <1>13, <2>3, RowTypes
    <3>2. b \in racing
      BY <1>3, <1>13, <3>1
    <3>3. Racer(b)
      BY <2>1, <3>1, <3>2 DEF Heard
    <3>4. CASE BotNow(b) \in Told(live)
      BY <1>3, <1>13, <3>1, <3>4 DEF Racer
    <3>5. CASE /\ stage = "open" /\ feed = <<>> /\ KnownIn(mirror, b) /\ bots[b].rev <= mirror.cursor
               /\ \A v \in Told(live) : v.t = "bot" => v.bot # b
      <4>1. \A v \in Told(live') : v.t = "bot" => v.bot # b
        BY <1>3, <3>1, <3>5
      <4>2. KnownIn(mirror, b)'
        BY <1>1, <3>1, <3>5 DEF KnownIn
      <4> QED
        BY <1>1, <3>1, <3>5, <4>1, <4>2 DEF Racer
    <3> QED
      BY <3>3, <3>4, <3>5 DEF Racer
  <2> QED
    BY <2>2, <2>3
<1>14. racing' \subseteq Bot
  <2>1. CASE Saves
    BY <2>1, StreamTypes DEF Saves
  <2>2. ASSUME NEW v \in BotEvent \cup EntryEvent, Tells(v)
        PROVE  racing' \subseteq Bot
    BY <2>2, StreamTypes, Kinds DEF Tells, Said
  <2> QED
    BY <2>1, <2>2 DEF HostMoves
<1> QED
  BY <1>7, <1>8, <1>9, <1>10, <1>11, <1>12, <1>13, <1>14 DEF Heard

\* What is ahead is taken in the order of the revisions ...
LEMMA Crossing ==
  ASSUME Known, NEW v \in Event, Taken(v), v.t # "hello", NEW x \in BotEvent \cup EntryEvent, Ahead(x), x.rev <= v.rev
  PROVE  x = v
<1>1. x.rev \in Nat /\ v.rev \in Nat
  BY Kinds
<1>2. CASE TakesFeed(v)
  <2>1. v \in Told(feed) /\ Told(feed) = Told(feed') \cup {v} /\ \A w \in Told(feed') : v.rev < w.rev
    BY <1>2 DEF Taken, TakesLive, TakesFeed
  <2> QED
    BY <1>1, <2>1 DEF Ahead, AboveFeed
<1>3. CASE TakesLive(v)
  <2>1. ~lagged /\ Told(feed) = {} /\ Told(live) = Told(live') \cup {v} /\ \A w \in Told(live') : v.rev < w.rev
    BY <1>3 DEF Taken, TakesLive, TakesFeed
  <2> QED
    BY <1>1, <2>1 DEF Ahead
<1> QED
  BY <1>2, <1>3 DEF Taken

\* ... and nothing else is lost.
LEMMA Remaining ==
  ASSUME Known, NEW v \in Event, Taken(v), NEW x \in BotEvent \cup EntryEvent, Ahead(x), x # v, lagged' = lagged
  PROVE  Ahead(x)'
<1>1. Told(feed') \subseteq Told(feed)
  BY DEF Taken
<1>2. CASE TakesFeed(v)
  <2>1. live' = live /\ Told(feed) \subseteq Told(feed') \cup {v}
    BY <1>2 DEF Taken, TakesLive, TakesFeed
  <2> QED
    BY <1>1, <2>1 DEF Ahead, AboveFeed
<1>3. CASE TakesLive(v)
  <2>1. Told(feed) = {} /\ Told(feed') = {} /\ Told(live) = Told(live') \cup {v}
    BY <1>3 DEF Taken, TakesLive, TakesFeed
  <2> QED
    BY <2>1 DEF Ahead, AboveFeed
<1> QED
  BY <1>2, <1>3 DEF Taken

\* The client takes an event.
LEMMA ReceiveHeard ==
  ASSUME Known, Heard, Receive
  PROVE  Heard'
<1>1. PICK v \in Event :
        /\ Taken(v) /\ ((TakesFeed(v) /\ Apply(v, asked = 0)) \/ (TakesLive(v) /\ Apply(v, FALSE)))
        /\ UNCHANGED <<rev, bots, entries, added, saving, stage, read, lagged, asked, answer, cache, drops, saves, refetches, atSave>>
        /\ racing' = (IF feed' = <<>> /\ live' = <<>> /\ ~lagged THEN {} ELSE racing)
        /\ partial' = (partial /\ feed' # <<>>)
  BY ReceiveTakes
<1>2. PICK fresh \in BOOLEAN : Apply(v, fresh)
  <2>1. (asked = 0) \in BOOLEAN
    OBVIOUS
  <2> QED
    BY <1>1, <2>1
<1>3. stage = "open" /\ Told(feed') \subseteq Told(feed) /\ Told(live') \subseteq Told(live) /\ (live' = <<>> => Told(live') = {})
  BY <1>1, ToldNone DEF Taken
<1>4. v.t = "hello" => mirror' = mirror /\ skipped' = skipped
  BY <1>2, Kinds DEF Apply, ApplyHello
<1>5. v.t = "bot" => v \in BotEvent /\ BotApplied(v) /\ skipped' = IF v.rev = bots[v.bot].rev THEN skipped \ {v.bot} ELSE skipped
  <2>1. v.t = "bot" => v \in BotEvent /\ ApplyBot(v)
    BY <1>2, Kinds DEF Apply
  <2> QED
    BY <2>1, AppliedMirror DEF ApplyBot
<1>6. v.t = "entry" => v \in EntryEvent /\ EntryApplied(v) /\ skipped' = skipped
  <2>1. v.t = "entry" => v \in EntryEvent /\ ApplyEntry(v, fresh)
    BY <1>2, Kinds DEF Apply
  <2> QED
    BY <2>1, AppliedMirror DEF ApplyEntry
<1>7. v.t \in {"hello", "bot", "entry"}
  BY <1>2 DEF Apply
<1>8. v.t # "hello" => /\ v \in BotEvent \cup EntryEvent /\ Fit(v) /\ v.rev \in Nat
                       /\ v \in Told(feed) \/ (v \in Told(live) /\ feed = <<>>)
  <2>1. v.t # "hello" => v \in BotEvent \cup EntryEvent /\ (v \in Told(feed) \/ (v \in Told(live) /\ feed = <<>>))
    BY <1>1, Kinds DEF Taken, TakesLive
  <2> QED
    BY <2>1, StreamTypes DEF Known, Fits
<1>9. /\ mirror.cursor <= mirror'.cursor /\ mirror'.cursor \in Nat
      /\ mirror'.cursor = mirror.cursor \/ (v.t # "hello" /\ mirror'.cursor = v.rev)
      /\ v.t # "hello" => v.rev <= mirror'.cursor
  <2>1. CASE v.t = "hello"
    BY <1>4, <2>1, MirrorTypes
  <2>2. CASE v.t # "hello"
    <3>1. /\ mirror'.cursor \in Nat /\ mirror.cursor <= mirror'.cursor /\ v.rev <= mirror'.cursor
          /\ mirror'.cursor = mirror.cursor \/ mirror'.cursor = v.rev
      BY <1>5, <1>6, <1>7, <1>8, <2>2, AppliedFits, Kinds
    <3> QED
      BY <2>2, <3>1
  <2> QED
    BY <2>1, <2>2
\* A bot's newest event.
<1>10. ASSUME NEW b \in Bot, v.t = "bot", v.bot = b, v.rev = bots[b].rev
       PROVE  KnownIn(mirror, b)'
  <2>1. v.deleted <=> bots[b].deleted
    BY <1>8, <1>10 DEF Fit, FitBot
  <2> QED
    BY <1>1, <1>5, <1>10, <2>1 DEF BotApplied, KnownIn
\* Other bots keep what is known of them.
<1>11. ASSUME NEW b \in Bot, ~(v.t = "bot" /\ v.bot = b), KnownIn(mirror, b)
       PROVE  KnownIn(mirror, b)'
  <2>1. mirror'.bots[b] = mirror.bots[b]
    BY <1>4, <1>5, <1>6, <1>7, <1>11 DEF BotApplied, EntryApplied
  <2> QED
    BY <1>1, <1>11, <2>1 DEF KnownIn
<1>12. \A b \in Bot : BotNow(b)' = BotNow(b) /\ bots'[b] = bots[b]
  BY <1>1 DEF BotNow
<1>13. ASSUME NEW b \in Bot, b \in racing, b \notin saving, ~lagged
       PROVE  Racer(b)'
  <2>1. Racer(b)
    BY <1>13 DEF Heard
  <2>2. PICK x : x = BotNow(b)
    OBVIOUS
  <2>3. CASE x \in Told(live) /\ v # x
    <3>1. x \in Told(live')
      BY <1>1, <2>3 DEF Taken, TakesLive, TakesFeed
    <3> QED
      BY <1>12, <2>2, <3>1 DEF Racer
  <2>4. CASE TakesFeed(v) /\ x \in Told(live)
    <3>1. x \in Told(live')
      BY <2>4 DEF TakesFeed
    <3> QED
      BY <1>12, <2>2, <3>1 DEF Racer
  <2>5. CASE v = x /\ TakesLive(v)
    <3>1. v.t = "bot" /\ v.bot = b /\ v.rev = bots[b].rev
      BY <2>2, <2>5, BotNowIs
    <3>2. KnownIn(mirror, b)' /\ bots'[b].rev <= mirror'.cursor /\ feed' = <<>>
      BY <1>9, <1>10, <1>12, <2>5, <3>1 DEF TakesLive
    <3>3. \A w \in Told(live') : w.t = "bot" => w.bot # b
      <4>1. ASSUME NEW w \in Told(live'), w.t = "bot", w.bot = b
            PROVE  FALSE
        <5>1. v.rev < w.rev
          BY <1>1, <2>5, <3>1, <4>1, ToldNone DEF Taken, TakesLive, TakesFeed
        <5>2. w \in BotEvent \cup EntryEvent /\ w.rev \in Nat /\ Fit(w)
          BY <1>3, <4>1, StreamTypes DEF Known, Fits
        <5>3. w.rev <= bots[b].rev
          BY <4>1, <5>2 DEF Fit, FitBot
        <5> QED
          BY <3>1, <5>1, <5>2, <5>3, RowTypes
      <4> QED
        BY <4>1
    <3> QED
      BY <1>1, <1>3, <3>2, <3>3 DEF Racer
  <2>6. CASE /\ feed = <<>> /\ KnownIn(mirror, b) /\ bots[b].rev <= mirror.cursor
             /\ \A w \in Told(live) : w.t = "bot" => w.bot # b
    <3>1. TakesLive(v) /\ v \in Told(live) /\ feed' = <<>>
      BY <1>1, <2>6 DEF Taken, TakesLive, TakesFeed
    <3>2. KnownIn(mirror, b)'
      BY <1>11, <2>6, <3>1
    <3>3. bots'[b].rev <= mirror'.cursor
      BY <1>9, <1>12, <2>6, MirrorTypes, RowTypes
    <3>4. \A w \in Told(live') : w.t = "bot" => w.bot # b
      BY <1>3, <2>6
    <3> QED
      BY <1>1, <1>3, <3>1, <3>2, <3>3, <3>4 DEF Racer
  <2> QED
    BY <1>1, <2>1, <2>2, <2>3, <2>4, <2>5, <2>6 DEF Racer
\* The last event was taken: what raced has come.
<1>14. ASSUME NEW b \in Bot, b \in racing, b \notin saving, b \notin racing'
       PROVE  KnownIn(mirror, b)' /\ bots[b].rev <= mirror'.cursor
  <2>1. ~lagged /\ live' = <<>>
    BY <1>1, <1>14
  <2>2. Racer(b)' /\ Told(live') = {}
    BY <1>3, <1>13, <1>14, <2>1
  <2> QED
    BY <1>12, <2>2 DEF Racer
<1>15. racing' \subseteq racing /\ (Told(live') # {} => racing' = racing) /\ skipped' \subseteq skipped /\ racing \subseteq Bot
  BY <1>1, <1>3, <1>4, <1>5, <1>6, <1>7, StreamTypes
<1>16. ASSUME NEW b \in skipped, b \notin skipped'
       PROVE  v.t = "bot" /\ v.bot = b /\ v.rev = bots[b].rev /\ b \in Bot
  BY <1>4, <1>5, <1>6, <1>7, <1>16, Kinds
\* Outside of the race an event is news.
<1>17. v.t = "bot" /\ v.bot \notin racing => v.rev > mirror.cursor
  <2>1. CASE v \in Told(feed)
    BY <1>8, <2>1, MirrorTypes DEF Known, Lists
  <2>2. CASE v \in Told(live)
    BY <2>2 DEF Heard
  <2> QED
    BY <1>8, <2>1, <2>2
<1>18. ASSUME NEW b \in Bot \ (saving' \cup skipped' \cup racing'), bots'[b].rev \in 1..mirror'.cursor
       PROVE  KnownIn(mirror, b)'
  <2>1. b \notin saving /\ bots[b].rev \in 1..mirror'.cursor /\ bots[b].rev \in Nat
    BY <1>1, <1>12, <1>18, RowTypes
  <2>2. CASE b \in racing
    BY <1>14, <1>18, <2>1, <2>2
  <2>3. CASE b \notin racing /\ b \in skipped
    BY <1>10, <1>16, <1>18, <2>3
  <2>4. CASE b \notin racing /\ b \notin skipped /\ bots[b].rev <= mirror.cursor
    <3>1. KnownIn(mirror, b)
      BY <1>18, <2>1, <2>4, MirrorTypes DEF Heard
    <3>2. ASSUME v.t = "bot", v.bot = b
          PROVE  FALSE
      <4>1. v.rev <= bots[b].rev
        BY <1>8, <3>2 DEF Fit, FitBot
      <4> QED
        BY <1>8, <1>17, <2>1, <2>4, <3>2, <4>1, MirrorTypes
    <3> QED
      BY <1>11, <3>1, <3>2
  <2>5. CASE b \notin racing /\ b \notin skipped /\ bots[b].rev > mirror.cursor
    <3>1. v.t # "hello" /\ mirror'.cursor = v.rev /\ bots[b].rev <= v.rev
      BY <1>9, <2>1, <2>5, MirrorTypes
    <3>2. PICK x : x = BotNow(b)
      OBVIOUS
    <3>3. Ahead(x)
      BY <1>3, <1>18, <2>1, <2>5, <3>2 DEF Heard
    <3>4. x.t = "bot" /\ x.bot = b /\ x.rev = bots[b].rev
      BY <3>2, BotNowIs
    <3>5. x \in BotEvent \cup EntryEvent
      BY <3>2, RowTypes DEF BotNow, BotEvent
    <3>6. x = v
      BY <1>1, <3>1, <3>3, <3>4, <3>5, Crossing
    <3> QED
      BY <1>10, <3>4, <3>6
  <2> QED
    BY <2>2, <2>3, <2>4, <2>5, MirrorTypes, RowTypes
<1>19. ASSUME NEW b \in Bot \ (saving' \cup skipped' \cup atSave'.racing), bots'[b].rev \in 1..cache'.cursor
       PROVE  KnownIn(cache, b)'
  <2>1. b \notin saving /\ b \notin atSave.racing /\ bots[b].rev \in 1..cache.cursor /\ bots[b].rev \in Nat
    BY <1>1, <1>19, RowTypes
  <2>2. b \notin skipped
    <3>1. SUFFICES ASSUME b \in skipped
                   PROVE  FALSE
      OBVIOUS
    <3>2. v.t = "bot" /\ v.bot = b /\ v.rev = bots[b].rev
      BY <1>16, <1>19, <3>1
    <3>3. b \notin racing
      BY <2>1, MirrorTypes DEF Heard
    <3> QED
      BY <1>17, <2>1, <3>2, <3>3, MirrorTypes
  <2>3. KnownIn(cache, b)
    BY <1>19, <2>1, <2>2 DEF Heard
  <2> QED
    BY <1>1, <2>3 DEF KnownIn
<1>20. ASSUME NEW b \in Bot \ (racing' \cup saving'), bots'[b].rev > mirror'.cursor
       PROVE  Ahead(BotNow(b))'
  <2>1. b \notin saving /\ bots[b].rev > mirror'.cursor /\ bots[b].rev \in Nat
    BY <1>1, <1>20, RowTypes
  <2>2. b \notin racing
    BY <1>9, <1>14, <1>20, <2>1
  <2>3. bots[b].rev > mirror.cursor
    BY <1>9, <2>1, MirrorTypes
  <2>4. PICK x : x = BotNow(b)
    OBVIOUS
  <2>5. Ahead(x) /\ x.rev = bots[b].rev
    BY <1>3, <1>20, <2>1, <2>2, <2>3, <2>4, BotNowIs DEF Heard
  <2>6. x \in BotEvent \cup EntryEvent
    BY <2>4, RowTypes DEF BotNow, BotEvent
  <2>7. x # v
    <3>1. x.t # "hello"
      BY <2>6, Kinds
    <3> QED
      BY <1>9, <2>1, <2>5, <3>1
  <2>8. Ahead(x)'
    BY <1>1, <2>5, <2>6, <2>7, Remaining
  <2> QED
    BY <1>12, <2>4, <2>8
<1>21. ASSUME NEW w \in Told(live'), w.t = "bot", w.bot \notin racing'
       PROVE  w.rev > mirror'.cursor /\ AboveFeed(w.rev)'
  <2>1. w \in Told(live) /\ w.bot \notin racing
    BY <1>3, <1>15, <1>21
  <2>2. w.rev > mirror.cursor /\ AboveFeed(w.rev)
    BY <1>21, <2>1 DEF Heard
  <2>3. v.t # "hello" => v.rev < w.rev
    <3>1. CASE TakesFeed(v)
      BY <1>1, <2>2, <3>1 DEF Taken, TakesLive, TakesFeed, AboveFeed
    <3>2. CASE TakesLive(v)
      BY <1>1, <1>21, <3>2 DEF Taken, TakesLive, TakesFeed
    <3> QED
      BY <1>1, <3>1, <3>2
  <2> QED
    BY <1>3, <1>9, <2>2, <2>3 DEF AboveFeed
<1>22. \A b \in racing' : bots'[b].rev <= cache'.cursor => b \in atSave'.racing
  BY <1>1, <1>15 DEF Heard
<1>23. ~lagged' => \A b \in racing' \ saving' : Racer(b)'
  BY <1>1, <1>13, <1>15
<1>24. stage' = "open"
  BY <1>1, <1>3
<1> QED
  BY <1>18, <1>19, <1>20, <1>21, <1>22, <1>23, <1>24 DEF Heard

\* The catch-up starts.
LEMMA ConnectHeard ==
  ASSUME Known, Heard, NEW full \in BOOLEAN, Connect(full)
  PROVE  Heard'
<1>1. /\ stage = "none" /\ stage' = "subscribed"
      /\ UNCHANGED <<rev, bots, saving, live, racing, atSave, skipped>>
      /\ (mirror' = mirror /\ cache' = cache) \/ (mirror' = Rewound(mirror) /\ cache' = Rewound(cache))
  BY DEF Connect, host
<1>2. racing = {} /\ Told(live') = {}
  BY <1>1, ToldNone DEF Known, Stages
<1>3. CASE mirror' = mirror /\ cache' = cache
  BY <1>1, <1>2, <1>3 DEF Heard, KnownIn
<1>4. CASE mirror' = Rewound(mirror) /\ cache' = Rewound(cache)
  <2>1. mirror'.cursor = 0 /\ cache'.cursor = 0
    BY <1>4, RewoundTypes, MirrorTypes
  <2> QED
    BY <1>1, <1>2, <2>1 DEF Heard
<1> QED
  BY <1>1, <1>3, <1>4

LEMMA ReadBotsHeard ==
  ASSUME Known, Heard, ReadBots
  PROVE  Heard'
<1>1. /\ stage = "subscribed" /\ stage' = "bots"
      /\ UNCHANGED <<rev, bots, saving, feed, live, lagged, mirror, asked, cache, racing, atSave, skipped>>
  BY DEF ReadBots, host, client, bounds, history
<1>2. \A b \in Bot : bots'[b].rev > asked' => BotNow(b)' \in read'
  <2>1. TAKE b \in Bot
  <2>2. bots[b].rev > asked => BotNow(b) \in read'
    BY ReadBotsKnown
  <2> QED
    BY <1>1, <2>2 DEF BotNow
<1>3. ~lagged' => \A b \in racing' \ saving' : Racer(b)'
  BY <1>1 DEF Heard, Racer, BotNow, KnownIn
<1> QED
  BY <1>1, <1>2, <1>3 DEF Heard, KnownIn

LEMMA ReadEntriesHeard ==
  ASSUME Known, Heard, ReadEntries
  PROVE  Heard'
<1>1. /\ stage = "bots" /\ stage' = "open" /\ read \subseteq Told(feed')
      /\ UNCHANGED <<rev, bots, saving, live, lagged, mirror, asked, cache, racing, atSave, skipped>>
  BY ReadEntriesKnown
<1>2. asked = mirror.cursor
  BY <1>1 DEF Known, Stages
<1>3. ASSUME NEW b \in Bot, b \notin racing', b \notin saving', bots'[b].rev > mirror'.cursor
      PROVE  Ahead(BotNow(b))'
  <2>1. BotNow(b) \in read
    BY <1>1, <1>2, <1>3 DEF Heard
  <2>2. BotNow(b)' \in Told(feed')
    BY <1>1, <2>1 DEF BotNow
  <2> QED
    BY <2>2 DEF Ahead
<1>4. \A w \in Told(live') : w.t = "bot" => w.bot \in racing'
  BY <1>1 DEF Heard
<1>5. ASSUME ~lagged', NEW b \in racing' \ saving'
      PROVE  Racer(b)'
  <2>1. BotNow(b) \in Told(live)
    BY <1>1, <1>5 DEF Heard, Racer
  <2> QED
    BY <1>1, <2>1 DEF Racer, BotNow
<1> QED
  BY <1>1, <1>3, <1>4, <1>5 DEF Heard, KnownIn

\* A step that takes copies of entries, or saves the mirror.
LEMMA CopiesHeard ==
  ASSUME Known, Heard,
         UNCHANGED <<rev, bots, saving, stage, read, feed, live, lagged, asked, racing, skipped>>,
         mirror'.cursor = mirror.cursor, mirror'.bots = mirror.bots,
         \/ cache' = cache /\ atSave' = atSave
         \/ cache'.cursor = mirror.cursor /\ cache'.bots = mirror.bots /\ atSave'.racing = racing
  PROVE  Heard'
<1>1. \A b \in Bot \ (saving' \cup skipped' \cup racing') : bots'[b].rev \in 1..mirror'.cursor => KnownIn(mirror, b)'
  BY DEF Heard, KnownIn
<1>2. \A b \in Bot \ (saving' \cup skipped' \cup atSave'.racing) : bots'[b].rev \in 1..cache'.cursor => KnownIn(cache, b)'
  BY DEF Heard, KnownIn
<1>3. \A b \in racing' : bots'[b].rev <= cache'.cursor => b \in atSave'.racing
  BY DEF Heard
<1>4. stage' = "bots" => \A b \in Bot \ (racing' \cup saving') : bots'[b].rev > asked' => BotNow(b)' \in read'
  BY DEF Heard, BotNow
<1>5. \A b \in Bot : Ahead(BotNow(b))' <=> Ahead(BotNow(b))
  BY DEF Ahead, BotNow, AboveFeed
<1>6. stage' = "open" => \A b \in Bot \ (racing' \cup saving') : bots'[b].rev > mirror'.cursor => Ahead(BotNow(b))'
  BY <1>5 DEF Heard
<1>7. \A v \in Told(live') : v.t = "bot" =>
        /\ stage' # "open" => v.bot \in racing'
        /\ v.bot \notin racing' => v.rev > mirror'.cursor /\ AboveFeed(v.rev)'
  BY DEF Heard, AboveFeed
<1>8. \A b \in Bot : Racer(b) => Racer(b)'
  BY DEF Racer, BotNow, KnownIn
<1>9. ~lagged' => \A b \in racing' \ saving' : Racer(b)'
  BY <1>8, StreamTypes DEF Heard
<1> QED
  BY <1>1, <1>2, <1>3, <1>4, <1>6, <1>7, <1>9 DEF Heard

\* The stream ends: what raced may never come.
LEMMA EndingHeard ==
  ASSUME Known, Heard, Resync \/ Drop \/ Relaunch \/ HostDies
  PROVE  Heard'
<1> USE DEF host, stream, client, bounds, history
<1>1. /\ stage' = "none" /\ Told(live') = {} /\ racing' = {} /\ UNCHANGED <<rev, bots, cache, atSave>>
      /\ skipped \cup racing \cup (saving \ saving') \subseteq skipped' /\ saving' \subseteq saving
      /\ mirror' = mirror \/ (mirror' = cache /\ atSave.racing \subseteq skipped')
  <2>1. StreamEnds
    BY DEF Resync, Drop, Relaunch, HostDies
  <2>2. stage' = "none" /\ Told(live') = {} /\ racing' = {}
    BY <2>1, ToldNone DEF StreamEnds
  <2>3. /\ UNCHANGED <<rev, bots, cache, atSave>>
        /\ skipped \cup racing \cup (saving \ saving') \subseteq skipped' /\ saving' \subseteq saving
        /\ mirror' = mirror \/ (mirror' = cache /\ atSave.racing \subseteq skipped')
    BY DEF Resync, Drop, Relaunch, HostDies
  <2> QED
    BY <2>2, <2>3
<1>2. \A b \in Bot \ (saving' \cup skipped' \cup atSave'.racing) : bots'[b].rev \in 1..cache'.cursor => KnownIn(cache, b)'
  BY <1>1 DEF Heard, KnownIn
<1>3. \A b \in Bot \ (saving' \cup skipped' \cup racing') : bots'[b].rev \in 1..mirror'.cursor => KnownIn(mirror, b)'
  BY <1>1 DEF Heard, KnownIn
<1> QED
  BY <1>1, <1>2, <1>3 DEF Heard

LEMMA InitHeard == Init => Heard
<1> SUFFICES ASSUME Init
             PROVE  Heard
  OBVIOUS
<1>1. stage = "none" /\ Told(live) = {} /\ racing = {}
  BY ToldNone DEF Init
<1>2. mirror.cursor = 0 /\ cache.cursor = 0
  BY DEF Init, Empty
<1> QED
  BY <1>1, <1>2 DEF Heard

LEMMA NextHeard ==
  ASSUME Known, Heard, [Next]_vars
  PROVE  Heard'
<1>1. CASE HostStep
  BY <1>1, HostMakes, HostHeard
<1>2. CASE Follows
  BY <1>2, ConnectHeard, ReadBotsHeard, ReadEntriesHeard, ReceiveHeard, EndingHeard DEF Follows
<1>3. CASE Connect(TRUE)
  BY <1>3, ConnectHeard
<1>4. CASE Answered
  BY <1>4, AnsweredKnown, CopiesHeard DEF AnswerApplied
<1>5. CASE Save
  <2>1. atSave'.racing = racing
    BY <1>5, SaveKnown
  <2> QED
    BY <1>5, <2>1, SaveKnown, CopiesHeard DEF Stored
<1>6. CASE Drop \/ Relaunch \/ HostDies
  BY <1>6, EndingHeard
<1>7. ASSUME NEW b \in Bot, LoadOlder(b)
      PROVE  Heard'
  BY <1>7, LoadOlderKnown, CopiesHeard DEF Paged
<1>8. CASE UNCHANGED vars
  BY <1>8, CopiesHeard DEF vars, host, stream, client, bounds, history
<1> QED
  BY <1>1, <1>2, <1>3, <1>4, <1>5, <1>6, <1>7, <1>8 DEF Next

\* What the cursor has passed is in the mirror: a bot whose newest row is not newer than the cursor is known
\* as it is, unless its event is still on its way on this stream or was lost on a stream that ended early.
THEOREM CursorHolds == Spec => []CursorHonest
<1>1. Known /\ Heard => CursorHonest
  BY DEF Heard, CursorHonest, BotsKnown, BotKnown, KnownIn, Coming
<1>2. Init => Known /\ Heard
  BY InitKnown, InitHeard
<1>3. Known /\ Heard /\ [Next]_vars => (Known /\ Heard)'
  BY NextKnown, NextHeard
<1> QED
  BY <1>1, <1>2, <1>3, PTL DEF Spec

-----------------------------------------------------------------------------
(* The chats: what the cursor has passed is in the mirror, or is paged in. *)

Straight(s) == BotOf(s) \notin strayed
Has(m, b) == {s \in Seqno : m.entries[s] # 0 /\ BotOf(s) = b}
\* It would be paged in from the oldest entry held.
Under(m, s) == \A q \in Has(m, BotOf(s)) : s < q
Missing(m, s) == entries[s].rev # 0 /\ m.entries[s] = 0
FeedHas(b) == \E v \in Told(feed) : v.t = "entry" /\ v.bot = b
UnderFeed(s) == \A v \in Told(feed) : v.t = "entry" /\ v.bot = BotOf(s) => s < v.seq

Whole(m) ==
  \A s \in Seqno : entries[s].rev # 0 /\ entries[s].rev <= m.cursor /\ Straight(s) => m.entries[s] = entries[s].rev \/ Under(m, s)

\* What is newer than the cursor is there, or on its way, or older than all that a catch-up from nothing brings.
Omitted(s) == asked = 0 /\ Under(mirror, s) /\ UnderFeed(s) /\ (FeedHas(BotOf(s)) \/ Has(mirror, BotOf(s)) # {})
News ==
  stage = "open" => \A s \in Seqno : entries[s].rev > mirror.cursor /\ Straight(s) =>
                      mirror.entries[s] = entries[s].rev \/ Ahead(EntryNow(s)) \/ Omitted(s)
\* A catch-up from nothing brings the newest entries of a chat.
FromNothing ==
  /\ stage = "open" /\ asked = 0 =>
       \A s \in Seqno : entries[s].rev # 0 /\ entries[s].rev <= mirror.cursor /\ Straight(s) =>
         mirror.entries[s] = entries[s].rev \/ UnderFeed(s)
  /\ asked = 0 /\ feed # <<>> => partial
  /\ mirror.cursor = 0 => partial
\* Before the first event there is nothing but strays.
Blank(m) == m.cursor = 0 => \A s \in Seqno : m.entries[s] # 0 => ~Straight(s)

\* Below the floor everything is missing.
Floored ==
  /\ feed # <<>> /\ Head(feed).t = "hello" => asked = mirror.cursor
  /\ stage # "none" => \A b \in Bot : floors[b] # 0 => asked # 0 /\ floors[b] \in Has(mirror, b)
  /\ stage # "none" => \A s \in Seqno : Missing(mirror, s) /\ Straight(s) /\ s < floors[BotOf(s)] => Under(mirror, s)

\* A chat with entries that the cursor has passed holds one, or the catch-up has yet to bring one.
Newer(m, b) == \E q \in Seqno : BotOf(q) = b /\ entries[q].rev > m.cursor
Topped(m, still) ==
  \A s \in Seqno : entries[s].rev # 0 /\ entries[s].rev <= m.cursor /\ Straight(s) => Has(m, BotOf(s)) # {} \/ (still /\ Newer(m, BotOf(s)))
Tops ==
  /\ stage # "open" => Topped(mirror, partial)
  /\ Topped(cache, atSave.partial)
  /\ stage = "open" => \A s \in Seqno : entries[s].rev # 0 /\ entries[s].rev <= mirror.cursor /\ Straight(s) =>
                         Has(mirror, BotOf(s)) # {} \/ (partial /\ FeedHas(BotOf(s)))

\* A version of an entry that is somewhere.
Version(f, r) ==
  \/ r # 0 /\ (mirror.entries[f] = r \/ cache.entries[f] = r \/ entries[f].rev = r)
  \/ \E v \in Told(feed) \cup Told(live) : v.t = "entry" /\ v.seq = f /\ v.rev = r
  \/ answer # NoAnswer /\ answer.seq = f /\ answer.rev = r
\* The last copy before a gap is not newer than what comes after the gap, unless the cursor has passed it.
Last(m, q, s) == q \in Has(m, BotOf(s)) /\ q < s /\ \A x \in Has(m, BotOf(s)) : x <= q \/ s < x
Gapped(m) ==
  \A s, q, f \in Seqno, r \in Rev :
    Missing(m, s) /\ Straight(s) /\ Last(m, q, s) /\ s < f /\ BotOf(f) = BotOf(s) /\ Version(f, r) =>
      m.entries[q] <= m.cursor \/ m.entries[q] <= r
Gaps ==
  /\ Gapped(mirror) /\ Gapped(cache)
  /\ answer # NoAnswer => \A f \in Seqno, r \in Rev : answer.seq < f /\ BotOf(f) = answer.bot /\ Version(f, r) => answer.rev <= r

Windows ==
  /\ Whole(mirror) /\ Whole(cache) /\ News /\ FromNothing /\ Blank(mirror) /\ Blank(cache)
  /\ Floored /\ Tops /\ Gaps

\* A version that is anywhere is not newer than its row.
LEMMA CopyBound ==
  ASSUME Known, NEW s \in Seqno, entries[s].rev # 0
  PROVE  /\ ~bots[BotOf(s)].deleted /\ BotOf(s) \in Bot
         /\ mirror.entries[s] <= entries[s].rev /\ cache.entries[s] <= entries[s].rev
         /\ \A v \in EntryEvent : FitEntry(v) /\ v.seq = s => v.bot = BotOf(s) /\ v.rev <= entries[s].rev
<1>1. ~bots[BotOf(s)].deleted /\ BotOf(s) \in Bot
  BY RowTypes DEF Known, Rows
<1>2. \A r \in Nat : FitCopy(s, r) => r <= entries[s].rev
  BY <1>1 DEF FitCopy
<1>3. mirror.entries[s] <= entries[s].rev /\ cache.entries[s] <= entries[s].rev
  BY <1>2, MirrorTypes, RowTypes DEF Known, Fits, FitMirror
<1>4. \A v \in EntryEvent : FitEntry(v) /\ v.seq = s => v.bot = BotOf(s) /\ v.rev <= entries[s].rev
  BY <1>2, Kinds DEF FitEntry
<1> QED
  BY <1>1, <1>3, <1>4

\* The events that are on their way.
LEMMA EventFits ==
  ASSUME Known
  PROVE  \A v \in Told(feed) \cup Told(live) :
           v.t = "entry" => v \in EntryEvent /\ FitEntry(v) /\ v.seq \in Seqno /\ v.rev \in Nat /\ v.bot = BotOf(v.seq)
<1>1. TAKE v \in Told(feed) \cup Told(live)
<1>2. v \in BotEvent \cup EntryEvent /\ Fit(v)
  BY StreamTypes DEF Known, Fits
<1> QED
  BY <1>2, Kinds DEF Fit, FitEntry

\* What the catch-up brings is newer than the cursor.
LEMMA FeedNewer ==
  ASSUME Known, NEW s \in Seqno, entries[s].rev # 0, FeedHas(BotOf(s))
  PROVE  Newer(mirror, BotOf(s)) /\ feed # <<>>
<1>1. PICK v \in Told(feed) : v.t = "entry" /\ v.bot = BotOf(s)
  BY DEF FeedHas
<1>2. v \in EntryEvent /\ FitEntry(v) /\ v.seq \in Seqno /\ v.rev \in Nat /\ BotOf(v.seq) = BotOf(s)
  BY <1>1, EventFits
<1>3. v.rev <= entries[v.seq].rev
  BY <1>2, CopyBound DEF FitEntry, FitCopy
<1>4. v.rev > mirror.cursor
  BY <1>2 DEF Known, Lists
<1>5. entries[v.seq].rev > mirror.cursor
  BY <1>2, <1>3, <1>4, MirrorTypes, RowTypes
<1> QED
  BY <1>1, <1>2, <1>5, ToldNone DEF Newer

\* A mirror that a step does not change, when no row changes.
LEMMA StillMirror ==
  ASSUME Known, Still, NEW m, strayed \subseteq strayed'
  PROVE  /\ Whole(m) => Whole(m)'
         /\ Blank(m) => Blank(m)'
         /\ \A p : Topped(m, p) => Topped(m, p)'
         /\ (\A f \in Seqno, r \in Rev : Version(f, r)' => Version(f, r)) => (Gapped(m) => Gapped(m)')
<1>1. entries' = entries /\ (\A s : BotOf(s)' = BotOf(s)) /\ \A b : Has(m, b)' = Has(m, b)
  BY DEF Still, BotOf, Has
<1>2. \A s : /\ Straight(s)' => Straight(s)
             /\ Under(m, s)' <=> Under(m, s)
             /\ Missing(m, s)' <=> Missing(m, s)
             /\ \A q : Last(m, q, s)' <=> Last(m, q, s)
  BY <1>1 DEF Straight, Under, Missing, Last
<1>3. \A b : Newer(m, b)' <=> Newer(m, b)
  BY <1>1 DEF Newer
<1>4. Whole(m) => Whole(m)'
  BY <1>1, <1>2 DEF Whole
<1>5. Blank(m) => Blank(m)'
  BY <1>2 DEF Blank
<1>6. \A p : Topped(m, p) => Topped(m, p)'
  BY <1>1, <1>2, <1>3 DEF Topped
<1>7. (\A f \in Seqno, r \in Rev : Version(f, r)' => Version(f, r)) => (Gapped(m) => Gapped(m)')
  BY <1>1, <1>2 DEF Gapped
<1> QED
  BY <1>4, <1>5, <1>6, <1>7

\* A mirror when the host writes: what is new is newer than all there was.
LEMMA GrewMirror ==
  ASSUME Known, Grew, Rows', NEW m \in Mirror, FitMirror(m), m.cursor <= rev, strayed' = strayed
  PROVE  /\ \A b : Has(m, b)' = Has(m, b)
         /\ Whole(m) => Whole(m)'
         /\ Blank(m) => Blank(m)'
         /\ \A p : Topped(m, p) => Topped(m, p)'
         /\ (\A f \in Seqno, r \in Rev : Version(f, r)' => Version(f, r) \/ r = rev + 1) => (Gapped(m) => Gapped(m)')
<1>1. /\ rev \in Nat /\ m.cursor \in Nat
      /\ \A s \in Seqno : m.entries[s] \in Nat /\ (m.entries[s] # 0 => s <= added /\ m.entries[s] <= rev)
  BY RowTypes DEF FitMirror, FitCopy, Mirror, Rev
<1>2. \A s \in Seqno : s <= added => BotOf(s)' = BotOf(s)
  BY DEF Grew, BotOf
<1>3. \A b : Has(m, b)' = Has(m, b)
  BY <1>1, <1>2 DEF Has
<1>4. \A s \in Seqno : entries'[s] = entries[s] \/ entries'[s].rev = rev + 1 \/ entries'[s].rev = 0
  BY DEF Grew
\* A row that is not the new one.
<1>5. \A s \in Seqno : entries'[s].rev # 0 /\ entries'[s].rev # rev + 1 => entries'[s] = entries[s] /\ BotOf(s)' = BotOf(s)
  BY <1>4 DEF BotOf
<1>6. \A s : (Under(m, s)' <=> \A q \in Has(m, BotOf(s)') : s < q) /\ (Straight(s)' <=> BotOf(s)' \notin strayed)
  BY <1>3 DEF Under, Straight
<1>7. Whole(m) => Whole(m)'
  BY <1>1, <1>5, <1>6 DEF Whole, Under, Straight
<1>8. Blank(m) => Blank(m)'
  BY <1>1, <1>2, <1>6 DEF Blank, Straight
<1>9. ASSUME NEW p, Topped(m, p)
      PROVE  Topped(m, p)'
  <2>1. ASSUME NEW s \in Seqno, entries'[s].rev # 0, entries'[s].rev <= m.cursor, Straight(s)'
        PROVE  Has(m, BotOf(s)') # {} \/ (p /\ Newer(m, BotOf(s))')
    <3>1. entries'[s] = entries[s] /\ BotOf(s)' = BotOf(s)
      BY <1>1, <1>5, <2>1
    <3>2. Has(m, BotOf(s)) # {} \/ (p /\ Newer(m, BotOf(s)))
      BY <1>6, <1>9, <2>1, <3>1 DEF Topped, Straight
    <3>3. ASSUME NEW q \in Seqno, BotOf(q) = BotOf(s), entries[q].rev > m.cursor
          PROVE  BotOf(q)' = BotOf(s)' /\ entries'[q].rev > m.cursor
      <4>1. entries[q].rev # 0 /\ entries[q].rev \in Nat /\ q <= added
        BY <1>1, <3>3, RowTypes DEF Known, Rows
      <4>2. BotOf(q)' = BotOf(s)'
        BY <1>2, <3>1, <3>3, <4>1
      <4>3. ~bots'[BotOf(s)'].deleted
        BY <2>1 DEF Rows
      <4>4. entries'[q].rev # 0
        BY <1>1, <4>1, <4>2, <4>3 DEF Grew, BotOf
      <4> QED
        BY <1>1, <1>4, <3>3, <4>2, <4>4
    <3>4. Newer(m, BotOf(s)) => Newer(m, BotOf(s))'
      BY <3>1, <3>3 DEF Newer
    <3> QED
      BY <3>1, <3>2, <3>4
  <2> QED
    BY <1>3, <2>1 DEF Topped
<1>10. ASSUME \A f \in Seqno, r \in Rev : Version(f, r)' => Version(f, r) \/ r = rev + 1, Gapped(m)
       PROVE  Gapped(m)'
  <2>1. ASSUME NEW s \in Seqno, NEW q \in Seqno, NEW f \in Seqno, NEW r \in Rev,
               Missing(m, s)', Straight(s)', Last(m, q, s)', s < f, BotOf(f)' = BotOf(s)', Version(f, r)'
        PROVE  m.entries[q] <= m.cursor \/ m.entries[q] <= r
    <3>1. q \in Has(m, BotOf(s)') /\ q < s /\ \A x \in Has(m, BotOf(s)') : x <= q \/ s < x
      BY <1>3, <2>1 DEF Last
    <3>2. m.entries[q] <= rev
      BY <1>1, <3>1 DEF Has
    <3>3. CASE r = rev + 1
      BY <1>1, <3>2, <3>3
    <3>4. CASE Version(f, r) /\ r # rev + 1
      <4>1. f <= added /\ s <= added
        <5>1. f <= added
          BY <3>4, EventFits, MirrorTypes DEF Version, Known, Rows, Fits, FitMirror, FitEntry, FitCopy
        <5> QED
          BY <2>1, <5>1, RowTypes
      <4>2. BotOf(f) = BotOf(s) /\ BotOf(s)' = BotOf(s)
        BY <1>2, <2>1, <4>1
      <4>3. entries[s].rev # 0
        BY <2>1, <4>1 DEF Missing, Grew
      <4>4. Missing(m, s) /\ Straight(s) /\ Last(m, q, s)
        BY <1>6, <2>1, <3>1, <4>2, <4>3 DEF Missing, Straight, Last
      <4> QED
        BY <1>10, <2>1, <3>4, <4>2, <4>4 DEF Gapped
    <3> QED
      BY <1>10, <2>1, <3>3, <3>4
  <2> QED
    BY <2>1 DEF Gapped
<1> QED
  BY <1>3, <1>7, <1>8, <1>9, <1>10

\* What a write of the host leaves of the versions, and what it tells.
LEMMA HostVersions ==
  ASSUME Known, HostMoves
  PROVE  /\ UNCHANGED <<stage, read, feed, mirror, asked, floors, cache, atSave, skipped, strayed, partial>>
         /\ \A f \in Seqno, r \in Rev : Version(f, r)' => Version(f, r) \/ r = rev + 1
         /\ lagged => lagged'
         /\ ~lagged' => Told(live) \subseteq Told(live')
         /\ \A s \in Seqno : stage # "none" /\ entries'[s] # entries[s] /\ entries'[s].rev # 0 => EntryNow(s)' \in Told(live')
         /\ answer' # answer => answer' \in EntryEvent /\ FitEntry(answer)' /\ answer'.rev = rev + 1 /\ answer'.seq > added
<1>1. UNCHANGED <<stage, read, feed, mirror, asked, floors, cache, atSave, skipped, strayed, partial>> /\ Grew /\ rev \in Nat
  BY RowTypes DEF HostMoves, client, bounds, Grew
<1>2. \A s \in Seqno : entries'[s].rev = entries[s].rev \/ entries'[s].rev = rev + 1 \/ entries'[s].rev = 0
  BY DEF HostMoves, Grew
<1>3. CASE Saves
  <2>1. \A f \in Seqno, r \in Rev : Version(f, r)' => Version(f, r) \/ r = rev + 1
    BY <1>1, <1>2, <1>3 DEF Version, Saves
  <2> QED
    BY <1>1, <1>3, <2>1 DEF Saves
<1>4. ASSUME NEW v \in BotEvent \cup EntryEvent, Tells(v)
      PROVE  /\ \A f \in Seqno, r \in Rev : Version(f, r)' => Version(f, r) \/ r = rev + 1
             /\ lagged => lagged'
             /\ ~lagged' => Told(live) \subseteq Told(live')
             /\ \A s \in Seqno : stage # "none" /\ entries'[s] # entries[s] /\ entries'[s].rev # 0 => EntryNow(s)' \in Told(live')
             /\ answer' # answer => answer' \in EntryEvent /\ FitEntry(answer)' /\ answer'.rev = rev + 1 /\ answer'.seq > added
  <2>1. v.rev = rev + 1 /\ Said(v) /\ Fit(v)' /\ (answer' = answer \/ (answer = NoAnswer /\ answer' = v /\ v.t = "entry" /\ v.seq > added))
    BY <1>4 DEF Tells
  <2>2. \A f \in Seqno, r \in Rev : Version(f, r)' => Version(f, r) \/ r = rev + 1
    <3>1. Told(live') \subseteq Told(live) \cup {v}
      BY <2>1 DEF Said
    <3> QED
      BY <1>1, <1>2, <2>1, <3>1 DEF Version
  <2>3. \A s \in Seqno : stage # "none" /\ entries'[s] # entries[s] /\ entries'[s].rev # 0 => EntryNow(s)' \in Told(live')
    BY <1>4, <2>1 DEF Tells, Said
  <2>4. v.t = "entry" => v \in EntryEvent /\ FitEntry(v)'
    BY <2>1, Kinds DEF Fit
  <2> QED
    BY <2>1, <2>2, <2>3, <2>4 DEF Said
<1> QED
  BY <1>1, <1>3, <1>4 DEF HostMoves

LEMMA HostWindows ==
  ASSUME Known, Windows, HostMoves, Rows'
  PROVE  Windows'
<1>1. /\ UNCHANGED <<stage, read, feed, mirror, asked, floors, cache, atSave, skipped, strayed, partial>>
      /\ Grew /\ rev \in Nat
      /\ \A f \in Seqno, r \in Rev : Version(f, r)' => Version(f, r) \/ r = rev + 1
  BY HostVersions, RowTypes DEF HostMoves
<1>2. PICK m : m = mirror
  OBVIOUS
<1>3. PICK c : c = cache
  OBVIOUS
<1>4. m \in Mirror /\ m.cursor <= rev /\ FitMirror(m) /\ c \in Mirror /\ c.cursor <= rev /\ FitMirror(c)
  BY <1>2, <1>3, MirrorTypes, RowTypes DEF Known, Fits
<1>5. /\ \A b : Has(m, b)' = Has(m, b)
      /\ Whole(m) => Whole(m)'
      /\ Blank(m) => Blank(m)'
      /\ \A p : Topped(m, p) => Topped(m, p)'
      /\ Gapped(m) => Gapped(m)'
  BY <1>1, <1>4, GrewMirror
<1>6. /\ Whole(c) => Whole(c)'
      /\ Blank(c) => Blank(c)'
      /\ \A p : Topped(c, p) => Topped(c, p)'
      /\ Gapped(c) => Gapped(c)'
  BY <1>1, <1>4, GrewMirror
<1>7. m' = m /\ c' = c /\ mirror' = m /\ cache' = c
  BY <1>1, <1>2, <1>3
<1>8. Whole(mirror)' /\ Blank(mirror)' /\ Gapped(mirror)' /\ (\A b : Has(mirror, b)' = Has(mirror, b))
      /\ \A p : Topped(mirror, p) => Topped(m, p)'
  <2>1. Whole(m) /\ Blank(m) /\ Gapped(m)
    BY <1>2 DEF Windows, Gaps
  <2>2. Whole(m)' /\ Blank(m)' /\ Gapped(m)'
    BY <1>5, <2>1
  <2>3. Whole(m)' = Whole(mirror)' /\ Blank(m)' = Blank(mirror)' /\ Gapped(m)' = Gapped(mirror)' /\ (\A b : Has(mirror, b)' = Has(m, b)')
    BY <1>7 DEF Whole, Blank, Gapped, Has, Under, Missing, Last
  <2> QED
    BY <1>2, <1>5, <2>2, <2>3
<1>9. Whole(cache)' /\ Blank(cache)' /\ Gapped(cache)' /\ Topped(cache, atSave.partial)'
  <2>1. Whole(c) /\ Blank(c) /\ Gapped(c) /\ Topped(c, atSave.partial)
    BY <1>3 DEF Windows, Gaps, Tops
  <2>2. PICK p : p = atSave.partial
    OBVIOUS
  <2>3. Whole(c)' /\ Blank(c)' /\ Gapped(c)' /\ Topped(c, p)'
    BY <1>6, <2>1, <2>2
  <2>4. Whole(c)' = Whole(cache)' /\ Blank(c)' = Blank(cache)' /\ Gapped(c)' = Gapped(cache)'
    BY <1>7 DEF Whole, Blank, Gapped, Has, Under, Missing, Last
  <2>5. Topped(c, p)' => Topped(cache, atSave.partial)'
    BY <1>1, <1>7, <2>2 DEF Topped, Has, Newer
  <2> QED
    BY <2>3, <2>4, <2>5
\* A row that is not the new one.
<1>10. \A s \in Seqno : entries'[s].rev # 0 /\ entries'[s].rev <= rev => entries'[s] = entries[s] /\ BotOf(s)' = BotOf(s)
  BY <1>1 DEF Grew, BotOf
<1>10a. \A s \in Seqno : entries'[s].rev \in Nat
  BY <1>1, SyncAssumption DEF Grew, Row, Rev
<1>11. /\ \A b : FeedHas(b)' <=> FeedHas(b)
       /\ \A s : BotOf(s)' = BotOf(s) => /\ UnderFeed(s)' <=> UnderFeed(s)
                                         /\ Under(mirror, s)' <=> Under(mirror, s)
                                         /\ Straight(s)' <=> Straight(s)
  BY <1>1, <1>8 DEF FeedHas, UnderFeed, Under, Straight
<1>12. mirror'.cursor = mirror.cursor /\ mirror.cursor <= rev /\ mirror.cursor \in Nat
  BY <1>1, MirrorTypes
<1>13. ASSUME stage' = "open", NEW s \in Seqno, entries'[s].rev > mirror'.cursor, Straight(s)'
       PROVE  mirror'.entries[s] = entries'[s].rev \/ Ahead(EntryNow(s))' \/ Omitted(s)'
  <2>1. CASE entries'[s] # entries[s]
    <3>1. entries'[s].rev # 0
      BY <1>12, <1>13, RowTypes
    <3>2. EntryNow(s)' \in Told(live') /\ EntryNow(s)'.rev = rev + 1
      BY <1>1, <1>13, <2>1, <3>1, HostVersions DEF EntryNow, Grew
    <3>3. \A w \in Told(feed') : w.rev < rev + 1
      <4>1. \A w \in Told(feed) : w.rev \in Nat /\ w.rev <= rev
        BY FitBound, StreamTypes DEF Known, Fits
      <4> QED
        BY <1>1, <4>1
    <3> QED
      BY <3>2, <3>3 DEF Ahead, AboveFeed
  <2>2. CASE entries'[s] = entries[s]
    <3>1. BotOf(s)' = BotOf(s) /\ EntryNow(s)' = EntryNow(s)
      BY <2>2 DEF BotOf, EntryNow
    <3>2. mirror.entries[s] = entries[s].rev \/ Ahead(EntryNow(s)) \/ Omitted(s)
      BY <1>1, <1>11, <1>12, <1>13, <2>2, <3>1 DEF Windows, News
    <3>3. PICK x : x = EntryNow(s)
      OBVIOUS
    <3>4. Ahead(x) => Ahead(x)'
      BY <1>1, HostVersions DEF Ahead, AboveFeed
    <3>5. Omitted(s) => Omitted(s)'
      BY <1>1, <1>8, <1>11, <3>1 DEF Omitted
    <3> QED
      BY <1>1, <2>2, <3>1, <3>2, <3>3, <3>4, <3>5
  <2> QED
    BY <2>1, <2>2
<1>14. News'
  BY <1>13 DEF News
<1>15. FromNothing'
  <2>1. ASSUME stage' = "open", asked' = 0, NEW s \in Seqno, entries'[s].rev # 0, entries'[s].rev <= mirror'.cursor, Straight(s)'
        PROVE  mirror'.entries[s] = entries'[s].rev \/ UnderFeed(s)'
    <3>1. entries'[s] = entries[s] /\ BotOf(s)' = BotOf(s)
      BY <1>1, <1>10, <1>12, <1>10a, <2>1
    <3> QED
      BY <1>1, <1>11, <2>1, <3>1 DEF Windows, FromNothing
  <2> QED
    BY <1>1, <2>1 DEF Windows, FromNothing
<1>16. Floored'
  <2>1. ASSUME stage' # "none", NEW b \in Bot, floors'[b] # 0
        PROVE  asked' # 0 /\ floors'[b] \in Has(mirror, b)'
    BY <1>1, <1>8, <2>1 DEF Windows, Floored
  <2>2. ASSUME stage' # "none", NEW s \in Seqno, Missing(mirror, s)', Straight(s)', s < floors'[BotOf(s)']
        PROVE  Under(mirror, s)'
    <3>1. PICK b \in Bot : b = BotOf(s)'
      BY <1>1 DEF Grew, Row, BotOf
    <3>2. floors'[b] \in Has(mirror, b)'
      BY <2>1, <2>2, <3>1, RowTypes, MirrorTypes
    <3>3. s <= added
      <4>1. floors[b] <= added
        BY <1>1, <1>8, <3>2 DEF Has, Known, Fits, FitMirror, FitCopy
      <4> QED
        BY <1>1, <2>2, <3>1, <4>1, RowTypes, MirrorTypes
    <3>4. BotOf(s)' = BotOf(s) /\ entries[s].rev # 0
      BY <2>2, <3>3 DEF Missing, Grew, BotOf, HostMoves
    <3>5. Missing(mirror, s) /\ Straight(s) /\ s < floors[BotOf(s)]
      BY <1>1, <1>11, <2>2, <3>4 DEF Missing
    <3> QED
      BY <1>1, <1>11, <2>2, <3>4, <3>5 DEF Windows, Floored
  <2> QED
    BY <1>1, <2>1, <2>2 DEF Windows, Floored
<1>17. Tops'
  <2>1. stage' # "open" => Topped(mirror, partial)'
    <3>1. PICK p : p = partial
      OBVIOUS
    <3>2. stage # "open" => Topped(m, p)'
      BY <1>8, <3>1 DEF Windows, Tops
    <3>3. Topped(m, p)' => Topped(mirror, partial)'
      BY <1>1, <1>7, <3>1 DEF Topped, Has, Newer
    <3> QED
      BY <1>1, <3>2, <3>3
  <2>2. ASSUME stage' = "open", NEW s \in Seqno, entries'[s].rev # 0, entries'[s].rev <= mirror'.cursor, Straight(s)'
        PROVE  Has(mirror, BotOf(s))' # {} \/ (partial' /\ FeedHas(BotOf(s))')
    <3>1. entries'[s] = entries[s] /\ BotOf(s)' = BotOf(s)
      BY <1>1, <1>10, <1>12, <1>10a, <2>2
    <3> QED
      BY <1>1, <1>8, <1>11, <2>2, <3>1 DEF Windows, Tops, Has, FeedHas
  <2> QED
    BY <1>9, <2>1, <2>2 DEF Tops
<1>18. Gaps'
  <2>1. ASSUME answer' # NoAnswer, NEW f \in Seqno, NEW r \in Rev, answer'.seq < f, BotOf(f)' = answer'.bot, Version(f, r)'
        PROVE  answer'.rev <= r
    <3>1. r \in Nat /\ (Version(f, r) \/ r = rev + 1)
      BY <1>1, <2>1 DEF Rev
    <3>2. Version(f, r) => f <= added
      BY EventFits, MirrorTypes DEF Version, Known, Rows, Fits, FitMirror, FitEntry, FitCopy
    <3>3. CASE answer' # answer
      <4>1. answer'.rev = rev + 1 /\ answer'.seq > added /\ answer' \in EntryEvent
        BY <3>3, HostVersions
      <4>2. ~(f <= added)
        BY <2>1, <4>1, RowTypes, Kinds
      <4> QED
        BY <3>1, <3>2, <4>1, <4>2
    <3>4. CASE answer' = answer
      <4>1. answer \in EntryEvent /\ answer.rev \in Nat /\ answer.rev <= rev
        BY <2>1, <3>4, StreamTypes, Kinds DEF Known, Fits, FitEntry, FitCopy
      <4>2. CASE r = rev + 1
        BY <1>1, <3>4, <4>1, <4>2
      <4>3. CASE Version(f, r)
        <5>1. f <= added
          BY <3>2, <4>3
        <5>2. BotOf(f)' = BotOf(f)
          BY <5>1 DEF HostMoves, Grew, BotOf
        <5> QED
          BY <2>1, <3>4, <4>3, <5>2 DEF Windows, Gaps
      <4> QED
        BY <3>1, <4>2, <4>3
    <3> QED
      BY <3>3, <3>4
  <2> QED
    BY <1>8, <1>9, <2>1 DEF Gaps
<1> QED
  BY <1>8, <1>9, <1>14, <1>15, <1>16, <1>17, <1>18 DEF Windows

\* The same of the mirrors themselves.
VersionsKept == \A f \in Seqno, r \in Rev : Version(f, r)' => Version(f, r)
LEMMA CacheWindows ==
  ASSUME Known, Windows, Still, strayed \subseteq strayed', cache' = cache, atSave' = atSave, VersionsKept
  PROVE  Whole(cache)' /\ Blank(cache)' /\ Topped(cache, atSave.partial)' /\ Gapped(cache)'
<1>1. PICK c : c = cache
  OBVIOUS
<1>2. PICK p : p = atSave.partial
  OBVIOUS
<1>3. Whole(c) /\ Blank(c) /\ Topped(c, p) /\ Gapped(c)
  BY <1>1, <1>2 DEF Windows, Tops, Gaps
<1>4. Whole(c)' /\ Blank(c)' /\ Topped(c, p)' /\ Gapped(c)'
  BY <1>3, StillMirror DEF VersionsKept
<1>5. cache' = c /\ atSave'.partial = p
  BY <1>1, <1>2
<1>6. Whole(c)' = Whole(cache)' /\ Blank(c)' = Blank(cache)' /\ Gapped(c)' = Gapped(cache)'
  BY <1>5 DEF Whole, Blank, Gapped, Has, Under, Missing, Last
<1>7. Topped(c, p)' => Topped(cache, atSave.partial)'
  BY <1>5 DEF Topped, Has, Newer
<1> QED
  BY <1>4, <1>6, <1>7

LEMMA MirrorWindows ==
  ASSUME Known, Windows, Still, strayed \subseteq strayed', mirror' = mirror, VersionsKept
  PROVE  Whole(mirror)' /\ Blank(mirror)' /\ Gapped(mirror)' /\ \A p : Topped(mirror, p) => Topped(mirror, p)'
<1>1. PICK m : m = mirror
  OBVIOUS
<1>2. Whole(m) /\ Blank(m) /\ Gapped(m) /\ \A p : Topped(mirror, p) => Topped(m, p)
  BY <1>1 DEF Windows, Gaps
<1>3. Whole(m)' /\ Blank(m)' /\ Gapped(m)' /\ \A p : Topped(m, p) => Topped(m, p)'
  BY <1>2, StillMirror DEF VersionsKept
<1>4. mirror' = m
  BY <1>1
<1>5. Whole(m)' = Whole(mirror)' /\ Blank(m)' = Blank(mirror)' /\ Gapped(m)' = Gapped(mirror)'
  BY <1>4 DEF Whole, Blank, Gapped, Has, Under, Missing, Last
<1>6. \A p : Topped(m, p)' => Topped(mirror, p)'
  BY <1>4 DEF Topped, Has, Newer
<1> QED
  BY <1>2, <1>3, <1>5, <1>6

LEMMA MirrorTopped ==
  ASSUME Known, Windows
  PROVE  Topped(mirror, partial)
<1>1. ASSUME stage = "open", NEW s \in Seqno, entries[s].rev # 0, entries[s].rev <= mirror.cursor, Straight(s)
      PROVE  Has(mirror, BotOf(s)) # {} \/ (partial /\ Newer(mirror, BotOf(s)))
  <2>1. Has(mirror, BotOf(s)) # {} \/ (partial /\ FeedHas(BotOf(s)))
    BY <1>1 DEF Windows, Tops
  <2> QED
    BY <1>1, <2>1, FeedNewer
<1> QED
  BY <1>1 DEF Windows, Tops, Topped

\* The catch-up starts; a full refresh starts from nothing.
LEMMA ConnectWindows ==
  ASSUME Known, Windows, NEW full \in BOOLEAN, Connect(full)
  PROVE  Windows'
<1>1. /\ stage = "none" /\ stage' = "subscribed"
      /\ UNCHANGED <<rev, bots, entries, added, feed, live, answer, atSave>>
      /\ asked' = mirror'.cursor /\ floors' = NoFloors /\ partial' = (partial \/ asked' = 0)
      /\ \/ mirror' = mirror /\ cache' = cache /\ strayed' = strayed
         \/ mirror' = Rewound(mirror) /\ cache' = Rewound(cache)
  BY DEF Connect, host
<1>2. feed' = <<>> /\ Told(feed') = {} /\ Still /\ partial \in BOOLEAN
  BY <1>1, ToldNone DEF Known, TypeOK, Stages, Still
<1>3. /\ Whole(mirror)' /\ Whole(cache)' /\ Blank(mirror)' /\ Blank(cache)' /\ Topped(mirror, partial)' /\ Topped(cache, atSave.partial)'
      /\ Gapped(mirror)' /\ Gapped(cache)' /\ VersionsKept
  <2>1. CASE mirror' = mirror /\ cache' = cache /\ strayed' = strayed
    <3>1. VersionsKept
      BY <1>1, <2>1 DEF VersionsKept, Version
    <3>2. Whole(mirror)' /\ Blank(mirror)' /\ Gapped(mirror)' /\ \A p : Topped(mirror, p) => Topped(mirror, p)'
      BY <1>2, <2>1, <3>1, MirrorWindows
    <3>3. Topped(mirror, partial)'
      <4>1. PICK p : p = partial
        OBVIOUS
      <4>2. Topped(mirror, p)'
        BY <3>2, <4>1, MirrorTopped
      <4> QED
        BY <1>1, <4>1, <4>2 DEF Topped
    <3> QED
      BY <1>1, <1>2, <2>1, <3>1, <3>2, <3>3, CacheWindows
  <2>2. CASE mirror' = Rewound(mirror) /\ cache' = Rewound(cache)
    <3>1. /\ mirror'.cursor = 0 /\ cache'.cursor = 0
          /\ \A s \in Seqno : mirror'.entries[s] = 0 /\ cache'.entries[s] = 0
      BY <2>2, RewoundTypes, MirrorTypes
    <3>2. \A s \in Seqno : entries'[s].rev \in Nat
      BY <1>1, RowTypes
    <3>3. Whole(mirror)' /\ Blank(mirror)' /\ Gapped(mirror)' /\ Topped(mirror, partial)'
      BY <3>1, <3>2 DEF Whole, Blank, Gapped, Topped, Last, Has
    <3>4. Whole(cache)' /\ Blank(cache)' /\ Gapped(cache)' /\ Topped(cache, atSave.partial)'
      BY <3>1, <3>2 DEF Whole, Blank, Gapped, Topped, Last, Has
    <3>5. VersionsKept
      BY <1>1, <3>1 DEF VersionsKept, Version
    <3> QED
      BY <3>3, <3>4, <3>5
  <2> QED
    BY <1>1, <2>1, <2>2
<1>4. News' /\ FromNothing' /\ Tops'
  BY <1>1, <1>2, <1>3 DEF News, FromNothing, Tops
<1>5. Floored'
  <2>1. \A b \in Bot : floors'[b] = 0
    BY <1>1 DEF NoFloors
  <2>2. \A s \in Seqno : BotOf(s)' \in Bot /\ ~(s < 0)
    BY <1>1, RowTypes DEF BotOf
  <2> QED
    BY <1>2, <2>1, <2>2 DEF Floored
<1>6. Gaps'
  BY <1>1, <1>3 DEF Gaps, VersionsKept, Windows, BotOf
<1> QED
  BY <1>3, <1>4, <1>5, <1>6 DEF Windows

LEMMA ReadBotsWindows ==
  ASSUME Known, Windows, ReadBots
  PROVE  Windows'
<1>1. /\ stage = "subscribed" /\ stage' = "bots"
      /\ UNCHANGED <<rev, bots, entries, added, feed, live, mirror, asked, floors, answer, cache, atSave, strayed, partial>>
  BY DEF ReadBots, host, client, bounds, history
<1>2. Still /\ VersionsKept
  BY <1>1 DEF Still, VersionsKept, Version
<1>3. Whole(mirror)' /\ Blank(mirror)' /\ Gapped(mirror)'
  BY <1>1, <1>2, MirrorWindows
<1>4. Whole(cache)' /\ Blank(cache)' /\ Topped(cache, atSave.partial)' /\ Gapped(cache)'
  BY <1>1, <1>2, CacheWindows
<1>5. Topped(mirror, partial)'
  BY <1>1 DEF Windows, Tops, Topped, Has, Newer, BotOf, Straight
<1>6. News' /\ FromNothing' /\ Tops'
  BY <1>1, <1>4, <1>5 DEF News, FromNothing, Tops, Windows
<1>7. Floored'
  BY <1>1 DEF Windows, Floored, Missing, Straight, Under, Has, BotOf
<1>8. Gaps'
  BY <1>1, <1>2, <1>3, <1>4 DEF Gaps, VersionsKept, Windows, BotOf
<1> QED
  BY <1>3, <1>4, <1>6, <1>7, <1>8 DEF Windows

\* The catch-up is read: whatever is newer than the cursor, or the newest of it.
LEMMA ReadEntriesWindows ==
  ASSUME Known, Windows, ReadEntries
  PROVE  Windows'
<1>1. /\ stage = "bots" /\ stage' = "open" /\ feed' # <<>> /\ Head(feed') = Hello
      /\ Told(feed') = read \cup EntriesAfter(asked)
      /\ UNCHANGED <<rev, bots, entries, added, live, lagged, mirror, asked, floors, answer, cache, atSave, strayed, partial>>
  BY ReadEntriesKnown
<1>2. asked = mirror.cursor /\ asked \in Nat /\ Still
  BY <1>1, MirrorTypes DEF Known, Stages, Still
<1>3. \A v \in Told(feed') : v.t = "entry" => /\ v.seq \in Seqno /\ v = EntryNow(v.seq) /\ v.rev = entries[v.seq].rev /\ v.rev > asked
                                              /\ v.seq \in Sent(asked, BotOf(v.seq)) /\ v.bot = BotOf(v.seq)
  <2>1. \A v \in read : v.t # "entry"
    BY StreamTypes, Kinds
  <2> QED
    BY <1>1, <2>1, ReadEntriesKnown
<1>4. \A s \in Seqno : s \in Sent(asked, BotOf(s)) => EntryNow(s) \in Told(feed')
  BY <1>1, ReadEntriesKnown
<1>5. VersionsKept
  <2>1. \A v \in Told(feed') : v.t = "entry" => v.rev \in Nat /\ v.rev # 0 /\ entries[v.seq].rev = v.rev
    BY <1>2, <1>3, RowTypes
  <2> QED
    BY <1>1, <2>1 DEF VersionsKept, Version
<1>6. Whole(mirror)' /\ Blank(mirror)' /\ Gapped(mirror)'
  BY <1>1, <1>2, <1>5, MirrorWindows
<1>7. Whole(cache)' /\ Blank(cache)' /\ Topped(cache, atSave.partial)' /\ Gapped(cache)'
  BY <1>1, <1>2, <1>5, CacheWindows
<1>8. \A s : BotOf(s)' = BotOf(s) /\ (Straight(s)' <=> Straight(s)) /\ (Under(mirror, s)' <=> Under(mirror, s))
  BY <1>1 DEF BotOf, Straight, Under, Has
<1>9. \A b : Has(mirror, b)' = Has(mirror, b)
  BY <1>1 DEF Has, BotOf
\* A row that is newer than the cursor.
<1>10. ASSUME NEW s \in Seqno, entries[s].rev > mirror.cursor
       PROVE  /\ FeedHas(BotOf(s))'
              /\ EntryNow(s) \notin Told(feed') => asked = 0 /\ UnderFeed(s)'
  <2>1. s \in EntriesOf(BotOf(s)) /\ entries[s].rev # 0
    BY <1>10, MirrorTypes, RowTypes DEF EntriesOf
  <2>2. CASE asked # 0
    <3>1. EntryNow(s) \in Told(feed')
      BY <1>2, <1>4, <1>10, <2>1, <2>2 DEF Sent
    <3> QED
      BY <1>1, <3>1, EntryNowIs DEF FeedHas, BotOf
  <2>3. CASE asked = 0
    <3> DEFINE S == EntriesOf(BotOf(s))
    <3>1. S \subseteq Seqno /\ CATCH_UP_PER_BOT \in Nat \ {0}
      BY SyncAssumption DEF EntriesOf
    <3>2. /\ \A x \in Newest(CATCH_UP_PER_BOT, S), y \in S : x < y => y \in Newest(CATCH_UP_PER_BOT, S)
          /\ \E k \in Newest(CATCH_UP_PER_BOT, S) : k \in S
      BY <2>1, <3>1, NewestIs
    <3>3. \A x : BotOf(x) = BotOf(s) => Sent(asked, BotOf(x)) = Newest(CATCH_UP_PER_BOT, S)
      BY <2>3 DEF Sent
    <3>4. FeedHas(BotOf(s))'
      <4>1. PICK k \in S : k \in Newest(CATCH_UP_PER_BOT, S)
        BY <3>2
      <4>2. k \in Seqno /\ BotOf(k) = BotOf(s)
        BY DEF EntriesOf
      <4>3. EntryNow(k) \in Told(feed')
        BY <1>4, <3>3, <4>1, <4>2
      <4> QED
        BY <1>8, <4>2, <4>3, EntryNowIs DEF FeedHas
    <3>5. ASSUME EntryNow(s) \notin Told(feed'), NEW v \in Told(feed'), v.t = "entry", v.bot = BotOf(s)
          PROVE  s < v.seq
      <4>1. v.seq \in Seqno /\ BotOf(v.seq) = BotOf(s) /\ v.seq \in Sent(asked, BotOf(v.seq))
        BY <1>3, <3>5
      <4>2. v.seq \in Newest(CATCH_UP_PER_BOT, S)
        BY <3>3, <4>1
      <4>3. s \notin Newest(CATCH_UP_PER_BOT, S)
        BY <1>4, <3>3, <3>5
      <4>4. s # v.seq /\ ~(v.seq < s)
        BY <2>1, <3>2, <4>2, <4>3
      <4> QED
        <5>1. s \in Nat /\ v.seq \in Nat
          BY <4>1, RowTypes
        <5> QED
          BY <4>4, <5>1
    <3>6. EntryNow(s) \notin Told(feed') => UnderFeed(s)'
      BY <1>8, <3>5 DEF UnderFeed
    <3> QED
      BY <2>3, <3>4, <3>6
  <2> QED
    BY <2>2, <2>3
<1>11. News'
  <2>1. ASSUME NEW s \in Seqno, entries'[s].rev > mirror'.cursor, Straight(s)'
        PROVE  Ahead(EntryNow(s))' \/ Omitted(s)'
    <3>1. entries[s].rev > mirror.cursor /\ Straight(s) /\ EntryNow(s)' = EntryNow(s)
      BY <1>1, <1>8, <2>1 DEF EntryNow
    <3>2. CASE EntryNow(s) \in Told(feed')
      BY <3>1, <3>2 DEF Ahead
    <3>3. CASE EntryNow(s) \notin Told(feed')
      <4>1. asked = 0 /\ UnderFeed(s)' /\ FeedHas(BotOf(s))'
        BY <1>10, <3>1, <3>3
      <4>2. \A q \in Has(mirror, BotOf(s)) : ~Straight(q)
        BY <1>2, <4>1 DEF Windows, Blank, Has
      <4>3. Has(mirror, BotOf(s)) = {}
        BY <3>1, <4>2 DEF Straight, Has
      <4>4. Under(mirror, s)'
        BY <1>8, <4>3 DEF Under
      <4> QED
        BY <1>1, <4>1, <4>4 DEF Omitted, FeedHas
    <3> QED
      BY <3>2, <3>3
  <2> QED
    BY <2>1 DEF News
<1>12. FromNothing'
  <2>1. asked' = 0 => mirror'.cursor = 0 /\ partial'
    BY <1>1, <1>2 DEF Windows, FromNothing
  <2>2. \A s \in Seqno : entries'[s].rev \in Nat /\ (entries'[s].rev # 0 => ~(entries'[s].rev <= 0))
    BY <1>1, RowTypes
  <2> QED
    BY <1>1, <2>1, <2>2 DEF Windows, FromNothing
<1>13. Tops'
  <2>1. ASSUME NEW s \in Seqno, entries'[s].rev # 0, entries'[s].rev <= mirror'.cursor, Straight(s)'
        PROVE  Has(mirror, BotOf(s))' # {} \/ (partial' /\ FeedHas(BotOf(s))')
    <3>1. Has(mirror, BotOf(s)) # {} \/ (partial /\ Newer(mirror, BotOf(s)))
      BY <1>1, <1>8, <2>1 DEF Windows, Tops, Topped
    <3>2. ASSUME Newer(mirror, BotOf(s))
          PROVE  FeedHas(BotOf(s))'
      <4>1. PICK q \in Seqno : BotOf(q) = BotOf(s) /\ entries[q].rev > mirror.cursor
        BY <3>2 DEF Newer
      <4>2. FeedHas(BotOf(q))'
        BY <1>10, <4>1
      <4> QED
        BY <1>8, <4>1, <4>2 DEF FeedHas
    <3>3. Has(mirror, BotOf(s))' = Has(mirror, BotOf(s))
      BY <1>1 DEF Has, BotOf
    <3> QED
      BY <1>1, <3>1, <3>2, <3>3
  <2> QED
    BY <1>1, <1>7, <2>1 DEF Tops
<1>14. Floored'
  BY <1>1, <1>2, <1>8, <1>9 DEF Windows, Floored, Missing
<1>15. Gaps'
  BY <1>1, <1>5, <1>6, <1>7, <1>8 DEF Gaps, VersionsKept, Windows
<1> QED
  BY <1>6, <1>7, <1>11, <1>12, <1>13, <1>14, <1>15 DEF Windows

\* The stream ends; an app that comes back has the mirror it saved.
LEMMA EndingWindows ==
  ASSUME Known, Windows, Resync \/ Drop \/ Relaunch \/ HostDies
  PROVE  Windows'
<1> USE DEF host, stream, client, bounds, history
<1>1. /\ stage' = "none" /\ feed' = <<>> /\ Told(feed') = {} /\ Told(live') = {}
      /\ UNCHANGED <<rev, bots, entries, added, cache, atSave, strayed>>
      /\ \/ mirror' = mirror /\ answer' = answer /\ partial' = partial
         \/ mirror' = cache /\ answer' = NoAnswer /\ partial' = (atSave.partial \/ cache.cursor = 0)
  <2>1. StreamEnds
    BY DEF Resync, Drop, Relaunch, HostDies
  <2>2. stage' = "none" /\ feed' = <<>> /\ Told(feed') = {} /\ Told(live') = {}
    BY <2>1, ToldNone DEF StreamEnds
  <2>3. /\ UNCHANGED <<rev, bots, entries, added, cache, atSave, strayed>>
        /\ \/ mirror' = mirror /\ answer' = answer /\ partial' = partial
           \/ mirror' = cache /\ answer' = NoAnswer /\ partial' = (atSave.partial \/ cache.cursor = 0)
    BY DEF Resync, Drop, Relaunch, HostDies
  <2> QED
    BY <2>2, <2>3
<1>2. Still
  BY <1>1 DEF Still
<1>3. VersionsKept
  BY <1>1 DEF VersionsKept, Version
<1>4. Whole(cache)' /\ Blank(cache)' /\ Topped(cache, atSave.partial)' /\ Gapped(cache)'
  BY <1>1, <1>2, <1>3, CacheWindows
<1>5. Whole(mirror)' /\ Blank(mirror)' /\ Gapped(mirror)' /\ Topped(mirror, partial)' /\ (mirror'.cursor = 0 => partial')
  <2>1. CASE mirror' = mirror /\ partial' = partial
    <3>1. Whole(mirror)' /\ Blank(mirror)' /\ Gapped(mirror)' /\ \A p : Topped(mirror, p) => Topped(mirror, p)'
      BY <1>1, <1>2, <1>3, <2>1, MirrorWindows
    <3>2. PICK p : p = partial
      OBVIOUS
    <3>3. Topped(mirror, p)'
      BY <3>1, <3>2, MirrorTopped
    <3>4. Topped(mirror, partial)'
      BY <2>1, <3>2, <3>3 DEF Topped
    <3> QED
      BY <2>1, <3>1, <3>4 DEF Windows, FromNothing
  <2>2. CASE mirror' = cache /\ partial' = (atSave.partial \/ cache.cursor = 0)
    <3>1. mirror' = cache' /\ (atSave'.partial => partial')
      BY <1>1, <2>2
    <3>2. Whole(mirror)' /\ Blank(mirror)' /\ Gapped(mirror)'
      BY <1>4, <3>1 DEF Whole, Blank, Gapped, Has, Under, Missing, Last
    <3>3. Topped(mirror, partial)'
      BY <1>4, <3>1 DEF Topped, Has, Newer
    <3> QED
      BY <2>2, <3>2, <3>3
  <2> QED
    BY <1>1, <2>1, <2>2
<1>6. News' /\ FromNothing' /\ Tops' /\ Floored'
  BY <1>1, <1>4, <1>5 DEF News, FromNothing, Tops, Floored
<1>7. Gaps'
  BY <1>1, <1>3, <1>4, <1>5 DEF Gaps, VersionsKept, Windows, BotOf
<1> QED
  BY <1>4, <1>5, <1>6, <1>7 DEF Windows

\* The client takes an event.
Received(v, fresh) ==
  /\ v \in Event /\ fresh \in BOOLEAN /\ Taken(v) /\ Still /\ stage = "open"
  /\ UNCHANGED <<stage, lagged, asked, answer, cache, atSave>> /\ partial' = (partial /\ feed' # <<>>)
  /\ fresh <=> TakesFeed(v) /\ asked = 0
  /\ v.t \in {"hello", "bot", "entry"}
  /\ v.t = "hello" => ApplyHello /\ mirror' = mirror
  /\ v.t = "bot" => v \in BotEvent /\ FitBot(v) /\ ApplyBot(v) /\ BotApplied(v)
  /\ v.t = "entry" => v \in EntryEvent /\ FitEntry(v) /\ v.bot = BotOf(v.seq) /\ ApplyEntry(v, fresh) /\ EntryApplied(v)
  /\ v.t # "hello" => v \in BotEvent \cup EntryEvent /\ v.rev \in Nat /\ v.rev > 0 /\ v.rev <= mirror'.cursor
  /\ mirror'.cursor \in Nat /\ mirror.cursor <= mirror'.cursor
  /\ mirror'.cursor = mirror.cursor \/ (v.t # "hello" /\ mirror'.cursor = v.rev)
  /\ strayed \subseteq strayed'

LEMMA ReceivedIs ==
  ASSUME Known, Receive
  PROVE  \E v, fresh : Received(v, fresh)
<1>1. PICK v \in Event :
        /\ Taken(v) /\ ((TakesFeed(v) /\ Apply(v, asked = 0)) \/ (TakesLive(v) /\ Apply(v, FALSE)))
        /\ UNCHANGED <<rev, bots, entries, added, saving, stage, read, lagged, asked, answer, cache, drops, saves, refetches, atSave>>
        /\ racing' = (IF feed' = <<>> /\ live' = <<>> /\ ~lagged THEN {} ELSE racing)
        /\ partial' = (partial /\ feed' # <<>>)
  BY ReceiveTakes
<1>2. PICK fresh \in BOOLEAN : fresh <=> TakesFeed(v) /\ asked = 0
  OBVIOUS
<1>3. Apply(v, fresh)
  <2>1. CASE TakesFeed(v)
    <3>1. ~TakesLive(v) /\ fresh = (asked = 0)
      BY <1>2, <2>1 DEF TakesFeed, TakesLive
    <3> QED
      BY <1>1, <3>1
  <2>2. CASE TakesLive(v)
    <3>1. ~TakesFeed(v) /\ fresh = FALSE
      BY <1>2, <2>2 DEF TakesFeed, TakesLive
    <3> QED
      BY <1>1, <3>1
  <2> QED
    BY <1>1, <2>1, <2>2
<1>4. v.t \in {"hello", "bot", "entry"} /\ (v.t = "hello" => ApplyHello /\ mirror' = mirror)
  BY <1>3, Kinds DEF Apply, ApplyHello
<1>5. v.t # "hello" => v \in BotEvent \cup EntryEvent /\ Fit(v)
  <2>1. v.t # "hello" => v \in BotEvent \cup EntryEvent /\ v \in Told(feed) \cup Told(live)
    BY <1>1, Kinds DEF Taken
  <2> QED
    BY <2>1 DEF Known, Fits
<1>6. v.t = "bot" => v \in BotEvent /\ FitBot(v) /\ ApplyBot(v) /\ BotApplied(v)
  <2>1. v.t = "bot" => v \in BotEvent /\ ApplyBot(v)
    BY <1>3, Kinds DEF Apply
  <2> QED
    BY <1>5, <2>1, AppliedMirror DEF Fit
<1>7. v.t = "entry" => v \in EntryEvent /\ FitEntry(v) /\ v.bot = BotOf(v.seq) /\ ApplyEntry(v, fresh) /\ EntryApplied(v)
  <2>1. v.t = "entry" => v \in EntryEvent /\ ApplyEntry(v, fresh)
    BY <1>3, Kinds DEF Apply
  <2> QED
    BY <1>5, <2>1, AppliedMirror DEF Fit, FitEntry
<1>8. v.t # "hello" => /\ v.rev \in Nat /\ v.rev > 0
                       /\ mirror'.cursor \in Nat /\ mirror.cursor <= mirror'.cursor /\ v.rev <= mirror'.cursor
                       /\ mirror'.cursor = mirror.cursor \/ mirror'.cursor = v.rev
  BY <1>4, <1>5, <1>6, <1>7, AppliedFits, FitBound, Kinds
<1>9. /\ mirror'.cursor \in Nat /\ mirror.cursor <= mirror'.cursor
      /\ mirror'.cursor = mirror.cursor \/ (v.t # "hello" /\ mirror'.cursor = v.rev)
  BY <1>4, <1>8, MirrorTypes
<1>10. strayed \subseteq strayed'
  BY <1>4, <1>6, <1>7 DEF ApplyHello, ApplyBot, ApplyEntry
<1>11. Received(v, fresh)
  BY <1>1, <1>2, <1>4, <1>5, <1>6, <1>7, <1>8, <1>9, <1>10 DEF Received, Still, Taken
<1> QED
  BY <1>11

\* A chat that an event leaves alone, and one that it puts an entry in.
Kept(b) == Has(mirror, b)' = Has(mirror, b) /\ \A q \in Seqno : BotOf(q) = b => mirror'.entries[q] = mirror.entries[q]
Filled(v) ==
  /\ Has(mirror, v.bot)' = Has(mirror, v.bot) \cup {v.seq}
  /\ mirror'.entries[v.seq] = Higher(mirror.entries[v.seq], v.rev)
  /\ \A q \in Seqno : q # v.seq => mirror'.entries[q] = mirror.entries[q]

LEMMA KeptOrFilled ==
  ASSUME Known, NEW v, NEW fresh, Received(v, fresh), NEW s \in Seqno, entries[s].rev # 0
  PROVE  Kept(BotOf(s)) \/ (v.t = "entry" /\ v.bot = BotOf(s) /\ ~Outside(v.seq, v.bot) /\ Filled(v))
<1>1. \A q : BotOf(q)' = BotOf(q)
  BY DEF Received, Still, BotOf
<1>2. ASSUME \A q \in Seqno : BotOf(q) = BotOf(s) => mirror'.entries[q] = mirror.entries[q]
      PROVE  Kept(BotOf(s))
  BY <1>1, <1>2 DEF Kept, Has
<1>3. CASE v.t = "hello"
  BY <1>2, <1>3 DEF Received
<1>4. CASE v.t = "bot"
  <2>1. v.deleted => v.bot # BotOf(s)
    BY <1>4, CopyBound DEF Received, FitBot
  <2> QED
    BY <1>2, <1>4, <2>1 DEF Received, BotApplied
<1>5. CASE v.t = "entry"
  <2>1. v \in EntryEvent /\ v.seq \in Seqno /\ v.rev \in Nat /\ v.rev > 0 /\ v.bot = BotOf(v.seq) /\ EntryApplied(v)
    BY <1>5, Kinds DEF Received
  <2>2. CASE Outside(v.seq, v.bot) \/ v.bot # BotOf(s)
    BY <1>2, <2>1, <2>2 DEF EntryApplied
  <2>3. CASE ~Outside(v.seq, v.bot) /\ v.bot = BotOf(s)
    <3>1. mirror'.entries[v.seq] = Higher(mirror.entries[v.seq], v.rev)
      BY <2>1, <2>3 DEF EntryApplied
    <3>2. \A q \in Seqno : q # v.seq => mirror'.entries[q] = mirror.entries[q]
      BY <2>1 DEF EntryApplied
    <3>3. mirror'.entries[v.seq] # 0
      BY <2>1, <3>1, MirrorTypes DEF Higher
    <3>4. Has(mirror, v.bot)' = Has(mirror, v.bot) \cup {v.seq}
      BY <1>1, <2>1, <3>2, <3>3 DEF Has
    <3> QED
      BY <1>5, <2>3, <3>1, <3>2, <3>4 DEF Filled
  <2> QED
    BY <2>2, <2>3
<1> QED
  BY <1>3, <1>4, <1>5 DEF Received

\* What is held stays held, at the row's version if it was.
LEMMA KnownStays ==
  ASSUME Known, NEW v, NEW fresh, Received(v, fresh), NEW s \in Seqno, entries[s].rev # 0
  PROVE  /\ mirror.entries[s] = entries[s].rev => mirror'.entries[s] = entries[s].rev
         /\ Has(mirror, BotOf(s)) \subseteq Has(mirror, BotOf(s))'
<1>1. CASE Kept(BotOf(s))
  BY <1>1 DEF Kept
<1>2. CASE v.t = "entry" /\ v.bot = BotOf(s) /\ Filled(v)
  <2>1. v \in EntryEvent /\ FitEntry(v)
    BY <1>2 DEF Received
  <2>2. v.seq = s => v.rev <= entries[s].rev /\ v.rev \in Nat
    BY <2>1, CopyBound, Kinds
  <2>3. mirror.entries[s] = entries[s].rev => mirror'.entries[s] = entries[s].rev
    <3>1. CASE v.seq = s
      BY <1>2, <2>2, <3>1, RowTypes DEF Filled, Higher
    <3>2. CASE v.seq # s
      BY <1>2, <3>2 DEF Filled
    <3> QED
      BY <3>1, <3>2
  <2>4. BotOf(s)' = BotOf(s)
    BY DEF Received, Still, BotOf
  <2>5. Has(mirror, BotOf(s)) \subseteq Has(mirror, BotOf(s))'
    BY <1>2, <2>4 DEF Filled
  <2> QED
    BY <2>3, <2>5
<1> QED
  BY <1>1, <1>2, KeptOrFilled

\* An entry that would be paged in stays so: what goes in below the oldest one held has no floor, and then
\* either the chat strays or a catch-up from nothing is still bringing it.
LEMMA UnderStays ==
  ASSUME Known, Windows, NEW v, NEW fresh, Received(v, fresh), NEW s \in Seqno, entries[s].rev # 0,
         Under(mirror, s), BotOf(s) \notin strayed',
         fresh /\ v.t = "entry" /\ v.bot = BotOf(s) => s < v.seq,
         Has(mirror, BotOf(s)) # {} \/ partial \/ fresh
  PROVE  Under(mirror, s)'
<1>1. BotOf(s)' = BotOf(s) /\ s \in Nat /\ BotOf(s) \in Bot
  BY RowTypes DEF Received, Still, BotOf
<1>2. CASE Kept(BotOf(s))
  BY <1>1, <1>2 DEF Kept, Under
<1>3. CASE v.t = "entry" /\ v.bot = BotOf(s) /\ ~Outside(v.seq, v.bot) /\ Filled(v)
  <2>1. v.seq \in Seqno /\ v.seq \in Nat
    BY <1>3, Kinds DEF Received
  <2>2. CASE s < v.seq
    BY <1>1, <1>3, <2>2 DEF Filled, Under
  <2>3. CASE v.seq <= s
    <3>1. \A q \in Has(mirror, BotOf(s)) : q \in Nat /\ s < q /\ v.seq < q
      <4>1. \A q \in Has(mirror, BotOf(s)) : q \in Nat /\ s < q
        BY RowTypes DEF Under, Has
      <4> QED
        BY <1>1, <2>1, <2>3, <4>1
    <3>2. mirror.entries[v.seq] = 0
      <4>1. v.seq \notin Has(mirror, BotOf(s)) /\ v.bot = BotOf(v.seq)
        BY <1>3, <2>1, <3>1 DEF Received
      <4> QED
        BY <1>3, <2>1, <4>1 DEF Has
    <3>3. CASE floors[BotOf(s)] # 0
      <4>1. floors[BotOf(s)] \in Has(mirror, BotOf(s))
        BY <1>1, <3>3 DEF Windows, Floored, Received
      <4>2. Outside(v.seq, v.bot)
        BY <1>3, <3>1, <3>2, <3>3, <4>1 DEF Outside
      <4> QED
        BY <1>3, <4>2
    <3>4. CASE floors[BotOf(s)] = 0
      <4>1. ~fresh
        BY <1>1, <1>3, <2>1, <2>3
      <4>2. ~partial /\ ~Late(v.seq, v.bot)
        BY <1>3, <3>4, <4>1 DEF Received, ApplyEntry
      <4>3. Has(mirror, BotOf(s)) = {}
        BY <1>3, <3>1, <3>2, <4>2 DEF Late, HeldOf, Has
      <4> QED
        BY <4>1, <4>2, <4>3
    <3> QED
      BY <3>3, <3>4
  <2> QED
    BY <1>1, <2>1, <2>2, <2>3
<1> QED
  BY <1>2, <1>3, KeptOrFilled

\* What the catch-up has for a chat is still to come, or has come.
LEMMA FeedGoes ==
  ASSUME Known, Windows, NEW v, NEW fresh, Received(v, fresh), NEW s \in Seqno, entries[s].rev # 0, FeedHas(BotOf(s))
  PROVE  Has(mirror, BotOf(s))' # {} \/ (FeedHas(BotOf(s))' /\ feed' # <<>>)
<1>1. BotOf(s)' = BotOf(s) /\ BotOf(s) \in Bot
  BY RowTypes DEF Received, Still, BotOf
<1>2. PICK w \in Told(feed) : w.t = "entry" /\ w.bot = BotOf(s)
  BY DEF FeedHas
<1>3. Told(feed) \subseteq Told(feed') \cup {v}
  <2>1. Taken(v)
    BY DEF Received
  <2> QED
    BY <2>1 DEF Taken
<1>4. CASE w \in Told(feed')
  BY <1>1, <1>2, <1>4, ToldNone DEF FeedHas
<1>5. CASE w = v
  <2>1. CASE Filled(v)
    BY <1>1, <1>2, <1>5, <2>1 DEF Filled
  <2>2. CASE Outside(v.seq, v.bot)
    <3>1. floors[BotOf(s)] # 0
      BY <1>2, <1>5, <2>2 DEF Outside
    <3>2. Has(mirror, BotOf(s)) # {}
      BY <1>1, <3>1 DEF Windows, Floored, Received
    <3>3. Has(mirror, BotOf(s)) \subseteq Has(mirror, BotOf(s))'
      BY KnownStays
    <3> QED
      BY <1>1, <3>2, <3>3
  <2>3. CASE ~Outside(v.seq, v.bot) /\ Kept(BotOf(s))
    <3>1. v.seq \in Seqno /\ BotOf(v.seq) = BotOf(s) /\ v.rev \in Nat /\ v.rev > 0 /\ EntryApplied(v)
      BY <1>2, <1>5, Kinds DEF Received
    <3>2. mirror'.entries[v.seq] = Higher(mirror.entries[v.seq], v.rev)
      BY <2>3, <3>1 DEF EntryApplied
    <3>3. mirror'.entries[v.seq] # 0
      BY <3>1, <3>2, MirrorTypes DEF Higher
    <3> QED
      BY <1>1, <3>1, <3>3 DEF Has, Received, Still, BotOf
  <2> QED
    BY <2>1, <2>2, <2>3, KeptOrFilled
<1> QED
  BY <1>3, <1>4, <1>5

\* What an event adds to what the cursor has passed.
LEMMA Passed ==
  ASSUME Known, Windows, NEW v, NEW fresh, Received(v, fresh), NEW s \in Seqno, entries[s].rev # 0,
         entries[s].rev > mirror.cursor, entries[s].rev <= mirror'.cursor, BotOf(s) \notin strayed'
  PROVE  \/ mirror'.entries[s] = entries[s].rev
         \/ floors[BotOf(s)] # 0 /\ Under(mirror, s)'
         \/ Omitted(s)
<1>1. BotOf(s)' = BotOf(s) /\ s \in Nat /\ BotOf(s) \in Bot /\ Straight(s)
  BY RowTypes DEF Received, Still, BotOf, Straight
<1>2. mirror.entries[s] = entries[s].rev \/ Ahead(EntryNow(s)) \/ Omitted(s)
  BY <1>1 DEF Windows, News, Received
<1>3. CASE Ahead(EntryNow(s))
  <2>1. v \in Event /\ Taken(v) /\ v.t # "hello" /\ entries[s].rev <= v.rev
    BY RowTypes, MirrorTypes DEF Received
  <2>2. EntryNow(s) \in BotEvent \cup EntryEvent
    BY RowTypes DEF EntryNow, EntryEvent
  <2>3. EntryNow(s) = v
    BY <1>3, <2>1, <2>2, EntryNowIs, Crossing
  <2>4. v.t = "entry" /\ v.bot = BotOf(s) /\ v.seq = s /\ v.rev = entries[s].rev /\ EntryApplied(v)
    BY <2>3, EntryNowIs DEF Received
  <2>5. CASE ~Outside(v.seq, v.bot)
    <3>1. mirror'.entries[s] = Higher(mirror.entries[s], entries[s].rev)
      BY <2>4, <2>5 DEF EntryApplied
    <3>2. mirror.entries[s] <= entries[s].rev
      BY CopyBound
    <3>3. mirror.entries[s] \in Nat /\ entries[s].rev \in Nat
      BY MirrorTypes, RowTypes
    <3>4. Higher(mirror.entries[s], entries[s].rev) = entries[s].rev
      BY <3>2, <3>3 DEF Higher
    <3> QED
      BY <3>1, <3>4
  <2>6. CASE Outside(v.seq, v.bot)
    <3>1. floors[BotOf(s)] # 0 /\ s < floors[BotOf(s)] /\ Missing(mirror, s)
      BY <2>4, <2>6 DEF Outside, Missing
    <3>2. Under(mirror, s)
      BY <1>1, <3>1 DEF Windows, Floored, Received
    <3>3. Kept(BotOf(s))
      BY <2>6, KeptOrFilled
    <3> QED
      BY <1>1, <3>1, <3>2, <3>3 DEF Kept, Under
  <2> QED
    BY <2>5, <2>6
<1> QED
  BY <1>2, <1>3, KnownStays

\* What a catch-up from nothing leaves out stays left out.
LEMMA OmittedStays ==
  ASSUME Known, Windows, NEW v, NEW fresh, Received(v, fresh), NEW s \in Seqno, entries[s].rev # 0,
         Omitted(s), BotOf(s) \notin strayed'
  PROVE  Omitted(s)'
<1>1. BotOf(s)' = BotOf(s) /\ asked' = asked /\ Told(feed') \subseteq Told(feed)
  BY DEF Received, Still, BotOf, Taken
<1>2. UnderFeed(s)'
  BY <1>1 DEF Omitted, UnderFeed
<1>3. Has(mirror, BotOf(s)) # {} \/ fresh
  <2>1. FeedHas(BotOf(s)) => fresh
    <3>1. FeedHas(BotOf(s)) => feed # <<>>
      BY ToldNone DEF FeedHas
    <3>2. feed # <<>> => TakesFeed(v)
      BY DEF Received, Taken, TakesLive
    <3> QED
      BY <3>1, <3>2 DEF Received, Omitted
  <2> QED
    BY <2>1 DEF Omitted
<1>4. fresh /\ v.t = "entry" /\ v.bot = BotOf(s) => s < v.seq
  <2>1. fresh /\ v.t = "entry" => v \in Told(feed)
    BY DEF Received, Taken, TakesFeed, TakesLive
  <2> QED
    BY <2>1 DEF Omitted, UnderFeed
<1>5. Under(mirror, s)'
  BY <1>3, <1>4, UnderStays DEF Omitted
<1>6. Has(mirror, BotOf(s))' # {} \/ FeedHas(BotOf(s))'
  <2>1. CASE Has(mirror, BotOf(s)) # {}
    BY <1>1, <2>1, KnownStays
  <2>2. CASE FeedHas(BotOf(s))
    BY <2>2, FeedGoes
  <2> QED
    BY <2>1, <2>2 DEF Omitted
<1> QED
  BY <1>1, <1>2, <1>5, <1>6 DEF Omitted

\* No version is new.
LEMMA ReceivedVersions ==
  ASSUME Known, NEW v, NEW fresh, Received(v, fresh)
  PROVE  VersionsKept
<1>1. Told(feed') \subseteq Told(feed) /\ Told(live') \subseteq Told(live) /\ UNCHANGED <<entries, answer, cache>>
  BY DEF Received, Taken, Still
<1>2. \A f \in Seqno, r \in Rev : r # 0 /\ mirror'.entries[f] = r => Version(f, r)
  <2>1. TAKE f \in Seqno, r \in Rev
  <2>2. CASE v.t = "hello"
    BY <2>2 DEF Received, Version
  <2>3. CASE v.t = "bot"
    BY <2>3 DEF Received, Version, BotApplied
  <2>4. CASE v.t = "entry"
    <3>1. v \in Told(feed) \cup Told(live) /\ EntryApplied(v)
      BY <2>4 DEF Received, Taken
    <3>2. mirror'.entries[f] = mirror.entries[f] \/ (f = v.seq /\ mirror'.entries[f] = v.rev)
      BY <3>1 DEF EntryApplied, Higher
    <3> QED
      BY <2>4, <3>1, <3>2 DEF Version
  <2> QED
    BY <2>2, <2>3, <2>4 DEF Received
<1> QED
  BY <1>1, <1>2 DEF VersionsKept, Version

LEMMA ReceiveWhole ==
  ASSUME Known, Windows, NEW v, NEW fresh, Received(v, fresh)
  PROVE  Whole(mirror)' /\ News' /\ FromNothing' /\ Blank(mirror)' /\ Tops'
<1>1. /\ \A s : BotOf(s)' = BotOf(s) /\ (Straight(s)' <=> BotOf(s) \notin strayed') /\ (BotOf(s) \notin strayed' => Straight(s))
      /\ UNCHANGED <<rev, entries, stage, asked, cache, atSave>> /\ stage = "open" /\ partial' = (partial /\ feed' # <<>>)
      /\ Told(feed') \subseteq Told(feed) /\ strayed \subseteq strayed'
  BY DEF Received, Still, BotOf, Straight, Taken
<1>2. /\ mirror.cursor <= mirror'.cursor /\ mirror'.cursor \in Nat /\ mirror.cursor \in Nat /\ \A s \in Seqno : entries[s].rev \in Nat
      /\ \A s \in Seqno : mirror.entries[s] \in Nat
  BY RowTypes, MirrorTypes DEF Received
<1>3. asked = 0 => \A b \in Bot : floors[b] = 0
  BY <1>1 DEF Windows, Floored
<1>4. asked' = 0 /\ feed' # <<>> => partial'
  <2>1. feed' # <<>> => feed # <<>>
    BY DEF Received, Taken, TakesFeed, TakesLive
  <2> QED
    BY <1>1, <2>1 DEF Windows, FromNothing
<1>5. mirror'.cursor = 0 => partial' /\ mirror' = mirror
  <2>1. SUFFICES ASSUME mirror'.cursor = 0
                 PROVE  partial' /\ mirror' = mirror
    OBVIOUS
  <2>2. v.t = "hello" /\ mirror' = mirror /\ mirror.cursor = 0
    BY <1>2, <2>1 DEF Received
  <2>3. asked = 0
    BY <1>1, <2>2, MirrorTypes DEF Known, Stages
  <2>4. feed' # <<>>
    BY <2>2, <2>3 DEF Received, Taken
  <2> QED
    BY <1>1, <1>4, <2>2, <2>3, <2>4
\* A row the cursor had passed.
<1>6. ASSUME NEW s \in Seqno, entries[s].rev # 0, entries[s].rev <= mirror.cursor, BotOf(s) \notin strayed'
      PROVE  mirror'.entries[s] = entries[s].rev \/ Under(mirror, s)'
  <2>1. mirror.entries[s] = entries[s].rev \/ Under(mirror, s)
    BY <1>1, <1>6 DEF Windows, Whole
  <2>2. Has(mirror, BotOf(s)) # {} \/ partial
    BY <1>1, <1>6 DEF Windows, Tops
  <2>3. CASE mirror.entries[s] = entries[s].rev
    BY <1>6, <2>3, KnownStays
  <2>4. CASE mirror.entries[s] # entries[s].rev /\ Under(mirror, s)
    <3>1. fresh /\ v.t = "entry" /\ v.bot = BotOf(s) => s < v.seq
      <4>1. fresh => asked = 0
        BY DEF Received
      <4>2. fresh => UnderFeed(s)
        BY <1>1, <1>6, <2>4, <4>1 DEF Windows, FromNothing
      <4>3. fresh /\ v.t = "entry" => v \in Told(feed)
        BY DEF Received, Taken, TakesFeed, TakesLive
      <4> QED
        BY <4>2, <4>3 DEF UnderFeed
    <3> QED
      BY <1>6, <2>2, <2>4, <3>1, UnderStays
  <2> QED
    BY <2>1, <2>3, <2>4
\* A row it passes now.
<1>7. ASSUME NEW s \in Seqno, entries[s].rev # 0, ~(entries[s].rev <= mirror.cursor), entries[s].rev <= mirror'.cursor, BotOf(s) \notin strayed'
      PROVE  \/ mirror'.entries[s] = entries[s].rev
             \/ floors[BotOf(s)] # 0 /\ Under(mirror, s)'
             \/ Omitted(s) /\ Omitted(s)'
  BY <1>2, <1>7, Passed, OmittedStays
<1>8. Whole(mirror)'
  <2>1. ASSUME NEW s \in Seqno, entries[s].rev # 0, entries[s].rev <= mirror'.cursor, BotOf(s) \notin strayed'
        PROVE  mirror'.entries[s] = entries[s].rev \/ Under(mirror, s)'
    BY <1>6, <1>7, <2>1 DEF Omitted
  <2> QED
    BY <1>1, <2>1 DEF Whole
<1>9. Blank(mirror)'
  BY <1>1, <1>5 DEF Windows, Blank
<1>10. FromNothing'
  <2>1. ASSUME asked = 0, NEW s \in Seqno, entries[s].rev # 0, entries[s].rev <= mirror'.cursor, BotOf(s) \notin strayed'
        PROVE  mirror'.entries[s] = entries[s].rev \/ UnderFeed(s)'
    <3>1. CASE entries[s].rev <= mirror.cursor
      <4>1. mirror.entries[s] = entries[s].rev \/ UnderFeed(s)
        BY <1>1, <2>1, <3>1 DEF Windows, FromNothing
      <4>2. UnderFeed(s) => UnderFeed(s)'
        BY <1>1 DEF UnderFeed
      <4> QED
        BY <2>1, <4>1, <4>2, KnownStays
    <3>2. CASE ~(entries[s].rev <= mirror.cursor)
      BY <1>3, <1>7, <2>1, <3>2, RowTypes DEF Omitted
    <3> QED
      BY <3>1, <3>2
  <2> QED
    BY <1>1, <1>4, <1>5, <2>1 DEF FromNothing
<1>11. News'
  <2>1. ASSUME NEW s \in Seqno, entries[s].rev > mirror'.cursor, BotOf(s) \notin strayed'
        PROVE  mirror'.entries[s] = entries[s].rev \/ Ahead(EntryNow(s))' \/ Omitted(s)'
    <3>1. entries[s].rev > mirror.cursor /\ entries[s].rev # 0
      BY <1>2, <2>1
    <3>2. mirror.entries[s] = entries[s].rev \/ Ahead(EntryNow(s)) \/ Omitted(s)
      BY <1>1, <2>1, <3>1 DEF Windows, News
    <3>3. CASE Ahead(EntryNow(s))
      <4>1. PICK x : x = EntryNow(s)
        OBVIOUS
      <4>2. x \in BotEvent \cup EntryEvent /\ x.rev = entries[s].rev /\ Ahead(x) /\ x.t # "hello"
        BY <3>3, <4>1, RowTypes, EntryNowIs DEF EntryNow, EntryEvent
      <4>3. x # v
        BY <1>2, <2>1, <4>2 DEF Received
      <4>4. Ahead(x)'
        BY <4>2, <4>3, Remaining DEF Received
      <4>5. EntryNow(s)' = x
        BY <1>1, <4>1 DEF EntryNow
      <4> QED
        BY <4>4, <4>5
    <3> QED
      BY <2>1, <3>1, <3>2, <3>3, KnownStays, OmittedStays
  <2> QED
    BY <1>1, <2>1 DEF News
<1>12. Tops'
  <2>1. ASSUME NEW s \in Seqno, entries[s].rev # 0, entries[s].rev <= mirror'.cursor, BotOf(s) \notin strayed'
        PROVE  Has(mirror, BotOf(s))' # {} \/ (partial' /\ FeedHas(BotOf(s))')
    <3>1. Has(mirror, BotOf(s)) # {} => Has(mirror, BotOf(s))' # {}
      BY <2>1, KnownStays
    <3>2. ASSUME FeedHas(BotOf(s)), partial
          PROVE  Has(mirror, BotOf(s))' # {} \/ (partial' /\ FeedHas(BotOf(s))')
      BY <1>1, <2>1, <3>2, FeedGoes
    <3>3. CASE entries[s].rev <= mirror.cursor
      <4>1. Has(mirror, BotOf(s)) # {} \/ (partial /\ FeedHas(BotOf(s)))
        BY <1>1, <2>1, <3>3 DEF Windows, Tops
      <4> QED
        BY <3>1, <3>2, <4>1
    <3>4. CASE ~(entries[s].rev <= mirror.cursor)
      <4>1. CASE mirror'.entries[s] = entries[s].rev
        BY <1>1, <2>1, <4>1 DEF Has
      <4>2. CASE floors[BotOf(s)] # 0
        <5>1. Has(mirror, BotOf(s)) # {}
          BY <1>1, <4>2, RowTypes DEF Windows, Floored
        <5> QED
          BY <3>1, <5>1
      <4>3. CASE Omitted(s)
        <5>1. Has(mirror, BotOf(s)) # {} \/ (FeedHas(BotOf(s)) /\ asked = 0)
          BY <4>3 DEF Omitted
        <5>2. FeedHas(BotOf(s)) => feed # <<>>
          BY ToldNone DEF FeedHas
        <5> QED
          BY <3>1, <3>2, <5>1, <5>2 DEF Windows, FromNothing
      <4> QED
        BY <1>7, <2>1, <3>4, <4>1, <4>2, <4>3
    <3> QED
      BY <3>3, <3>4
  <2>2. Topped(cache, atSave.partial)'
    BY <1>1, CacheWindows, ReceivedVersions DEF Received
  <2> QED
    BY <1>1, <2>1, <2>2 DEF Tops, Has, FeedHas
<1> QED
  BY <1>8, <1>9, <1>10, <1>11, <1>12

\* The floors are what the catch-up starts from: below the lowest copy of before it there is nothing.
LEMMA ReceiveFloored ==
  ASSUME Known, Windows, NEW v, NEW fresh, Received(v, fresh)
  PROVE  Floored'
<1>1. /\ \A s : BotOf(s)' = BotOf(s) /\ (BotOf(s) \notin strayed' => Straight(s))
      /\ UNCHANGED <<rev, entries, stage, asked>> /\ stage = "open" /\ strayed \subseteq strayed'
  BY DEF Received, Still, BotOf, Straight
<1>2. feed' # <<>> => Head(feed').t # "hello"
  <2>1. feed' # <<>> => 1 \in 1..Len(feed') /\ Head(feed') = feed'[1]
    BY DEF Received, Taken
  <2> QED
    BY <2>1 DEF Received, Taken
<1>3. ASSUME NEW s \in Seqno, Missing(mirror, s)'
      PROVE  entries[s].rev # 0 /\ Missing(mirror, s) /\ Has(mirror, BotOf(s)) \subseteq Has(mirror, BotOf(s))'
  <2>1. entries[s].rev # 0 /\ mirror'.entries[s] = 0
    BY <1>1, <1>3 DEF Missing
  <2>2. Has(mirror, BotOf(s)) \subseteq Has(mirror, BotOf(s))'
    BY <2>1, KnownStays
  <2>3. mirror.entries[s] = 0
    <3>1. SUFFICES ASSUME mirror.entries[s] # 0
                   PROVE  FALSE
      OBVIOUS
    <3>2. s \in Has(mirror, BotOf(s))
      BY <3>1 DEF Has
    <3>3. s \in Has(mirror, BotOf(s))'
      BY <2>2, <3>2
    <3> QED
      BY <2>1, <3>3 DEF Has
  <2> QED
    BY <2>1, <2>2, <2>3 DEF Missing
<1>4. CASE v.t = "hello"
  <2>1. ApplyHello /\ mirror' = mirror /\ feed # <<>> /\ Head(feed).t = "hello"
    BY <1>4 DEF Received, Taken, TakesFeed, TakesLive
  <2>2. asked = mirror.cursor
    BY <2>1 DEF Windows, Floored
  <2>3. \A b \in Bot : floors'[b] # 0 =>
          asked > 0 /\ floors'[b] \in Loaded(b) /\ floors'[b] \in Seqno /\ \A q \in Loaded(b) : floors'[b] <= q
    BY <2>1, HelloTypes
  <2>4. \A b : Has(mirror, b)' = Has(mirror, b) /\ HeldOf(b) = Has(mirror, b)
    BY <1>1, <2>1 DEF Has, HeldOf
  <2>5. \A b \in Bot : floors'[b] # 0 => asked' # 0 /\ floors'[b] \in Has(mirror, b)'
    BY <1>1, <2>3, <2>4, MirrorTypes DEF Loaded
  <2>6. ASSUME NEW s \in Seqno, Missing(mirror, s)', BotOf(s) \notin strayed', s < floors'[BotOf(s)], NEW x \in Has(mirror, BotOf(s)), ~(s < x)
        PROVE  FALSE
    <3>1. BotOf(s) \in Bot /\ s \in Nat /\ entries[s].rev # 0 /\ Missing(mirror, s)
      BY <1>3, <2>6, RowTypes
    <3>2. PICK f \in Seqno : f = floors'[BotOf(s)]
      <4>1. floors'[BotOf(s)] # 0
        BY <2>6, <3>1
      <4> QED
        BY <2>3, <3>1, <4>1
    <3>3. /\ f \in Nat /\ f # 0 /\ s < f /\ f \in Loaded(BotOf(s)) /\ asked > 0
          /\ \A q \in Loaded(BotOf(s)) : f <= q
      BY <2>3, <2>6, <3>1, <3>2, RowTypes
    <3>4. f \in Has(mirror, BotOf(s)) /\ BotOf(f) = BotOf(s) /\ mirror.entries[f] # 0 /\ mirror.entries[f] <= asked
      BY <2>4, <3>3 DEF Loaded, Has
    <3>5. x \in Seqno /\ x \in Nat /\ x < s
      <4>1. x # s
        BY <3>1 DEF Missing, Has
      <4>2. x \in Seqno /\ x \in Nat
        BY RowTypes DEF Has
      <4> QED
        BY <2>6, <3>1, <4>1, <4>2
    \* The last copy below s.
    <3> DEFINE below == {q \in Has(mirror, BotOf(s)) : q < s}
    <3>6. PICK q \in below : \A y \in below : y <= q
      <4>1. below \in SUBSET Seqno /\ below # {}
        BY <3>5 DEF Has
      <4>2. \E k \in Newest(1, below) : k \in below /\ \A y \in below : y <= k
        <5>1. 1 \in Nat \ {0}
          OBVIOUS
        <5> QED
          BY <4>1, <5>1, NewestIs
      <4> QED
        BY <4>2
    <3>7. q \in Seqno /\ q \in Nat /\ q < s /\ q \in Has(mirror, BotOf(s)) /\ mirror.entries[q] \in Nat
      BY RowTypes, MirrorTypes DEF Has
    <3>8. Last(mirror, q, s)
      <4>1. ASSUME NEW y \in Has(mirror, BotOf(s))
            PROVE  y <= q \/ s < y
        <5>1. y \in Nat /\ y # s
          BY <3>1, RowTypes DEF Missing, Has
        <5>2. CASE y < s
          BY <3>6, <5>2
        <5> QED
          BY <3>1, <5>1, <5>2
      <4> QED
        BY <3>7, <4>1 DEF Last
    <3>9. PICK r \in Rev : r = mirror.entries[f]
      BY <3>2, MirrorTypes
    <3>10. Version(f, r)
      BY <3>4, <3>9 DEF Version
    <3>11. mirror.entries[q] <= mirror.cursor \/ mirror.entries[q] <= r
      BY <1>1, <2>6, <3>1, <3>3, <3>4, <3>7, <3>8, <3>10 DEF Windows, Gaps, Gapped
    <3>12. mirror.entries[q] <= asked
      <4>1. r \in Nat /\ r <= asked
        BY <3>4, <3>9, MirrorTypes
      <4> QED
        BY <2>2, <3>7, <3>11, <4>1, MirrorTypes
    <3>13. f <= q
      BY <2>4, <3>3, <3>7, <3>12 DEF Loaded
    <3> QED
      BY <3>1, <3>3, <3>7, <3>13
  <2>7. \A s \in Seqno : Missing(mirror, s)' /\ BotOf(s) \notin strayed' /\ s < floors'[BotOf(s)] => Under(mirror, s)'
    BY <1>1, <2>4, <2>6 DEF Under
  <2> QED
    BY <1>1, <1>2, <2>5, <2>7 DEF Floored, Straight
<1>5. CASE v.t # "hello"
  <2>1. \A b \in Bot : floors'[b] = floors[b] \/ floors'[b] = 0
    BY <1>5, MirrorTypes DEF Received, ApplyBot, ApplyEntry
  <2>2. \A b \in Bot : floors'[b] # 0 => asked' # 0 /\ floors'[b] \in Has(mirror, b)'
    <3>1. ASSUME NEW b \in Bot, floors'[b] # 0
          PROVE  asked' # 0 /\ floors'[b] \in Has(mirror, b)'
      <4>1. asked # 0 /\ floors'[b] = floors[b] /\ floors[b] \in Has(mirror, b)
        BY <1>1, <2>1, <3>1 DEF Windows, Floored
      <4>2. PICK f \in Seqno : f = floors[b] /\ mirror.entries[f] # 0 /\ BotOf(f) = b
        BY <4>1 DEF Has
      <4>3. mirror'.entries[f] # 0
        <5>1. CASE v.t = "bot"
          <6>1. ~(v.deleted /\ v.bot = b)
            BY <3>1, <5>1, MirrorTypes DEF Received, ApplyBot
          <6> QED
            BY <4>2, <5>1, <6>1 DEF Received, BotApplied
        <5>2. CASE v.t = "entry"
          <6>1. EntryApplied(v) /\ v.rev \in Nat /\ v.rev > 0
            BY <5>2 DEF Received
          <6> QED
            BY <4>2, <6>1 DEF EntryApplied, Higher
        <5> QED
          BY <1>5, <5>1, <5>2 DEF Received
      <4> QED
        BY <1>1, <4>1, <4>2, <4>3 DEF Has
    <3> QED
      BY <3>1
  <2>3. ASSUME NEW s \in Seqno, Missing(mirror, s)', BotOf(s) \notin strayed', s < floors'[BotOf(s)]
        PROVE  Under(mirror, s)'
    <3>1. BotOf(s) \in Bot /\ s \in Nat /\ entries[s].rev # 0 /\ Missing(mirror, s)
      BY <1>3, <2>3, RowTypes
    <3>2. floors'[BotOf(s)] = floors[BotOf(s)] /\ s < floors[BotOf(s)]
      BY <2>1, <2>3, <3>1
    <3>3. Under(mirror, s)
      BY <1>1, <2>3, <3>1, <3>2 DEF Windows, Floored
    <3>4. Has(mirror, BotOf(s)) # {} /\ asked # 0
      BY <1>1, <3>1, <3>2 DEF Windows, Floored
    <3>5. ~fresh
      BY <3>4 DEF Received
    <3> QED
      BY <2>3, <3>1, <3>3, <3>4, <3>5, UnderStays
  <2> QED
    BY <1>1, <1>2, <2>2, <2>3 DEF Floored, Straight
<1> QED
  BY <1>4, <1>5

LEMMA ReceiveGaps ==
  ASSUME Known, Windows, NEW v, NEW fresh, Received(v, fresh)
  PROVE  Gaps'
<1>1. /\ \A s : BotOf(s)' = BotOf(s) /\ (BotOf(s) \notin strayed' => Straight(s))
      /\ UNCHANGED <<rev, entries, answer, cache, atSave>> /\ strayed \subseteq strayed' /\ Still
  BY DEF Received, Still, BotOf, Straight
<1>2. VersionsKept
  BY ReceivedVersions
<1>3. Gapped(cache)'
  BY <1>1, <1>2, CacheWindows
<1>4. ASSUME NEW s \in Seqno, NEW q \in Seqno, NEW f \in Seqno, NEW r \in Rev, Missing(mirror, s)', BotOf(s) \notin strayed',
             Last(mirror, q, s)', s < f, BotOf(f) = BotOf(s), Version(f, r)
      PROVE  mirror'.entries[q] <= mirror'.cursor \/ mirror'.entries[q] <= r
  <2>1. entries[s].rev # 0 /\ mirror'.entries[s] = 0
    BY <1>1, <1>4 DEF Missing
  <2>2. q \in Has(mirror, BotOf(s))' /\ q < s /\ \A x \in Has(mirror, BotOf(s))' : x <= q \/ s < x
    BY <1>1, <1>4 DEF Last
  <2>3. Has(mirror, BotOf(s)) \subseteq Has(mirror, BotOf(s))'
    BY <2>1, KnownStays
  <2>4. Missing(mirror, s)
    <3>1. s \notin Has(mirror, BotOf(s))'
      BY <2>1 DEF Has
    <3> QED
      BY <2>1, <2>3, <3>1 DEF Missing, Has
  <2>5. CASE mirror'.entries[q] = mirror.entries[q]
    <3>1. q \in Has(mirror, BotOf(s))
      BY <1>1, <2>2, <2>5 DEF Has
    <3>2. Last(mirror, q, s)
      BY <2>2, <2>3, <3>1 DEF Last
    <3>3. mirror.entries[q] <= mirror.cursor \/ mirror.entries[q] <= r
      BY <1>1, <1>4, <2>4, <3>2 DEF Windows, Gaps, Gapped
    <3> QED
      BY <2>5, <3>3, MirrorTypes DEF Received
  <2>6. CASE mirror'.entries[q] # mirror.entries[q]
    <3>1. BotOf(q) = BotOf(s)
      BY <1>1, <2>2 DEF Has
    <3>2. Filled(v) /\ v.t = "entry"
      BY <2>1, <2>6, <3>1, KeptOrFilled DEF Kept
    <3>3. mirror'.entries[q] = v.rev
      BY <2>6, <3>2 DEF Filled, Higher
    <3> QED
      BY <3>2, <3>3 DEF Received
  <2> QED
    BY <2>5, <2>6
<1>5. Gapped(mirror)'
  BY <1>1, <1>2, <1>4 DEF Gapped, Straight, VersionsKept
<1>6. answer' # NoAnswer => \A f \in Seqno, r \in Rev : answer'.seq < f /\ BotOf(f)' = answer'.bot /\ Version(f, r)' => answer'.rev <= r
  BY <1>1, <1>2 DEF Windows, Gaps, VersionsKept
<1> QED
  BY <1>3, <1>5, <1>6 DEF Gaps

LEMMA ReceiveWindows ==
  ASSUME Known, Windows, Receive
  PROVE  Windows'
<1>1. PICK v, fresh : Received(v, fresh)
  BY ReceivedIs
<1>2. Whole(cache)' /\ Blank(cache)'
  BY <1>1, CacheWindows, ReceivedVersions DEF Received
<1> QED
  BY <1>1, <1>2, ReceiveWhole, ReceiveFloored, ReceiveGaps DEF Windows

\* An entry that comes outside of the events: the answer to a send, or one that is paged in.
Copied(k) ==
  /\ Still /\ UNCHANGED <<stage, feed, live, lagged, asked, floors, cache, atSave, partial>> /\ strayed \subseteq strayed'
  /\ mirror'.cursor = mirror.cursor /\ mirror'.entries[k] # 0
  /\ \A s \in Seqno : s # k => mirror'.entries[s] = mirror.entries[s]
  /\ entries[k].rev # 0 /\ mirror.entries[k] = entries[k].rev => mirror'.entries[k] = entries[k].rev
  /\ BotOf(k) \notin strayed' => ~partial
  /\ BotOf(k) \notin strayed' => \A s \in Seqno : entries[s].rev # 0 /\ BotOf(s) = BotOf(k) /\ Under(mirror, s) =>
       Has(mirror, BotOf(s)) = {} \/ s < k \/ mirror.entries[k] # 0 \/ mirror'.entries[s] = entries[s].rev

LEMMA CopiedWindows ==
  ASSUME Known, Windows, NEW k \in Seqno, Copied(k), VersionsKept
  PROVE  Whole(mirror)' /\ Whole(cache)' /\ News' /\ FromNothing' /\ Blank(mirror)' /\ Blank(cache)' /\ Floored' /\ Tops' /\ Gapped(cache)'
<1>1. /\ \A s : BotOf(s)' = BotOf(s) /\ (BotOf(s) \notin strayed' => Straight(s)) /\ EntryNow(s)' = EntryNow(s) /\ (UnderFeed(s)' <=> UnderFeed(s))
      /\ \A b : FeedHas(b)' <=> FeedHas(b)
      /\ UNCHANGED <<entries, stage, feed, live, lagged, asked, floors, cache, atSave, partial>> /\ Still /\ strayed \subseteq strayed'
      /\ mirror'.cursor = mirror.cursor
  BY DEF Copied, Still, BotOf, Straight, EntryNow, UnderFeed, FeedHas
<1>2. Whole(cache)' /\ Blank(cache)' /\ Topped(cache, atSave.partial)' /\ Gapped(cache)'
  BY <1>1, CacheWindows
<1>3. \A b : /\ b = BotOf(k) => Has(mirror, b)' = Has(mirror, b) \cup {k}
             /\ b # BotOf(k) => Has(mirror, b)' = Has(mirror, b)
  BY <1>1 DEF Copied, Has
<1>4. \A b : Has(mirror, b) \subseteq Has(mirror, b)'
  BY <1>3
<1>5. \A s \in Seqno : entries[s].rev # 0 /\ mirror.entries[s] = entries[s].rev => mirror'.entries[s] = entries[s].rev
  BY DEF Copied
<1>6. ASSUME NEW s \in Seqno, entries[s].rev # 0, BotOf(s) \notin strayed', Under(mirror, s), Has(mirror, BotOf(s)) # {}
      PROVE  Under(mirror, s)' \/ mirror'.entries[s] = entries[s].rev
  <2>1. CASE BotOf(s) # BotOf(k)
    BY <1>1, <1>3, <1>6, <2>1 DEF Under
  <2>2. CASE BotOf(s) = BotOf(k)
    <3>1. s < k \/ mirror.entries[k] # 0 \/ mirror'.entries[s] = entries[s].rev
      BY <1>6, <2>2 DEF Copied
    <3>2. mirror.entries[k] # 0 => k \in Has(mirror, BotOf(s))
      BY <2>2 DEF Has
    <3> QED
      BY <1>1, <1>3, <1>6, <2>2, <3>1, <3>2 DEF Under
  <2> QED
    BY <2>1, <2>2
<1>7. ASSUME NEW s \in Seqno, BotOf(s) \notin strayed', BotOf(s) = BotOf(k)
      PROVE  ~partial /\ mirror.cursor # 0 /\ (asked = 0 => feed = <<>>)
  <2>1. ~partial
    BY <1>7 DEF Copied
  <2> QED
    BY <2>1 DEF Windows, FromNothing
<1>8. Whole(mirror)'
  <2>1. ASSUME NEW s \in Seqno, entries[s].rev # 0, entries[s].rev <= mirror.cursor, BotOf(s) \notin strayed'
        PROVE  mirror'.entries[s] = entries[s].rev \/ Under(mirror, s)'
    <3>1. mirror.entries[s] = entries[s].rev \/ Under(mirror, s)
      BY <1>1, <2>1 DEF Windows, Whole
    <3>2. CASE Under(mirror, s) /\ Has(mirror, BotOf(s)) # {}
      BY <1>6, <2>1, <3>2
    <3>3. CASE Has(mirror, BotOf(s)) = {}
      <4>1. partial
        BY <1>1, <2>1, <3>3, MirrorTopped DEF Topped
      <4>2. BotOf(s) # BotOf(k)
        BY <1>7, <2>1, <4>1
      <4> QED
        BY <1>1, <1>3, <3>3, <4>2 DEF Under
    <3> QED
      BY <1>5, <2>1, <3>1, <3>2, <3>3
  <2> QED
    BY <1>1, <2>1 DEF Whole, Straight
<1>9. News'
  <2>1. ASSUME stage = "open", NEW s \in Seqno, entries[s].rev > mirror.cursor, BotOf(s) \notin strayed'
        PROVE  mirror'.entries[s] = entries[s].rev \/ Ahead(EntryNow(s))' \/ Omitted(s)'
    <3>1. mirror.entries[s] = entries[s].rev \/ Ahead(EntryNow(s)) \/ Omitted(s)
      BY <1>1, <2>1 DEF Windows, News
    <3>2. entries[s].rev # 0
      BY <2>1, MirrorTypes, RowTypes
    <3>3. Ahead(EntryNow(s)) => Ahead(EntryNow(s))'
      BY <1>1 DEF Ahead, AboveFeed
    <3>4. CASE Omitted(s) /\ BotOf(s) # BotOf(k)
      BY <1>1, <1>3, <3>4 DEF Omitted, Under
    <3>5. CASE Omitted(s) /\ BotOf(s) = BotOf(k)
      <4>1. feed = <<>> /\ asked = 0
        BY <1>7, <2>1, <3>5 DEF Omitted
      <4>2. Has(mirror, BotOf(s)) # {}
        BY <3>5, <4>1, ToldNone DEF Omitted, FeedHas
      <4>3. Under(mirror, s)' \/ mirror'.entries[s] = entries[s].rev
        BY <1>6, <2>1, <3>2, <3>5, <4>2 DEF Omitted
      <4>4. Has(mirror, BotOf(s))' # {}
        BY <1>1, <1>4, <4>2
      <4> QED
        BY <1>1, <3>5, <4>3, <4>4 DEF Omitted
    <3> QED
      BY <1>5, <3>1, <3>2, <3>3, <3>4, <3>5
  <2> QED
    BY <1>1, <2>1 DEF News, Straight
<1>10. FromNothing'
  <2>1. ASSUME stage = "open", asked = 0, NEW s \in Seqno, entries[s].rev # 0, entries[s].rev <= mirror.cursor, BotOf(s) \notin strayed'
        PROVE  mirror'.entries[s] = entries[s].rev \/ UnderFeed(s)'
    <3>1. mirror.entries[s] = entries[s].rev \/ UnderFeed(s)
      BY <1>1, <2>1 DEF Windows, FromNothing
    <3> QED
      BY <1>1, <1>5, <2>1, <3>1
  <2> QED
    BY <1>1, <2>1 DEF Windows, FromNothing, Straight
<1>11. Blank(mirror)'
  <2>1. ASSUME mirror.cursor = 0, NEW s \in Seqno, mirror'.entries[s] # 0
        PROVE  BotOf(s) \in strayed'
    <3>1. CASE s = k
      BY <1>7, <2>1, <3>1
    <3>2. CASE s # k
      <4>1. mirror.entries[s] # 0
        BY <2>1, <3>2 DEF Copied
      <4> QED
        BY <1>1, <2>1, <4>1 DEF Windows, Blank
    <3> QED
      BY <3>1, <3>2
  <2> QED
    BY <1>1, <2>1 DEF Blank, Straight
<1>12. Floored'
  <2>1. ASSUME stage # "none", NEW s \in Seqno, Missing(mirror, s)', BotOf(s) \notin strayed', s < floors[BotOf(s)]
        PROVE  Under(mirror, s)'
    <3>1. entries[s].rev # 0 /\ mirror'.entries[s] = 0 /\ BotOf(s) \in Bot /\ s \in Nat
      BY <1>1, <2>1, RowTypes DEF Missing
    <3>2. Missing(mirror, s)
      BY <3>1 DEF Missing, Copied
    <3>3. floors[BotOf(s)] # 0
      BY <2>1, <3>1
    <3>4. Under(mirror, s) /\ Has(mirror, BotOf(s)) # {}
      BY <1>1, <2>1, <3>1, <3>2, <3>3 DEF Windows, Floored
    <3> QED
      BY <1>6, <2>1, <3>1, <3>4
  <2>2. feed' # <<>> /\ Head(feed').t = "hello" => asked' = mirror'.cursor
    BY <1>1 DEF Windows, Floored
  <2>3. stage' # "none" => \A b \in Bot : floors'[b] # 0 => asked' # 0 /\ floors'[b] \in Has(mirror, b)'
    BY <1>1, <1>4 DEF Windows, Floored
  <2> QED
    BY <1>1, <2>1, <2>2, <2>3 DEF Floored, Straight
<1>13. Tops'
  <2>1. ASSUME NEW s \in Seqno, entries[s].rev # 0, entries[s].rev <= mirror.cursor, BotOf(s) \notin strayed', Has(mirror, BotOf(s))' = {}
        PROVE  /\ partial /\ (stage = "open" => FeedHas(BotOf(s)))
               /\ stage # "open" => Newer(mirror, BotOf(s))
    <3>1. Has(mirror, BotOf(s)) = {} /\ Straight(s)
      BY <1>1, <1>4, <2>1
    <3> QED
      BY <2>1, <3>1 DEF Windows, Tops, Topped
  <2>2. \A b : Newer(mirror, b)' <=> Newer(mirror, b)
    BY <1>1 DEF Newer
  <2>3. stage' # "open" => Topped(mirror, partial)'
    BY <1>1, <2>1, <2>2 DEF Topped, Straight
  <2> QED
    BY <1>1, <1>2, <2>1, <2>3 DEF Tops, Straight
<1> QED
  BY <1>2, <1>8, <1>9, <1>10, <1>11, <1>12, <1>13

LEMMA CopiedGapped ==
  ASSUME Known, Windows, NEW k \in Seqno, Copied(k), VersionsKept,
         \A s, f \in Seqno, r \in Rev :
           Missing(mirror, s) /\ BotOf(s) \notin strayed' /\ BotOf(s) = BotOf(k) /\ Last(mirror, k, s)' /\ s < f /\ BotOf(f) = BotOf(s)
             /\ Version(f, r) /\ mirror'.entries[k] # mirror.entries[k] => mirror'.entries[k] <= r
  PROVE  Gapped(mirror)'
<1>1. /\ \A s : BotOf(s)' = BotOf(s) /\ (BotOf(s) \notin strayed' => Straight(s))
      /\ entries' = entries /\ mirror'.cursor = mirror.cursor
  BY DEF Copied, Still, BotOf, Straight
<1>2. ASSUME NEW s \in Seqno, NEW q \in Seqno, NEW f \in Seqno, NEW r \in Rev, Missing(mirror, s)', BotOf(s) \notin strayed',
             Last(mirror, q, s)', s < f, BotOf(f) = BotOf(s), Version(f, r)
      PROVE  mirror'.entries[q] <= mirror'.cursor \/ mirror'.entries[q] <= r
  <2>1. entries[s].rev # 0 /\ mirror'.entries[s] = 0
    BY <1>1, <1>2 DEF Missing
  <2>2. q \in Has(mirror, BotOf(s))' /\ q < s /\ \A x \in Has(mirror, BotOf(s))' : x <= q \/ s < x
    BY <1>2 DEF Last
  <2>3. Missing(mirror, s) /\ s # k
    BY <2>1 DEF Missing, Copied
  <2>4. BotOf(q) = BotOf(s)
    BY <1>1, <2>2 DEF Has
  <2>5. CASE mirror'.entries[q] = mirror.entries[q]
    <3>1. q \in Has(mirror, BotOf(s)) /\ Has(mirror, BotOf(s)) \subseteq Has(mirror, BotOf(s))'
      BY <1>1, <2>2, <2>5 DEF Has, Copied
    <3>2. Last(mirror, q, s)
      BY <2>2, <3>1 DEF Last
    <3>3. mirror.entries[q] <= mirror.cursor \/ mirror.entries[q] <= r
      BY <1>1, <1>2, <2>3, <3>2 DEF Windows, Gaps, Gapped
    <3> QED
      BY <1>1, <2>5, <3>3
  <2>6. CASE mirror'.entries[q] # mirror.entries[q]
    <3>1. q = k
      BY <2>6 DEF Copied
    <3> QED
      BY <1>2, <2>3, <2>4, <2>6, <3>1
  <2> QED
    BY <2>5, <2>6
<1> QED
  BY <1>1, <1>2 DEF Gapped, Straight, VersionsKept

LEMMA AnsweredWindows ==
  ASSUME Known, Windows, Answered
  PROVE  Windows'
<1>1. /\ AnswerApplied /\ answer \in EntryEvent /\ FitEntry(answer) /\ answer' = NoAnswer /\ answer # NoAnswer
      /\ strayed' = (IF Late(answer.seq, answer.bot) THEN strayed \cup {answer.bot} ELSE Strays(answer.bot))
      /\ UNCHANGED <<rev, bots, entries, added, stage, feed, live, lagged, asked, floors, cache, atSave, partial>>
  BY AnsweredKnown, Kinds
<1>2. PICK k \in Seqno : k = answer.seq
  BY <1>1, Kinds
<1>3. answer.rev \in Nat /\ answer.rev > 0 /\ answer.bot = BotOf(k) /\ mirror.entries[k] \in Nat /\ k \in Nat
  BY <1>1, <1>2, Kinds, MirrorTypes DEF FitEntry
<1>4. /\ mirror'.entries[k] = mirror.entries[k] \/ mirror'.entries[k] = answer.rev
      /\ mirror'.entries[k] # 0 /\ mirror'.entries[k] = Higher(mirror.entries[k], answer.rev)
      /\ \A s \in Seqno : s # k => mirror'.entries[s] = mirror.entries[s]
      /\ mirror'.cursor = mirror.cursor
  BY <1>1, <1>2, <1>3 DEF AnswerApplied, Higher
<1>5. entries[k].rev # 0 /\ mirror.entries[k] = entries[k].rev => mirror'.entries[k] = entries[k].rev
  <2>1. entries[k].rev # 0 => answer.rev <= entries[k].rev
    BY <1>1, <1>2, CopyBound
  <2> QED
    BY <1>3, <1>4, <2>1 DEF Higher
<1>6. strayed \subseteq strayed' /\ (BotOf(k) \notin strayed' => ~partial /\ ~Late(k, BotOf(k)))
  BY <1>1, <1>2, <1>3 DEF Strays
<1>7. ASSUME BotOf(k) \notin strayed', NEW s \in Seqno, BotOf(s) = BotOf(k), Under(mirror, s), Has(mirror, BotOf(s)) # {}, mirror.entries[k] = 0
      PROVE  s < k
  <2>1. PICK q \in Has(mirror, BotOf(s)) : s < q /\ q \in Nat /\ s \in Nat
    BY <1>7, RowTypes DEF Under, Has
  <2>2. q # k /\ ~(k < q)
    BY <1>6, <1>7, <2>1 DEF Late, HeldOf, Has
  <2> QED
    BY <1>3, <2>1, <2>2
<1>8. Copied(k)
  BY <1>1, <1>4, <1>5, <1>6, <1>7 DEF Copied, Still
<1>9. VersionsKept
  BY <1>1, <1>2, <1>4 DEF VersionsKept, Version
<1>10. Gapped(mirror)'
  <2>1. ASSUME NEW s \in Seqno, NEW f \in Seqno, NEW r \in Rev, BotOf(s) = BotOf(k), Last(mirror, k, s)', s < f, BotOf(f) = BotOf(s),
               Version(f, r), mirror'.entries[k] # mirror.entries[k]
        PROVE  mirror'.entries[k] <= r
    <3>1. k < s
      BY <2>1 DEF Last
    <3>2. k < f
      BY <1>3, <2>1, <3>1, RowTypes
    <3>3. answer.rev <= r
      BY <1>1, <1>2, <1>3, <2>1, <3>2 DEF Windows, Gaps
    <3> QED
      BY <1>4, <2>1, <3>3
  <2> QED
    BY <1>8, <1>9, <2>1, CopiedGapped
<1>11. Gaps'
  BY <1>1, <1>8, <1>9, <1>10, CopiedWindows DEF Gaps
<1> QED
  BY <1>8, <1>9, <1>11, CopiedWindows DEF Windows

LEMMA LoadOlderWindows ==
  ASSUME Known, Windows, NEW b \in Bot, LoadOlder(b)
  PROVE  Windows'
<1>1. PICK k \in Seqno : Paged(b, k)
  BY LoadOlderKnown DEF Paged
<1>2. /\ strayed' = Strays(b)
      /\ UNCHANGED <<rev, bots, entries, added, stage, feed, live, lagged, asked, floors, answer, cache, atSave, partial>>
  BY LoadOlderKnown
<1>3. /\ entries[k].rev # 0 /\ BotOf(k) = b /\ mirror.entries[k] = 0 /\ k \in Nat
      /\ mirror'.cursor = mirror.cursor /\ mirror'.entries[k] = entries[k].rev
      /\ \A s \in Seqno : s # k => mirror'.entries[s] = mirror.entries[s]
  BY <1>1, RowTypes DEF Paged
<1>4. /\ \A q \in Has(mirror, b) : k < q
      /\ \A s \in Seqno : entries[s].rev # 0 /\ BotOf(s) = b /\ Under(mirror, s) => s <= k
  BY <1>1 DEF Paged, HeldOf, Has, Under
<1>5. strayed \subseteq strayed' /\ (b \notin strayed' => ~partial)
  BY <1>2 DEF Strays
<1>6. \A s \in Seqno : entries[s].rev # 0 /\ BotOf(s) = b /\ Under(mirror, s) => s < k \/ mirror'.entries[s] = entries[s].rev
  BY <1>3, <1>4, RowTypes
<1>7. Copied(k)
  BY <1>2, <1>3, <1>5, <1>6 DEF Copied, Still
<1>8. VersionsKept
  BY <1>2, <1>3 DEF VersionsKept, Version
<1>9. Gapped(mirror)'
  <2>1. ASSUME NEW s \in Seqno, Missing(mirror, s), BotOf(s) = BotOf(k), Last(mirror, k, s)'
        PROVE  FALSE
    <3>1. BotOf(s)' = BotOf(s) /\ s \in Nat
      BY <1>2, RowTypes DEF BotOf
    <3>2. k < s /\ \A x \in Has(mirror, b)' : x <= k \/ s < x
      BY <1>3, <2>1, <3>1 DEF Last
    <3>3. ASSUME NEW x \in Has(mirror, b)
          PROVE  s < x
      <4>1. x \in Has(mirror, b)' /\ x \in Nat /\ k < x
        BY <1>2, <1>3, <1>4, RowTypes DEF Has, BotOf
      <4> QED
        BY <1>3, <3>2, <4>1
    <3>4. Under(mirror, s)
      BY <1>3, <2>1, <3>3 DEF Under
    <3>5. s <= k
      BY <1>3, <1>4, <2>1, <3>4 DEF Missing
    <3> QED
      BY <1>3, <3>1, <3>2, <3>5
  <2> QED
    BY <1>7, <1>8, <2>1, CopiedGapped
<1>10. Gaps'
  <2>1. answer' # NoAnswer => \A f \in Seqno, r \in Rev : answer'.seq < f /\ BotOf(f)' = answer'.bot /\ Version(f, r)' => answer'.rev <= r
    BY <1>2, <1>8 DEF Windows, Gaps, VersionsKept, BotOf
  <2> QED
    BY <1>7, <1>8, <1>9, <2>1, CopiedWindows DEF Gaps
<1> QED
  BY <1>7, <1>8, <1>10, CopiedWindows DEF Windows

\* The newest copies of each chat are saved: a saved mirror is as whole as the one it was made from.
LEMMA SaveWindows ==
  ASSUME Known, Windows, Save
  PROVE  Windows'
<1>1. /\ Stored /\ atSave' = [racing |-> racing, partial |-> partial]
      /\ UNCHANGED <<rev, bots, entries, added, stage, feed, live, lagged, mirror, asked, floors, answer, strayed, partial>>
  BY SaveKnown
<1>2. /\ cache'.cursor = mirror.cursor
      /\ \A s \in Seqno : cache'.entries[s] # 0 => cache'.entries[s] = mirror.entries[s]
      /\ \A s, q \in Seqno : cache'.entries[s] # 0 /\ s < q /\ mirror.entries[q] # 0 /\ BotOf(q) = BotOf(s) =>
           cache'.entries[q] = mirror.entries[q]
      /\ \A b \in Bot : Has(mirror, b) # {} => \E s \in Has(mirror, b) : cache'.entries[s] # 0
  BY <1>1 DEF Stored, HeldOf, Has
<1>3. /\ \A s : BotOf(s)' = BotOf(s) /\ (Straight(s)' <=> Straight(s))
      /\ \A b : Has(cache, b)' \subseteq Has(mirror, b)
      /\ \A b \in Bot : Has(mirror, b) # {} => Has(cache, b)' # {}
      /\ Still
  BY <1>1, <1>2 DEF BotOf, Straight, Has, Still
<1>4. VersionsKept
  BY <1>1, <1>2 DEF VersionsKept, Version
<1>5. Whole(mirror)' /\ Blank(mirror)' /\ Gapped(mirror)'
  BY <1>1, <1>3, <1>4, MirrorWindows
<1>6. Whole(cache)'
  <2>1. ASSUME NEW s \in Seqno, entries[s].rev # 0, entries[s].rev <= mirror.cursor, Straight(s)
        PROVE  cache'.entries[s] = entries[s].rev \/ Under(cache, s)'
    <3>1. CASE Under(mirror, s)
      BY <1>3, <3>1 DEF Under
    <3>2. CASE mirror.entries[s] = entries[s].rev
      <4>1. CASE cache'.entries[s] # 0
        BY <1>2, <3>2, <4>1
      <4>2. CASE cache'.entries[s] = 0
        <5>1. ASSUME NEW q \in Has(cache, BotOf(s))'
              PROVE  s < q
          <6>1. q \in Seqno /\ cache'.entries[q] # 0 /\ BotOf(q) = BotOf(s) /\ q \in Nat /\ s \in Nat
            BY <1>3, RowTypes DEF Has
          <6>2. q # s /\ ~(q < s)
            BY <1>2, <2>1, <3>2, <4>2, <6>1
          <6> QED
            BY <6>1, <6>2
        <5> QED
          BY <5>1 DEF Under
      <4> QED
        BY <4>1, <4>2
    <3> QED
      BY <2>1, <3>1, <3>2 DEF Windows, Whole
  <2> QED
    BY <1>1, <1>2, <1>3, <2>1 DEF Whole
<1>7. Blank(cache)'
  BY <1>1, <1>2, <1>3 DEF Windows, Blank
<1>8. Topped(cache, atSave.partial)'
  <2>1. ASSUME NEW s \in Seqno, entries[s].rev # 0, entries[s].rev <= mirror.cursor, Straight(s)
        PROVE  Has(cache, BotOf(s))' # {} \/ (partial /\ Newer(mirror, BotOf(s)))
    <3>1. Has(mirror, BotOf(s)) # {} \/ (partial /\ Newer(mirror, BotOf(s)))
      BY <2>1, MirrorTopped DEF Topped
    <3>2. Has(mirror, BotOf(s)) # {} => Has(cache, BotOf(s))' # {}
      BY <1>3, RowTypes DEF Has
    <3> QED
      BY <3>1, <3>2
  <2>2. \A b : Newer(mirror, b) => Newer(cache, b)'
    BY <1>1, <1>2, <1>3 DEF Newer
  <2>3. atSave'.partial = partial
    BY <1>1
  <2> QED
    BY <1>1, <1>2, <1>3, <2>1, <2>2, <2>3 DEF Topped
<1>9. Gapped(cache)'
  <2>1. ASSUME NEW s \in Seqno, NEW q \in Seqno, NEW f \in Seqno, NEW r \in Rev, Missing(cache, s)', Straight(s),
               Last(cache, q, s)', s < f, BotOf(f) = BotOf(s), Version(f, r)
        PROVE  cache'.entries[q] <= cache'.cursor \/ cache'.entries[q] <= r
    <3>1. entries[s].rev # 0 /\ cache'.entries[s] = 0 /\ s \in Nat /\ q \in Nat
      BY <1>1, <2>1, RowTypes DEF Missing
    <3>2. q \in Has(cache, BotOf(s))' /\ q < s /\ \A x \in Has(cache, BotOf(s))' : x <= q \/ s < x
      BY <2>1 DEF Last
    <3>3. cache'.entries[q] # 0 /\ cache'.entries[q] = mirror.entries[q] /\ BotOf(q) = BotOf(s)
      BY <1>2, <1>3, <3>2 DEF Has
    <3>4. Missing(mirror, s)
      BY <1>2, <3>1, <3>2, <3>3 DEF Missing
    <3>5. ASSUME NEW x \in Has(mirror, BotOf(s))
          PROVE  x <= q \/ s < x
      <4>1. x \in Seqno /\ x \in Nat /\ mirror.entries[x] # 0 /\ BotOf(x) = BotOf(s)
        BY RowTypes DEF Has
      <4>2. CASE q < x
        <5>1. cache'.entries[x] # 0
          BY <1>2, <3>3, <4>1, <4>2
        <5>2. x \in Has(cache, BotOf(s))'
          BY <1>3, <4>1, <5>1 DEF Has
        <5> QED
          BY <3>2, <5>2
      <4> QED
        BY <3>1, <4>1, <4>2
    <3>6. Last(mirror, q, s)
      BY <1>3, <3>2, <3>5 DEF Last
    <3>7. mirror.entries[q] <= mirror.cursor \/ mirror.entries[q] <= r
      BY <2>1, <3>4, <3>6 DEF Windows, Gaps, Gapped
    <3> QED
      BY <1>2, <3>3, <3>7
  <2> QED
    BY <1>3, <1>4, <2>1 DEF Gapped, VersionsKept
<1>10. News' /\ FromNothing' /\ Floored'
  <2>1. News'
    BY <1>1 DEF Windows, News, Omitted, Under, UnderFeed, FeedHas, Has, Straight, BotOf, EntryNow, Ahead, AboveFeed
  <2>2. FromNothing'
    BY <1>1 DEF Windows, FromNothing, UnderFeed, Straight, BotOf
  <2>3. Floored'
    BY <1>1 DEF Windows, Floored, Missing, Under, Has, Straight, BotOf
  <2> QED
    BY <2>1, <2>2, <2>3
<1>11. Tops'
  BY <1>1, <1>8 DEF Windows, Tops, Topped, Newer, Has, FeedHas, Straight, BotOf
<1>12. Gaps'
  BY <1>1, <1>4, <1>5, <1>9 DEF Windows, Gaps, VersionsKept, BotOf
<1> QED
  BY <1>5, <1>6, <1>7, <1>10, <1>11, <1>12 DEF Windows

LEMMA InitWindows == Init => Windows
<1> SUFFICES ASSUME Init
             PROVE  Windows
  OBVIOUS
<1>1. /\ stage = "none" /\ feed = <<>> /\ answer = NoAnswer /\ mirror = Empty /\ cache = Empty
      /\ partial = TRUE /\ atSave.partial = TRUE
  BY DEF Init
<1>2. /\ mirror.cursor = 0 /\ cache.cursor = 0
      /\ \A s \in Seqno : mirror.entries[s] = 0 /\ cache.entries[s] = 0
  BY <1>1 DEF Empty
<1>3. \A b : Has(mirror, b) = {} /\ Has(cache, b) = {}
  BY <1>2 DEF Has
<1>4. \A s \in Seqno : entries[s].rev \in Nat
  BY InitKnown, RowTypes
<1>5. \A s \in Seqno : ~(entries[s].rev # 0 /\ entries[s].rev <= 0)
  BY <1>4
<1>6. Whole(mirror) /\ Whole(cache) /\ Blank(mirror) /\ Blank(cache)
  BY <1>2, <1>5 DEF Whole, Blank
<1>7. News /\ FromNothing /\ Floored
  BY <1>1 DEF News, FromNothing, Floored
<1>8. Tops
  BY <1>1, <1>2, <1>5 DEF Tops, Topped
<1>9. Gaps
  BY <1>1, <1>3 DEF Gaps, Gapped, Last
<1> QED
  BY <1>6, <1>7, <1>8, <1>9 DEF Windows

LEMMA IdleWindows ==
  ASSUME Known, Windows, UNCHANGED vars
  PROVE  Windows'
<1>1. /\ UNCHANGED <<rev, bots, entries, added, stage, feed, live, lagged, mirror, asked, floors, answer, cache, atSave, strayed, partial>>
      /\ Still
  BY DEF vars, host, stream, client, bounds, history, Still
<1>2. VersionsKept
  BY <1>1 DEF VersionsKept, Version
<1>3. Whole(mirror)' /\ Blank(mirror)' /\ Gapped(mirror)'
  BY <1>1, <1>2, MirrorWindows
<1>4. Whole(cache)' /\ Blank(cache)' /\ Gapped(cache)'
  BY <1>1, <1>2, CacheWindows
<1>5. News'
  BY <1>1 DEF Windows, News, Omitted, Under, UnderFeed, FeedHas, Has, Straight, BotOf, EntryNow, Ahead, AboveFeed
<1>6. FromNothing' /\ Floored'
  BY <1>1 DEF Windows, FromNothing, Floored, Missing, Under, UnderFeed, Has, Straight, BotOf
<1>7. Tops'
  BY <1>1 DEF Windows, Tops, Topped, Newer, Has, FeedHas, Straight, BotOf
<1>8. Gaps'
  BY <1>1, <1>2, <1>3, <1>4 DEF Windows, Gaps, VersionsKept, BotOf
<1> QED
  BY <1>3, <1>4, <1>5, <1>6, <1>7, <1>8 DEF Windows

LEMMA NextWindows ==
  ASSUME Known, Windows, [Next]_vars
  PROVE  Windows'
<1>1. CASE HostStep
  BY <1>1, HostMakes, HostWindows
<1>2. CASE Follows
  BY <1>2, ConnectWindows, ReadBotsWindows, ReadEntriesWindows, ReceiveWindows, EndingWindows DEF Follows
<1>3. CASE Connect(TRUE)
  BY <1>3, ConnectWindows
<1>4. CASE Answered \/ Save
  BY <1>4, AnsweredWindows, SaveWindows
<1>5. CASE Drop \/ Relaunch \/ HostDies
  BY <1>5, EndingWindows
<1>6. ASSUME NEW b \in Bot, LoadOlder(b)
      PROVE  Windows'
  BY <1>6, LoadOlderWindows
<1>7. CASE UNCHANGED vars
  BY <1>7, IdleWindows
<1> QED
  BY <1>1, <1>2, <1>3, <1>4, <1>5, <1>6, <1>7 DEF Next

\* A chat has no holes below the cursor: an entry that the cursor has passed is in the mirror as it is, or older
\* than all that the mirror holds of its chat, so that paging back from the oldest one brings it; only the chats
\* that took an entry without a floor, or before a catch-up from nothing was complete, are excepted.
THEOREM WindowsHold == Spec => []WindowsWhole
<1>1. Known /\ Windows => WindowsWhole
  <2>1. SUFFICES ASSUME Known, Windows, NEW s \in Seqno, entries[s].rev \in 1..mirror.cursor, BotOf(s) \notin strayed
                 PROVE  mirror.entries[s] = entries[s].rev \/ \A q \in HeldOf(BotOf(s)) : s < q
    BY DEF WindowsWhole, EntriesKnown, EntryKnown
  <2>2. entries[s].rev # 0 /\ entries[s].rev <= mirror.cursor
    BY <2>1, MirrorTypes
  <2> QED
    BY <2>1, <2>2 DEF Windows, Whole, Straight, Under, Has, HeldOf
<1>2. Init => Known /\ Windows
  BY InitKnown, InitWindows
<1>3. Known /\ Windows /\ [Next]_vars => (Known /\ Windows)'
  BY NextKnown, NextWindows
<1> QED
  BY <1>1, <1>2, <1>3, PTL DEF Spec

-----------------------------------------------------------------------------
(* A client that has taken everything. *)

\* Nothing is on its way on a stream that is caught up.
LEMMA NothingAhead ==
  ASSUME feed = <<>>, live = <<>>, ~lagged, NEW x
  PROVE  ~Ahead(x)
BY ToldNone DEF Ahead

\* A client that has taken all the events of its stream (api/events.rs, events_stream) is in step with the host.
THEOREM StepKept == Spec => []InStep
<1>1. Known /\ Heard /\ Windows => InStep
  <2>1. SUFFICES ASSUME Known, Heard, Windows, stage = "open", feed = <<>>, live = <<>>, ~lagged
                 PROVE  BotsKnown(rev, saving \cup skipped) /\ EntriesKnown(rev, strayed)
    BY DEF InStep
  <2>2. ASSUME NEW b \in Bot, b \notin saving \cup skipped, bots[b].rev \in 1..rev
        PROVE  BotKnown(b)
    <3>1. CASE b \in racing
      <4>1. Racer(b) /\ BotNow(b) \notin Told(live)
        BY <2>1, <2>2, <3>1, ToldNone DEF Heard
      <4> QED
        BY <4>1 DEF Racer, KnownIn, BotKnown
    <3>2. CASE b \notin racing /\ bots[b].rev > mirror.cursor
      BY <2>1, <2>2, <3>2, NothingAhead DEF Heard
    <3>3. CASE b \notin racing /\ ~(bots[b].rev > mirror.cursor)
      <4>1. bots[b].rev \in 1..mirror.cursor
        BY <2>1, <2>2, <3>3, MirrorTypes, RowTypes
      <4> QED
        BY <2>1, <2>2, <3>3, <4>1 DEF Heard, KnownIn, BotKnown
    <3> QED
      BY <3>1, <3>2, <3>3
  <2>3. ASSUME NEW s \in Seqno, entries[s].rev \in 1..rev, BotOf(s) \notin strayed
        PROVE  mirror.entries[s] = entries[s].rev \/ Under(mirror, s)
    <3>1. CASE entries[s].rev > mirror.cursor
      BY <2>1, <2>3, <3>1, NothingAhead DEF Windows, News, Straight, Omitted
    <3>2. CASE ~(entries[s].rev > mirror.cursor)
      <4>1. entries[s].rev # 0 /\ entries[s].rev <= mirror.cursor
        BY <2>1, <2>3, <3>2, MirrorTypes, RowTypes
      <4> QED
        BY <2>1, <2>3, <4>1 DEF Windows, Whole, Straight
    <3> QED
      BY <3>1, <3>2
  <2> QED
    BY <2>2, <2>3 DEF BotsKnown, EntriesKnown, EntryKnown, Under, Has, HeldOf
<1>2. Init => Known /\ Heard /\ Windows
  BY InitKnown, InitHeard, InitWindows
<1>3. Known /\ Heard /\ Windows /\ [Next]_vars => (Known /\ Heard /\ Windows)'
  BY NextKnown, NextHeard, NextWindows
<1> QED
  BY <1>1, <1>2, <1>3, PTL DEF Spec
=============================================================================
