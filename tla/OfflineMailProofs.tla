-------------------------- MODULE OfflineMailProofs --------------------------
(***************************************************************************)
(* Proofs about OfflineMail, for any messages, limits and bounds.          *)
(*                                                                         *)
(* What the relay accepted is never lost: a sequence number names one      *)
(* message for good (Agrees), in the relay's rows, on the wires and in the *)
(* host's hands, so that the row an acknowledgement deletes is of a        *)
(* message that is posted (Covers).                                        *)
(*                                                                         *)
(* With "send" calls one at a time, nothing is posted twice, and mail is   *)
(* posted in order: a connection has one item under way (Turns), and the   *)
(* rows before it, and before what is posted, go out no more (OldBelow).   *)
(*                                                                         *)
(* With relay events one at a time, mail under way is at a host that is    *)
(* online, and nothing waits there forgotten: what is under way is carried *)
(* by its item, by the host or by its acknowledgement, and what waits has  *)
(* something going on before it (Carried).                                 *)
(*                                                                         *)
(* Bounded: the sends of the phone account for every number.               *)
(***************************************************************************)
EXTENDS OfflineMail, WellFoundedInduction, FiniteSetTheorems, TLAPS

-----------------------------------------------------------------------------
(* Sequences. *)

Elems(s) == {s[i] : i \in 1..Len(s)}

LEMMA ElemsOfAppend ==
  ASSUME NEW S, NEW s \in Seq(S), NEW x \in S
  PROVE  Append(s, x) \in Seq(S) /\ Elems(Append(s, x)) = Elems(s) \cup {x}
<1>1. /\ Append(s, x) \in Seq(S) /\ Len(Append(s, x)) = Len(s) + 1 /\ Len(s) \in Nat
      /\ \A i \in 1..Len(s) : Append(s, x)[i] = s[i]
      /\ Append(s, x)[Len(s) + 1] = x
  OBVIOUS
<1>2. ASSUME NEW y \in Elems(Append(s, x)) PROVE y \in Elems(s) \cup {x}
  <2>1. PICK i \in 1..(Len(s) + 1) : y = Append(s, x)[i]
    BY <1>1 DEF Elems
  <2>2. i \in 1..Len(s) \/ i = Len(s) + 1
    BY <1>1
  <2> QED BY <1>1, <2>1, <2>2 DEF Elems
<1>3. ASSUME NEW y \in Elems(s) PROVE y \in Elems(Append(s, x))
  <2>1. PICK i \in 1..Len(s) : y = s[i]
    BY DEF Elems
  <2>2. i \in 1..(Len(s) + 1) /\ y = Append(s, x)[i]
    BY <1>1, <2>1
  <2> QED BY <1>1, <2>2 DEF Elems
<1>4. x \in Elems(Append(s, x))
  BY <1>1 DEF Elems
<1> QED BY <1>1, <1>2, <1>3, <1>4

LEMMA ElemsOfTail ==
  ASSUME NEW S, NEW s \in Seq(S), s # <<>>
  PROVE  /\ Tail(s) \in Seq(S) /\ Head(s) \in S
         /\ Head(s) \in Elems(s) /\ Elems(Tail(s)) \subseteq Elems(s)
<1>1. /\ Tail(s) \in Seq(S) /\ Len(s) \in Nat /\ Len(s) > 0 /\ Len(Tail(s)) = Len(s) - 1
      /\ \A i \in 1..Len(Tail(s)) : Tail(s)[i] = s[i + 1]
      /\ Head(s) = s[1] /\ Head(s) \in S
  OBVIOUS
<1>2. ASSUME NEW y \in Elems(Tail(s)) PROVE y \in Elems(s)
  <2>1. PICK i \in 1..Len(Tail(s)) : y = Tail(s)[i]
    BY DEF Elems
  <2>2. i + 1 \in 1..Len(s) /\ y = s[i + 1]
    BY <1>1, <2>1
  <2> QED BY <2>2 DEF Elems
<1>3. Head(s) \in Elems(s)
  BY <1>1 DEF Elems
<1> QED BY <1>1, <1>2, <1>3

LEMMA ElemsOfPrefix ==
  ASSUME NEW S, NEW s \in Seq(S), NEW n \in 0..Len(s)
  PROVE  SubSeq(s, 1, n) \in Seq(S) /\ Elems(SubSeq(s, 1, n)) \subseteq Elems(s)
<1>1. /\ Len(s) \in Nat /\ n \in Nat /\ n <= Len(s)
      /\ SubSeq(s, 1, n) \in Seq(S) /\ Len(SubSeq(s, 1, n)) = n
      /\ \A i \in 1..n : SubSeq(s, 1, n)[i] = s[i]
  OBVIOUS
<1>2. ASSUME NEW y \in Elems(SubSeq(s, 1, n)) PROVE y \in Elems(s)
  <2>1. PICK i \in 1..n : y = SubSeq(s, 1, n)[i]
    BY <1>1 DEF Elems
  <2>2. i \in 1..Len(s) /\ y = s[i]
    BY <1>1, <2>1
  <2> QED BY <2>2 DEF Elems
<1> QED BY <1>1, <1>2

LEMMA ElemsOfEmpty == Elems(<<>>) = {}
  BY DEF Elems

-----------------------------------------------------------------------------
(* Types, as far as the arguments need them: numbers are not bounded here. *)

MailRow == [seq : Nat, msg : Message, state : {"queued", "delivering"}, old : BOOLEAN]
MailItem == [seq : Nat, msg : Message]
Word == [t : {"ready"}] \cup [t : {"ack"}, seq : Nat, ok : BOOLEAN]

Typed ==
  /\ up \in Seq(Request)
  /\ box \subseteq MailRow /\ lastSeq \in Nat
  /\ sock \in [Conn -> Socket]
  /\ items \in [Conn -> Seq(MailItem)]
  /\ answers \in [Conn -> Seq(Word)]
  /\ conn \in 0..MaxConns /\ (opened = TRUE => conn # 0)
  /\ held \in MailItem \cup {NoItem}
  /\ looked \subseteq MailItem
  /\ log \in Seq(MailItem)

\* What may happen to the relay's rows: they change state, go, or one with a new number is added.
Same(q, r) == q.seq = r.seq /\ q.msg = r.msg
KeptRows(rows, new) == \A q \in new : \E r \in rows : Same(q, r) /\ (r.old = TRUE => q.old = TRUE)
StayedRows(rows, new) == \A r \in rows : \E q \in new : Same(q, r)
BoxStep ==
  /\ box' \subseteq MailRow /\ lastSeq' \in Nat
  /\ \/ lastSeq' = lastSeq /\ KeptRows(box, box')
     \/ lastSeq' = lastSeq + 1 /\ \E row : row.seq = lastSeq + 1 /\ \A q \in box' : q \in box \/ q = row

LEMMA RequeuedKept ==
  ASSUME box \subseteq MailRow
  PROVE  Requeued(box) \subseteq MailRow /\ KeptRows(box, Requeued(box)) /\ StayedRows(box, Requeued(box))
<1>1. \A r \in MailRow : /\ [r EXCEPT !.state = "queued"] \in MailRow
                          /\ [r EXCEPT !.state = "queued"].seq = r.seq
                          /\ [r EXCEPT !.state = "queued"].msg = r.msg
                          /\ [r EXCEPT !.state = "queued"].old = r.old
  BY DEF MailRow
<1> QED BY <1>1, Zenon DEF Requeued, KeptRows, StayedRows, Same

LEMMA LeastNumber ==
  ASSUME NEW T, T \subseteq Nat, T # {}
  PROVE  \E n \in T : \A y \in T : n <= y
<1>1. PICK n \in T : \A y \in T : ~(<<y, n>> \in OpToRel(<, Nat))
  BY NatLessThanWellFounded, WFMin
<1>2. \A y \in T : ~(y < n)
  BY <1>1 DEF OpToRel
<1> QED BY <1>2

LEMMA NextRowIs ==
  ASSUME NEW rows \in SUBSET MailRow, Waits(rows) # {}
  PROVE  NextRow(rows) \in rows /\ NextRow(rows) \in Waits(rows) /\ \A q \in Waits(rows) : NextRow(rows).seq <= q.seq
<1> DEFINE T == {r.seq : r \in Waits(rows)}
<1>1. T \subseteq Nat /\ T # {}
  BY DEF Waits, MailRow
<1>2. PICK n \in T : \A y \in T : n <= y
  BY <1>1, LeastNumber
<1>3. PICK r \in Waits(rows) : r.seq = n
  BY <1>2
<1>4. \A q \in Waits(rows) : r.seq <= q.seq
  BY <1>2, <1>3
<1>5. NextRow(rows) \in Waits(rows) /\ \A q \in Waits(rows) : NextRow(rows).seq <= q.seq
  BY <1>4 DEF NextRow
<1> QED BY <1>5 DEF Waits

\* What goes out is of a row that waits, and the rows before it have had their 24 hours.
IsNext(e, rows, new) == \E r \in rows : Same(e, r) /\ r.old = FALSE /\ \A q \in new : q.seq < e.seq => q.old = TRUE

\* An acknowledgement, or the presence written, sends one row at most and keeps the others.
LEMMA DeliverKeeps ==
  ASSUME NEW c \in Conn, NEW rows \in SUBSET MailRow, Deliver(c, rows), items \in [Conn -> Seq(MailItem)]
  PROVE  /\ box' \subseteq MailRow /\ KeptRows(rows, box') /\ StayedRows(rows, box')
         /\ items' \in [Conn -> Seq(MailItem)]
         /\ \A d \in Conn : \A e \in Elems(items'[d]) : e \in Elems(items[d]) \/ IsNext(e, rows, box')
         /\ \A d \in Conn : Len(items'[d]) <= IF d = c THEN Len(items[c]) + 1 ELSE Len(items[d])
<1>t. \A d \in Conn : Len(items[d]) \in Nat
  <2>1. \A d \in Conn : items[d] \in Seq(MailItem)
    OBVIOUS
  <2> QED BY <2>1
<1>1. CASE ~(Idle(rows) /\ Waits(rows) # {})
  BY <1>1, <1>t DEF Deliver, KeptRows, StayedRows, Same
<1>2. CASE Idle(rows) /\ Waits(rows) # {}
  <2> DEFINE row == NextRow(rows)
             sent == [row EXCEPT !.state = "delivering"]
             item == [seq |-> row.seq, msg |-> row.msg]
  <2>1. row \in rows
    BY <1>2, NextRowIs
  <2>2. row \in MailRow /\ sent \in MailRow /\ Same(sent, row) /\ sent.old = row.old /\ item \in MailItem /\ Same(item, row)
    BY <2>1 DEF MailRow, MailItem, Same
  <2>3. box' = (rows \ {row}) \cup {sent}
    BY <1>2 DEF Deliver
  <2>4. items' = [items EXCEPT ![c] = Append(@, item)] \/ items' = items
    BY <1>2 DEF Deliver
  <2>5. box' \subseteq MailRow /\ KeptRows(rows, box') /\ StayedRows(rows, box')
    <3> HIDE DEF row, sent
    <3> QED BY <2>1, <2>2, <2>3 DEF KeptRows, StayedRows, Same
  <2>6. ASSUME items' = [items EXCEPT ![c] = Append(@, item)]
        PROVE  /\ items' \in [Conn -> Seq(MailItem)]
               /\ \A d \in Conn : \A e \in Elems(items'[d]) : e \in Elems(items[d]) \/ e = item
               /\ \A d \in Conn : Len(items'[d]) <= IF d = c THEN Len(items[c]) + 1 ELSE Len(items[d])
    <3>1. /\ Append(items[c], item) \in Seq(MailItem) /\ Len(Append(items[c], item)) = Len(items[c]) + 1
          /\ Elems(Append(items[c], item)) = Elems(items[c]) \cup {item}
      BY <2>2, ElemsOfAppend
    <3> HIDE DEF item
    <3> QED BY <2>6, <3>1, <1>t
  <2>7. IsNext(item, rows, box')
    <3>1. row \in Waits(rows) /\ \A q \in Waits(rows) : row.seq <= q.seq
      BY <1>2, NextRowIs
    <3>2. row.old = FALSE
      BY <3>1, <2>2 DEF Waits, MailRow
    <3>3. ASSUME NEW q \in rows, q.seq < row.seq PROVE q.old = TRUE
      <4>1. q \in MailRow /\ q.state # "delivering"
        BY <1>2 DEF Idle, UnderWay
      <4>2. q \notin Waits(rows)
        BY <3>1, <3>3, <4>1, <2>2 DEF MailRow
      <4> QED BY <4>1, <4>2 DEF Waits, MailRow
    <3> HIDE DEF row, sent, item
    <3> QED BY <2>1, <2>2, <2>3, <3>2, <3>3 DEF IsNext, Same, MailRow
  <2> QED
    <3> HIDE DEF row, sent, item
    <3> QED BY <1>t, <2>1, <2>2, <2>4, <2>5, <2>6, <2>7
<1> QED BY <1>1, <1>2

-----------------------------------------------------------------------------
(* What a step makes of the relay's rows. *)

\* What the number of an item, or of a row, stands for.
Agrees(e, rows, last) == e.seq <= last /\ \A r \in rows : r.seq = e.seq => r.msg = e.msg
\* What an acknowledgement that says "ok" stands for.
Covers(a, rows, last, posted) ==
  a.t = "ack" => a.seq <= last /\ (a.ok = TRUE => \A r \in rows : r.seq = a.seq => r.msg \in posted)

NumbersAgree == \A r \in box : Agrees(r, box, lastSeq)
AcksCover == \A c \in Conn : \A a \in Elems(answers[c]) : Covers(a, box, lastSeq, Posted)

RowsLeave == \A r \in box : (\E q \in box' : q.msg = r.msg) \/ r.msg \in ended' \/ r.msg \in Posted
AcceptedSince ==
  \A m \in accepted' : (\E q \in box' : q.msg = m) \/ (m \in accepted /\ (m \in ended => m \in ended'))

LEMMA KeptIsBoxStep ==
  ASSUME Typed, box' \subseteq MailRow, lastSeq' = lastSeq, KeptRows(box, box')
  PROVE  BoxStep
  BY DEF Typed, BoxStep

LEMMA StayedLeavesNone ==
  ASSUME StayedRows(box, box'), accepted' = accepted, ended \subseteq ended'
  PROVE  RowsLeave /\ AcceptedSince
  BY DEF StayedRows, Same, RowsLeave, AcceptedSince

Quiet == box' = box /\ lastSeq' = lastSeq /\ accepted' = accepted /\ ended' = ended

LEMMA QuietMoves ==
  ASSUME Typed, Quiet
  PROVE  BoxStep /\ RowsLeave /\ AcceptedSince
  BY DEF Typed, Quiet, BoxStep, KeptRows, Same, RowsLeave, AcceptedSince

LEMMA RelayMoves ==
  ASSUME Typed, NumbersAgree, AcksCover, Next
  PROVE  BoxStep /\ RowsLeave /\ AcceptedSince
<1>t. box \subseteq MailRow /\ lastSeq \in Nat /\ items \in [Conn -> Seq(MailItem)]
  BY DEF Typed
<1>r. Requeued(box) \subseteq MailRow /\ KeptRows(box, Requeued(box)) /\ StayedRows(box, Requeued(box))
  BY <1>t, RequeuedKept
<1>b. KeptRows(box, box) /\ StayedRows(box, box)
  BY DEF KeptRows, StayedRows, Same
<1>1. ASSUME NEW c \in Conn, Replace(c) \/ RetireSilent(c) \/ Closed(c) PROVE BoxStep /\ RowsLeave /\ AcceptedSince
  <2>1. (box' = Requeued(box) \/ box' = box) /\ lastSeq' = lastSeq /\ accepted' = accepted /\ ended' = ended
    BY <1>1 DEF Replace, RetireSilent, Closed, relayVars, history
  <2>2. box' \subseteq MailRow /\ KeptRows(box, box') /\ StayedRows(box, box')
    BY <2>1, <1>t, <1>r, <1>b
  <2> QED BY <2>1, <2>2, KeptIsBoxStep, StayedLeavesNone
<1>2. ASSUME NEW c \in Conn, Announced(c) PROVE BoxStep /\ RowsLeave /\ AcceptedSince
  <2>1. (Deliver(c, box) \/ box' = box) /\ lastSeq' = lastSeq /\ accepted' = accepted /\ ended' = ended
    BY <1>2 DEF Announced, history
  <2>2. box' \subseteq MailRow /\ KeptRows(box, box') /\ StayedRows(box, box')
    BY <2>1, <1>t, <1>b, DeliverKeeps
  <2> QED BY <2>1, <2>2, KeptIsBoxStep, StayedLeavesNone
<1>3. ASSUME NEW c \in Conn, OnAck(c) PROVE BoxStep /\ RowsLeave /\ AcceptedSince
  <2> DEFINE ack == Head(answers[c])
             done == {r \in UnderWay(box) : r.seq = ack.seq}
             rest == box \ done
             m == (CHOOSE r \in done : TRUE).msg
  <2>1. ack \in Elems(answers[c]) /\ ack \in Word /\ ack.t = "ack"
    <3>1. answers[c] \in Seq(Word) /\ answers[c] # <<>> /\ ack.t = "ack"
      BY <1>3 DEF OnAck, Typed
    <3> QED BY <3>1, ElemsOfTail
  <2>2. /\ done = {} => ended' = ended
        /\ done # {} => ended' = IF ack.ok THEN ended ELSE ended \cup {m}
        /\ Deliver(c, rest) \/ box' = rest
        /\ lastSeq' = lastSeq /\ accepted' = accepted
    BY <1>3 DEF OnAck
  <2>3. rest \in SUBSET MailRow /\ KeptRows(box, rest) /\ StayedRows(rest, rest)
    BY <1>t DEF KeptRows, StayedRows, Same
  <2>4. box' \subseteq MailRow /\ KeptRows(rest, box') /\ StayedRows(rest, box')
    <3> HIDE DEF rest
    <3>1. ASSUME Deliver(c, rest) PROVE box' \subseteq MailRow /\ KeptRows(rest, box') /\ StayedRows(rest, box')
      BY <3>1, <2>3, <1>t, DeliverKeeps
    <3>2. KeptRows(rest, rest)
      BY DEF KeptRows, Same
    <3> QED BY <2>2, <2>3, <3>1, <3>2
  <2>5. KeptRows(box, box')
    <3> HIDE DEF rest
    <3> QED BY <2>3, <2>4 DEF KeptRows, StayedRows, Same
  <2>6. BoxStep
    BY <2>2, <2>4, <2>5, KeptIsBoxStep
  <2>7. ASSUME NEW r \in done PROVE r.msg \in ended' \/ r.msg \in Posted
    <3>1. ack.ok \in BOOLEAN
      BY <2>1 DEF Word
    <3>2. CASE ack.ok = TRUE
      <4>1. Covers(ack, box, lastSeq, Posted)
        BY <2>1 DEF AcksCover
      <4>2. r \in box /\ r.seq = ack.seq
        BY DEF UnderWay
      <4> HIDE DEF ack
      <4> QED BY <4>1, <4>2, <3>2, <2>1 DEF Covers
    <3>3. CASE ack.ok = FALSE
      <4>1. (CHOOSE q \in done : TRUE) \in done
        OBVIOUS
      <4>2. PICK q \in done : q = CHOOSE x \in done : TRUE
        BY <4>1
      <4>3. r \in box /\ q \in box /\ q.seq = r.seq
        BY DEF UnderWay
      <4>4. r.msg = q.msg
        BY <4>3 DEF NumbersAgree, Agrees
      <4>5. m = r.msg
        BY <4>2, <4>4
      <4>6. ended' = ended \cup {m}
        BY <2>2, <3>3
      <4> QED BY <4>5, <4>6
    <3> QED BY <3>1, <3>2, <3>3
  <2>8. RowsLeave
    <3>1. \A r \in box : r \in rest \/ r \in done
      OBVIOUS
    <3> HIDE DEF rest, done
    <3> QED BY <3>1, <2>4, <2>7 DEF RowsLeave, StayedRows, Same
  <2>9. ended \subseteq ended'
    BY <2>2
  <2> QED BY <2>2, <2>6, <2>8, <2>9 DEF AcceptedSince
<1>4. ASSUME NEW r \in box, Ages(r) PROVE BoxStep /\ RowsLeave /\ AcceptedSince
  <2> DEFINE aged == [r EXCEPT !.old = TRUE]
  <2>1. aged \in MailRow /\ Same(aged, r) /\ aged.old = TRUE
    BY <1>t DEF MailRow, Same
  <2>2. box' = (box \ {r}) \cup {aged} /\ lastSeq' = lastSeq /\ accepted' = accepted /\ ended' = ended
    BY <1>4 DEF Ages, history
  <2>3. box' \subseteq MailRow /\ KeptRows(box, box') /\ StayedRows(box, box')
    <3> HIDE DEF aged
    <3> QED BY <2>1, <2>2, <1>t DEF KeptRows, StayedRows, Same
  <2> QED BY <2>2, <2>3, KeptIsBoxStep, StayedLeavesNone
<1>5. ASSUME NEW r \in box, Expire(r) PROVE BoxStep /\ RowsLeave /\ AcceptedSince
  <2>1. box' = box \ {r} /\ lastSeq' = lastSeq /\ accepted' = accepted /\ ended' = ended \cup {r.msg}
    BY <1>5 DEF Expire
  <2>2. BoxStep
    BY <2>1, <1>t, KeptIsBoxStep DEF KeptRows, StayedRows, Same
  <2> QED BY <2>1, <2>2 DEF RowsLeave, AcceptedSince
<1>6. ASSUME OnPut PROVE BoxStep /\ RowsLeave /\ AcceptedSince
  <2> DEFINE m == Head(up).msg
             row == [seq |-> lastSeq + 1, msg |-> m, state |-> "queued", old |-> FALSE]
  <2>1. m \in Message
    <3>1. up \in Seq(Request) /\ up # <<>> /\ Head(up).t = "put"
      BY <1>6 DEF OnPut, Handles, Typed
    <3>2. Head(up) \in Request
      BY <3>1, ElemsOfTail
    <3> QED BY <3>1, <3>2 DEF Request
  <2>2. \/ Quiet
        \/ /\ lastSeq' = lastSeq + 1 /\ box' = box \cup {row}
           /\ accepted' = accepted \cup {m} /\ ended' = ended \ {m}
    BY <1>6 DEF OnPut, Quiet, history
  <2>3. row \in MailRow /\ row.seq = lastSeq + 1 /\ row.msg = m
    BY <2>1, <1>t DEF MailRow
  <2>4. CASE ~Quiet
    <3> HIDE DEF row, m
    <3>1. BoxStep
      BY <2>2, <2>3, <2>4, <1>t DEF BoxStep
    <3>2. RowsLeave
      BY <2>2, <2>4 DEF RowsLeave
    <3>3. AcceptedSince
      BY <2>2, <2>3, <2>4 DEF AcceptedSince
    <3> QED BY <3>1, <3>2, <3>3
  <2> QED BY <2>4, QuietMoves
<1>7. ASSUME OnCancel PROVE BoxStep /\ RowsLeave /\ AcceptedSince
  <2> DEFINE m == Head(up).msg
             taken == TakesBack(m)
  <2>1. /\ box' = box \ taken /\ lastSeq' = lastSeq /\ accepted' = accepted
        /\ ended' = IF taken # {} THEN ended \cup {m} ELSE ended
    BY <1>7 DEF OnCancel
  <2>2. \A r \in taken : r.msg = m
    BY DEF TakesBack, RowsOf
  <2>3. BoxStep
    BY <2>1, <1>t, KeptIsBoxStep DEF KeptRows, StayedRows, Same
  <2> HIDE DEF taken, m
  <2> QED BY <2>1, <2>2, <2>3 DEF RowsLeave, AcceptedSince
<1>8. CASE \/ \E c \in Conn : Accept(c) \/ Ignored(c) \/ OnReady(c)
           \/ OnList \/ PhoneStep
  <2>1. Quiet
    BY <1>8 DEF Quiet, Accept, Ignored, OnReady, OnList, PhoneStep, LinkUp, AskList, CatchUp, relayVars, history
  <2> QED BY <2>1, QuietMoves
<1>9. CASE HostStep
  <2>1. Quiet
    BY <1>9 DEF Quiet, HostStep, Connect, Open, Pull, ReadItem, DeliverHeld, Noticed, CutOff, TakeCall, Post,
                relayVars, history
  <2> QED BY <2>1, QuietMoves
<1>10. CASE \/ \E m \in Message : Enqueue(m) \/ SendDirect(m) \/ CancelQueued(m) \/ PutExpires(m) \/ CallFails(m)
            \/ LinkDrops \/ Cut \/ DeleteBot
  <2>1. Quiet
    BY <1>10 DEF Quiet, Enqueue, SendDirect, CancelQueued, PutExpires, CallFails, LinkDrops, Cut, CutOff, DeleteBot,
                 relayVars, history
  <2> QED BY <2>1, QuietMoves
<1> QED BY <1>1, <1>2, <1>3, <1>4, <1>5, <1>6, <1>7, <1>8, <1>9, <1>10 DEF Next, RelayStep, UserOrFault

-----------------------------------------------------------------------------
(* What a step makes of the wires and of what the host has in hand. *)

LEMMA AgreesStays ==
  ASSUME Typed, BoxStep, NEW e \in MailItem \cup MailRow, Agrees(e, box, lastSeq)
  PROVE  Agrees(e, box', lastSeq')
<1>1. e.seq \in Nat
  BY DEF MailItem, MailRow
<1>2. CASE lastSeq' = lastSeq /\ KeptRows(box, box')
  BY <1>2 DEF Agrees, KeptRows, Same
<1>3. CASE lastSeq' = lastSeq + 1 /\ \E row : row.seq = lastSeq + 1 /\ \A q \in box' : q \in box \/ q = row
  BY <1>1, <1>3 DEF Agrees, Typed
<1> QED BY <1>2, <1>3 DEF BoxStep

LEMMA CoversStays ==
  ASSUME Typed, BoxStep, Posted \subseteq Posted', NEW a \in Word, Covers(a, box, lastSeq, Posted)
  PROVE  Covers(a, box', lastSeq', Posted')
<1>1. a.t = "ack" => a.seq \in Nat
  BY DEF Word
<1>2. CASE lastSeq' = lastSeq /\ KeptRows(box, box')
  BY <1>2 DEF Covers, KeptRows, Same
<1>3. CASE lastSeq' = lastSeq + 1 /\ \E row : row.seq = lastSeq + 1 /\ \A q \in box' : q \in box \/ q = row
  BY <1>1, <1>3 DEF Covers, Typed
<1> QED BY <1>2, <1>3 DEF BoxStep

\* An item sent is of a row, or was sent before.
ItemsStep ==
  /\ items' \in [Conn -> Seq(MailItem)]
  /\ \A c \in Conn : \A e \in Elems(items'[c]) : e \in Elems(items[c]) \/ IsNext(e, box, box')

LEMMA ItemsMove ==
  ASSUME Typed, Next
  PROVE  ItemsStep
<1>t. box \subseteq MailRow /\ items \in [Conn -> Seq(MailItem)]
  BY DEF Typed
<1>1. ASSUME items' = items PROVE ItemsStep
  BY <1>1, <1>t DEF ItemsStep
<1>2. ASSUME NEW c \in Conn, Announced(c) \/ OnAck(c) PROVE ItemsStep
  <2>1. PICK rows \in SUBSET box : Deliver(c, rows) \/ items' = items
    <3>1. CASE Announced(c)
      BY <3>1 DEF Announced
    <3>2. CASE OnAck(c)
      <4> DEFINE done == {r \in UnderWay(box) : r.seq = Head(answers[c]).seq}
      <4>1. Deliver(c, box \ done) \/ items' = items
        BY <3>2 DEF OnAck
      <4> QED BY <4>1
    <3> QED BY <1>2, <3>1, <3>2
  <2>2. CASE Deliver(c, rows)
    <3>1. rows \in SUBSET MailRow
      BY <1>t
    <3>2. /\ items' \in [Conn -> Seq(MailItem)]
          /\ \A d \in Conn : \A e \in Elems(items'[d]) : e \in Elems(items[d]) \/ IsNext(e, rows, box')
      BY <3>1, <2>2, <1>t, DeliverKeeps
    <3> QED BY <3>2, <2>1 DEF ItemsStep, IsNext
  <2> QED BY <2>1, <2>2, <1>1
<1>3. CASE ReadItem
  <2>1. conn \in Conn /\ items[conn] # <<>> /\ items' = [items EXCEPT ![conn] = Tail(@)]
    BY <1>3 DEF ReadItem, Typed, Conn
  <2>2. Tail(items[conn]) \in Seq(MailItem) /\ Elems(Tail(items[conn])) \subseteq Elems(items[conn])
    BY <2>1, <1>t, ElemsOfTail
  <2> QED BY <2>1, <2>2, <1>t DEF ItemsStep
<1>4. CASE CutOff
  <2>1. items' = [items EXCEPT ![conn] = <<>>]
    BY <1>4 DEF CutOff
  <2>2. <<>> \in Seq(MailItem) /\ Elems(<<>>) = {}
    BY ElemsOfEmpty
  <2> QED BY <2>1, <2>2, <1>t DEF ItemsStep
<1>5. CASE \/ \E c \in Conn : Replace(c) \/ Accept(c) \/ Closed(c) \/ Ignored(c) \/ OnReady(c)
           \/ \E r \in box : Expire(r)
           \/ OnPut \/ OnCancel \/ OnList
  <2>1. items' = items
    BY <1>5 DEF Replace, Accept, Closed, Ignored, OnReady, Expire, OnPut, OnCancel, OnList, wires
  <2> QED BY <2>1, <1>1
<1>6. CASE \/ PhoneStep
           \/ \E c \in Conn : Connect(c)
           \/ \E pulled \in BOOLEAN : Open(pulled)
           \/ Pull \/ DeliverHeld
           \/ \E m \in Message : TakeCall(m)
           \/ \E e \in looked : Post(e)
  <2>1. items' = items
    BY <1>6 DEF PhoneStep, LinkUp, AskList, CatchUp, Connect, Open, Pull, DeliverHeld, TakeCall, Post, wires
  <2> QED BY <2>1, <1>1
<1>7. CASE \/ \E m \in Message : Enqueue(m) \/ SendDirect(m) \/ CancelQueued(m) \/ PutExpires(m) \/ CallFails(m)
           \/ \E c \in Conn : RetireSilent(c)
           \/ \E r \in box : Ages(r)
           \/ LinkDrops \/ DeleteBot
  <2>1. items' = items
    BY <1>7 DEF Enqueue, SendDirect, CancelQueued, PutExpires, CallFails, RetireSilent, Ages, LinkDrops, DeleteBot, wires
  <2> QED BY <2>1, <1>1
<1> QED BY <1>2, <1>3, <1>4, <1>5, <1>6, <1>7 DEF Next, RelayStep, HostStep, UserOrFault, Noticed, Cut

\* The items on the way to the host and those it has in hand.
InHand(e) ==
  \/ \E c \in Conn : e \in Elems(items[c])
  \/ held # NoItem /\ e = held
  \/ e \in looked /\ e.seq # 0

LogStep == log' \in Seq(MailItem) /\ Posted \subseteq Posted'
AnswersStep ==
  /\ answers' \in [Conn -> Seq(Word)]
  /\ \A c \in Conn : \A a \in Elems(answers'[c]) :
       \/ a \in Elems(answers[c])
       \/ a.t = "ready"
       \/ \E e \in MailItem : InHand(e) /\ a.seq = e.seq /\ (a.ok = TRUE => e.msg \in Posted')
HandStep ==
  /\ held' \in MailItem \cup {NoItem} /\ looked' \subseteq MailItem
  /\ held' # NoItem => InHand(held')
  /\ \A e \in looked' : e.seq = 0 \/ InHand(e)

LEMMA InHandTyped ==
  ASSUME Typed, NEW e, InHand(e)
  PROVE  e \in MailItem
<1>1. ASSUME NEW c \in Conn, e \in Elems(items[c]) PROVE e \in MailItem
  <2>1. items[c] \in Seq(MailItem)
    BY DEF Typed
  <2>2. \A i \in 1..Len(items[c]) : items[c][i] \in MailItem
    BY <2>1
  <2> QED BY <1>1, <2>2 DEF Elems
<1> QED BY <1>1 DEF InHand, Typed

LEMMA EntryAdds ==
  ASSUME log \in Seq(MailItem), NEW m \in Message, NEW seq \in Nat, Entry(m, seq)
  PROVE  LogStep /\ Posted' = Posted \cup {m} /\ Len(log') = Len(log) + 1
         /\ log'[Len(log) + 1] = [msg |-> m, seq |-> seq] /\ log'[Len(log) + 1].msg = m /\ log'[Len(log) + 1].seq = seq /\ \A i \in 1..Len(log) : log'[i] = log[i]
<1> DEFINE e == [msg |-> m, seq |-> seq]
<1>1. e \in MailItem /\ e.msg = m /\ e.seq = seq
  BY DEF MailItem
<1>2. log' = Append(log, e)
  BY DEF Entry
<1> HIDE DEF e
<1>3. /\ Len(log) \in Nat /\ log' \in Seq(MailItem) /\ Len(log') = Len(log) + 1 /\ log'[Len(log) + 1] = e
      /\ \A i \in 1..Len(log) : log'[i] = log[i]
  BY <1>1, <1>2
<1>4. Posted' = {log'[i].msg : i \in 1..Len(log')}
  BY DEF Posted
<1>5. Posted \subseteq Posted'
  BY <1>3, <1>4 DEF Posted
<1>6. m \in Posted'
  BY <1>1, <1>3, <1>4
<1>7. ASSUME NEW x \in Posted' PROVE x \in Posted \cup {m}
  <2>1. PICK i \in 1..Len(log') : x = log'[i].msg
    BY <1>4
  <2>2. i \in 1..Len(log) \/ i = Len(log) + 1
    BY <1>3
  <2> QED BY <1>1, <1>3, <2>1, <2>2 DEF Posted
<1> QED BY <1>1, <1>3, <1>5, <1>6, <1>7 DEF LogStep, e

LEMMA LogStays ==
  ASSUME Typed, log' = log
  PROVE  LogStep
  BY DEF Typed, LogStep, Posted

\* An answer of the host's on its own connection.
LEMMA AnswerAdds ==
  ASSUME Typed, NEW a \in Word, conn \in Conn, Answer(a)
  PROVE  /\ answers' \in [Conn -> Seq(Word)]
         /\ \A c \in Conn : \A w \in Elems(answers'[c]) : w \in Elems(answers[c]) \/ w = a
<1>1. answers \in [Conn -> Seq(Word)] /\ answers' = [answers EXCEPT ![conn] = Append(@, a)]
  BY DEF Typed, Answer
<1>2. Append(answers[conn], a) \in Seq(Word) /\ Elems(Append(answers[conn], a)) = Elems(answers[conn]) \cup {a}
  BY <1>1, ElemsOfAppend
<1> QED BY <1>1, <1>2

LEMMA AckAdds ==
  ASSUME Typed, NEW e, InHand(e), NEW ok \in BOOLEAN, conn \in Conn, Ack(e.seq, ok), ok = TRUE => e.msg \in Posted'
  PROVE  AnswersStep
<1> DEFINE a == [t |-> "ack", seq |-> e.seq, ok |-> ok]
<1>1. e \in MailItem
  BY InHandTyped
<1>2. a \in Word /\ a.seq = e.seq /\ a.ok = ok
  BY <1>1 DEF Word, MailItem
<1>3. Answer(a)
  BY DEF Ack
<1> HIDE DEF a
<1>4. /\ answers' \in [Conn -> Seq(Word)]
      /\ \A c \in Conn : \A w \in Elems(answers'[c]) : w \in Elems(answers[c]) \/ w = a
  BY <1>2, <1>3, AnswerAdds
<1> QED BY <1>1, <1>2, <1>4 DEF AnswersStep

LEMMA AnswersStay ==
  ASSUME Typed, answers' = answers
  PROVE  AnswersStep
  BY DEF Typed, AnswersStep

LEMMA HandsStay ==
  ASSUME Typed, held' \in {held, NoItem}, looked' \subseteq looked
  PROVE  HandStep
  BY DEF Typed, HandStep, InHand

LEMMA DeliveryMoves ==
  ASSUME Typed, NEW e, InHand(e), conn \in Conn, StartDelivery(e)
  PROVE  LogStep /\ AnswersStep /\ looked' \subseteq looked \cup {e}
<1>1. e \in MailItem /\ e.seq \in Nat /\ e.msg \in Message /\ log \in Seq(MailItem)
  BY InHandTyped DEF MailItem, Typed
<1>2. CASE Ack(e.seq, FALSE) /\ UNCHANGED <<looked, log>>
  <2>1. LogStep
    BY <1>2, LogStays
  <2>2. AnswersStep
    BY <1>2, AckAdds
  <2> QED BY <1>2, <2>1, <2>2
<1>3. CASE Known(e.msg) /\ Ack(e.seq, TRUE) /\ UNCHANGED <<looked, log>>
  <2>1. LogStep
    BY <1>3, LogStays
  <2>2. e.msg \in Posted'
    BY <1>3, <2>1 DEF LogStep, Known
  <2>3. AnswersStep
    BY <1>3, <2>2, AckAdds
  <2> QED BY <1>3, <2>1, <2>3
<1>4. CASE Entry(e.msg, e.seq) /\ Ack(e.seq, TRUE) /\ UNCHANGED looked
  <2>1. LogStep /\ e.msg \in Posted'
    BY <1>1, <1>4, EntryAdds
  <2>2. AnswersStep
    BY <1>4, <2>1, AckAdds
  <2> QED BY <1>4, <2>1, <2>2
<1>5. CASE looked' = looked \cup {e} /\ UNCHANGED <<answers, log>>
  <2>1. LogStep /\ AnswersStep
    BY <1>5, LogStays, AnswersStay
  <2> QED BY <1>5, <2>1
<1> QED BY <1>2, <1>3, <1>4, <1>5 DEF StartDelivery

LEMMA HostMoves ==
  ASSUME Typed, Next
  PROVE  LogStep /\ AnswersStep /\ HandStep
<1>t. answers \in [Conn -> Seq(Word)] /\ looked \subseteq MailItem
  BY DEF Typed
<1>1. ASSUME log' = log, answers' = answers, held' \in {held, NoItem}, looked' \subseteq looked
      PROVE  LogStep /\ AnswersStep /\ HandStep
  BY <1>1, LogStays, AnswersStay, HandsStay
<1>2. CASE ReadItem
  <2> DEFINE e == Head(items[conn])
  <2>1. conn \in Conn /\ items[conn] # <<>>
    BY <1>2 DEF ReadItem, Typed, Conn
  <2>2. items[conn] \in Seq(MailItem)
    BY <2>1 DEF Typed
  <2>3. e \in Elems(items[conn])
    BY <2>1, <2>2, ElemsOfTail
  <2>4. InHand(e)
    BY <2>1, <2>3 DEF InHand
  <2>5. e \in MailItem
    BY <2>4, InHandTyped
  <2>6. CASE synced /\ StartDelivery(e) /\ UNCHANGED held
    <3>1. LogStep /\ AnswersStep /\ looked' \subseteq looked \cup {e}
      BY <2>1, <2>4, <2>6, DeliveryMoves
    <3> HIDE DEF e
    <3>2. HandStep
      BY <3>1, <2>4, <2>5, <2>6 DEF HandStep, InHand, Typed
    <3> QED BY <3>1, <3>2
  <2>7. CASE held' = e /\ UNCHANGED <<answers, looked, log>>
    <3>1. LogStep /\ AnswersStep
      BY <2>7, LogStays, AnswersStay
    <3> HIDE DEF e
    <3>2. HandStep
      BY <2>4, <2>5, <2>7 DEF HandStep, InHand, Typed
    <3> QED BY <3>1, <3>2
  <2> QED BY <1>2, <2>6, <2>7 DEF ReadItem
<1>3. CASE DeliverHeld
  <2>1. conn \in Conn /\ held # NoItem /\ InHand(held) /\ held' = NoItem /\ StartDelivery(held)
    BY <1>3 DEF DeliverHeld, Typed, Conn, InHand
  <2>2. LogStep /\ AnswersStep /\ looked' \subseteq looked \cup {held}
    BY <2>1, DeliveryMoves
  <2>3. HandStep
    BY <2>1, <2>2 DEF HandStep, InHand, Typed
  <2> QED BY <2>2, <2>3
<1>4. ASSUME NEW m \in Message, TakeCall(m) PROVE LogStep /\ AnswersStep /\ HandStep
  <2>1. answers' = answers /\ held' = held
    BY <1>4 DEF TakeCall, wires, sessionVars
  <2>2. AnswersStep
    BY <2>1, AnswersStay
  <2>3. LogStep
    <3>1. log' = log \/ Entry(m, 0)
      BY <1>4 DEF TakeCall
    <3> QED BY <3>1, LogStays, EntryAdds DEF Typed
  <2>4. looked' \subseteq looked \cup {[seq |-> 0, msg |-> m]}
    BY <1>4 DEF TakeCall
  <2>5. [seq |-> 0, msg |-> m] \in MailItem /\ [seq |-> 0, msg |-> m].seq = 0
    BY DEF MailItem
  <2>6. HandStep
    BY <2>1, <2>4, <2>5 DEF HandStep, InHand, Typed
  <2> QED BY <2>2, <2>3, <2>6
<1>5. ASSUME NEW e \in looked, Post(e) PROVE LogStep /\ AnswersStep /\ HandStep
  <2>1. e \in MailItem /\ e.seq \in Nat /\ e.msg \in Message
    BY <1>t DEF MailItem
  <2>2. Entry(e.msg, e.seq) /\ held' = held /\ looked' \subseteq looked
    BY <1>5 DEF Post, sessionVars
  <2>3. LogStep /\ e.msg \in Posted'
    BY <2>1, <2>2, EntryAdds DEF Typed
  <2>4. AnswersStep
    <3>1. CASE e.seq = 0
      BY <1>5, <3>1, AnswersStay DEF Post
    <3>2. CASE e.seq # 0 /\ conn \in Conn
      <4>1. InHand(e) /\ Ack(e.seq, TRUE)
        BY <1>5, <3>2 DEF Post, InHand
      <4> QED BY <4>1, <3>2, <2>3, AckAdds
    <3>3. CASE e.seq # 0 /\ conn \notin Conn
      <4>1. answers' = answers
        BY <1>5, <3>3, <1>t DEF Post, Ack, Answer
      <4> QED BY <4>1, AnswersStay
    <3> QED BY <3>1, <3>2, <3>3
  <2> QED BY <2>2, <2>3, <2>4, HandsStay
<1>6. ASSUME NEW pulled \in BOOLEAN, Open(pulled) PROVE LogStep /\ AnswersStep /\ HandStep
  <2> DEFINE a == [t |-> "ready"]
  <2>1. conn \in Conn /\ Answer(a) /\ log' = log /\ held' = held /\ looked' = looked
    BY <1>6 DEF Open, Typed, Conn, chatVars
  <2>2. a \in Word /\ a.t = "ready"
    BY DEF Word
  <2>3. /\ answers' \in [Conn -> Seq(Word)]
        /\ \A c \in Conn : \A w \in Elems(answers'[c]) : w \in Elems(answers[c]) \/ w = a
    <3> HIDE DEF a
    <3> QED BY <2>1, <2>2, AnswerAdds
  <2>4. AnswersStep
    BY <2>2, <2>3 DEF AnswersStep
  <2> QED BY <2>1, <2>4, LogStays, HandsStay
<1>7. ASSUME NEW c \in Conn, Ignored(c) \/ OnReady(c) \/ OnAck(c) PROVE LogStep /\ AnswersStep /\ HandStep
  <2>1. /\ answers' = [answers EXCEPT ![c] = Tail(@)] /\ answers[c] # <<>>
        /\ log' = log /\ held' = held /\ looked' = looked
    BY <1>7 DEF Ignored, OnReady, OnAck, chatVars, sessionVars
  <2>2. Tail(answers[c]) \in Seq(Word) /\ Elems(Tail(answers[c])) \subseteq Elems(answers[c])
    BY <2>1, <1>t, ElemsOfTail
  <2>3. AnswersStep
    BY <2>1, <2>2, <1>t DEF AnswersStep
  <2> QED BY <2>1, <2>3, LogStays, HandsStay
<1>8. CASE CutOff
  <2>1. /\ held' = NoItem /\ looked' \subseteq looked /\ log' = log
        /\ \E n \in 0..Len(answers[conn]) : answers' = [answers EXCEPT ![conn] = SubSeq(@, 1, n)]
    BY <1>8 DEF CutOff
  <2>2. PICK n \in 0..Len(answers[conn]) : answers' = [answers EXCEPT ![conn] = SubSeq(@, 1, n)]
    BY <2>1
  <2>3. CASE conn \in Conn
    <3>1. SubSeq(answers[conn], 1, n) \in Seq(Word) /\ Elems(SubSeq(answers[conn], 1, n)) \subseteq Elems(answers[conn])
      BY <2>2, <2>3, <1>t, ElemsOfPrefix
    <3> QED BY <2>1, <2>2, <3>1, <1>t, LogStays, HandsStay DEF AnswersStep
  <2>4. CASE conn \notin Conn
    <3>1. answers' = answers
      BY <2>2, <2>4, <1>t
    <3> QED BY <3>1, <2>1, <1>1
  <2> QED BY <2>3, <2>4
<1>9. CASE \/ \E c \in Conn : Replace(c) \/ Accept(c) \/ Closed(c) \/ Announced(c)
           \/ \E r \in box : Expire(r)
           \/ OnPut \/ OnCancel \/ OnList
           \/ PhoneStep
  <2>1. log' = log /\ answers' = answers /\ held' = held /\ looked' = looked
    BY <1>9 DEF Replace, Accept, Closed, Announced, Expire, OnPut, OnCancel, OnList, PhoneStep, LinkUp, AskList, CatchUp,
                wires, chatVars, sessionVars
  <2> QED BY <2>1, <1>1
<1>10. CASE (\E c \in Conn : Connect(c)) \/ Pull
  <2>1. log' = log /\ answers' = answers /\ held' \in {held, NoItem} /\ looked' = looked
    BY <1>10 DEF Connect, Pull, wires, chatVars
  <2> QED BY <2>1, <1>1
<1>11. CASE \/ \E m \in Message : Enqueue(m) \/ SendDirect(m) \/ CancelQueued(m) \/ PutExpires(m) \/ CallFails(m)
            \/ \E c \in Conn : RetireSilent(c)
            \/ \E r \in box : Ages(r)
            \/ LinkDrops \/ DeleteBot
  <2>1. log' = log /\ answers' = answers /\ held' = held /\ looked' = looked
    BY <1>11 DEF Enqueue, SendDirect, CancelQueued, PutExpires, CallFails, RetireSilent, Ages, LinkDrops, DeleteBot,
                 wires, chatVars, sessionVars
  <2> QED BY <2>1, <1>1
<1> QED
  BY <1>2, <1>3, <1>4, <1>5, <1>6, <1>7, <1>8, <1>9, <1>10, <1>11
  DEF Next, RelayStep, HostStep, UserOrFault, Noticed, Cut

-----------------------------------------------------------------------------
(* The link, the sockets and the session. *)

LEMMA UpMoves ==
  ASSUME Typed, Next
  PROVE  up' \in Seq(Request)
<1>t. up \in Seq(Request)
  BY DEF Typed
<1>1. ASSUME NEW a \in Request, up' = Append(up, a) PROVE up' \in Seq(Request)
  BY <1>1, <1>t, ElemsOfAppend
<1>2. ASSUME NEW m \in Message, Enqueue(m) \/ CancelQueued(m) PROVE up' \in Seq(Request)
  <2>1. [t |-> "put", msg |-> m] \in Request /\ [t |-> "cancel", msg |-> m] \in Request
    BY DEF Request
  <2>2. up' = Append(up, [t |-> "put", msg |-> m]) \/ up' = Append(up, [t |-> "cancel", msg |-> m])
    BY <1>2 DEF Enqueue, CancelQueued
  <2> QED BY <2>1, <2>2, <1>1
<1>3. CASE AskList
  <2>1. [t |-> "list"] \in Request
    BY DEF Request
  <2>2. up' = up \/ up' = Append(up, [t |-> "list"])
    BY <1>3 DEF AskList
  <2> QED BY <2>1, <2>2, <1>1, <1>t
<1>4. CASE OnPut \/ OnCancel \/ OnList
  <2>1. up # <<>> /\ up' = Tail(up)
    BY <1>4 DEF OnPut, OnCancel, OnList, Handles
  <2> QED BY <2>1, <1>t, ElemsOfTail
<1>5. CASE LinkDrops
  <2>1. \E n \in 0..Len(up) : up' = SubSeq(up, 1, n)
    BY <1>5 DEF LinkDrops
  <2> QED BY <2>1, <1>t, ElemsOfPrefix
<1>6. CASE \/ \E c \in Conn : Replace(c) \/ Accept(c) \/ Closed(c) \/ Ignored(c) \/ OnReady(c) \/ Announced(c) \/ OnAck(c)
           \/ \E r \in box : Expire(r)
           \/ LinkUp \/ \E m \in Message : CatchUp(m)
  <2>1. up' = up
    BY <1>6 DEF Replace, Accept, Closed, Ignored, OnReady, Announced, OnAck, Expire, LinkUp, CatchUp, linkVars
  <2> QED BY <2>1, <1>t
<1>7. CASE HostStep
  <2>1. up' = up
    BY <1>7 DEF HostStep, Connect, Open, Pull, ReadItem, DeliverHeld, Noticed, CutOff, TakeCall, Post, linkVars
  <2> QED BY <2>1, <1>t
<1>8. CASE \/ \E m \in Message : SendDirect(m) \/ PutExpires(m) \/ CallFails(m)
           \/ \E c \in Conn : RetireSilent(c)
           \/ \E r \in box : Ages(r)
           \/ Cut \/ DeleteBot
  <2>1. up' = up
    BY <1>8 DEF SendDirect, PutExpires, CallFails, RetireSilent, Ages, Cut, CutOff, DeleteBot, linkVars
  <2> QED BY <2>1, <1>t
<1> QED BY <1>2, <1>3, <1>4, <1>5, <1>6, <1>7, <1>8 DEF Next, RelayStep, PhoneStep, UserOrFault

LEMMA SessionMoves ==
  ASSUME Typed, Next
  PROVE  conn' \in 0..MaxConns /\ (opened' = TRUE => conn' # 0)
<1>t. MaxConns \in Nat \ {0} /\ conn \in 0..MaxConns /\ (opened = TRUE => conn # 0)
  BY OfflineMailAssumption DEF Typed
<1>1. ASSUME NEW c \in Conn, Connect(c) PROVE conn' \in 0..MaxConns /\ (opened' = TRUE => conn' # 0)
  BY <1>1, <1>t DEF Connect, Conn
<1>2. CASE (\E pulled \in BOOLEAN : Open(pulled)) \/ CutOff
  BY <1>2, <1>t DEF Open, CutOff
<1>3. CASE \/ RelayStep \/ PhoneStep
           \/ Pull \/ ReadItem \/ DeliverHeld
           \/ \E m \in Message : TakeCall(m)
           \/ \E e \in looked : Post(e)
  <2>1. conn' = conn /\ opened' = opened
    BY <1>3 DEF RelayStep, Replace, Accept, Closed, Ignored, OnReady, Announced, OnAck, Expire, OnPut, OnCancel, OnList,
                PhoneStep, LinkUp, AskList, CatchUp, Pull, ReadItem, DeliverHeld, TakeCall, Post, sessionVars
  <2> QED BY <2>1, <1>t
<1>4. CASE \/ \E m \in Message : Enqueue(m) \/ SendDirect(m) \/ CancelQueued(m) \/ PutExpires(m) \/ CallFails(m)
           \/ \E c \in Conn : RetireSilent(c)
           \/ \E r \in box : Ages(r)
           \/ LinkDrops \/ DeleteBot
  <2>1. conn' = conn /\ opened' = opened
    BY <1>4 DEF Enqueue, SendDirect, CancelQueued, PutExpires, CallFails, RetireSilent, Ages, LinkDrops, DeleteBot,
                sessionVars
  <2> QED BY <2>1, <1>t
<1> QED BY <1>1, <1>2, <1>3, <1>4 DEF Next, HostStep, UserOrFault, Noticed, Cut

\* What each step of the relay's makes of a socket.
LEMMA SocketMoves ==
  ASSUME Typed, Next
  PROVE  sock' \in [Conn -> Socket]
<1>t. sock \in [Conn -> Socket] /\ \A c \in Conn : sock[c] \in Socket
  BY DEF Typed
<1>s. \A x \in Socket : /\ \A at \in {"none", "knocking", "accepting", "open", "closed"} : [x EXCEPT !.at = at] \in Socket
                        /\ [x EXCEPT !.ready = FALSE, !.retired = TRUE] \in Socket
                        /\ [x EXCEPT !.ready = TRUE, !.announcing = TRUE] \in Socket
                        /\ [x EXCEPT !.announcing = FALSE] \in Socket
  BY DEF Socket
<1>1. ASSUME NEW c \in Conn, Connect(c) \/ Accept(c) \/ Closed(c) PROVE sock' \in [Conn -> Socket]
  <2>1. PICK at \in {"knocking", "open", "closed"} : sock' = [sock EXCEPT ![c].at = at]
    BY <1>1 DEF Connect, Accept, Closed
  <2>2. sock' = [sock EXCEPT ![c] = [sock[c] EXCEPT !.at = at]]
    BY <2>1
  <2> QED BY <2>2, <1>t, <1>s
<1>2. ASSUME NEW c \in Conn, Replace(c) PROVE sock' \in [Conn -> Socket]
  <2>1. sock' = [d \in Conn |-> IF d = c THEN [sock[c] EXCEPT !.at = "accepting"]
                                ELSE IF Attached(d) THEN [sock[d] EXCEPT !.ready = FALSE, !.retired = TRUE]
                                ELSE sock[d]]
    BY <1>2 DEF Replace
  <2> QED BY <2>1, <1>t, <1>s
<1>3. ASSUME NEW c \in Conn, RetireSilent(c) \/ OnReady(c) \/ Announced(c) PROVE sock' \in [Conn -> Socket]
  <2>1. PICK x \in Socket : sock' = [sock EXCEPT ![c] = x]
    <3>1. CASE RetireSilent(c)
      <4>1. sock' = [sock EXCEPT ![c] = [sock[c] EXCEPT !.ready = FALSE, !.retired = TRUE]]
        BY <3>1, <1>t DEF RetireSilent
      <4> QED BY <4>1, <1>t, <1>s
    <3>2. CASE OnReady(c)
      <4>1. sock' = [sock EXCEPT ![c] = [sock[c] EXCEPT !.ready = TRUE, !.announcing = TRUE]]
        BY <3>2, <1>t DEF OnReady
      <4> QED BY <4>1, <1>t, <1>s
    <3>3. CASE Announced(c)
      <4>1. sock' = [sock EXCEPT ![c] = [sock[c] EXCEPT !.announcing = FALSE]]
        BY <3>3 DEF Announced
      <4> QED BY <4>1, <1>t, <1>s
    <3> QED BY <1>3, <3>1, <3>2, <3>3
  <2> QED BY <2>1, <1>t
<1>4. CASE \/ \E c \in Conn : Ignored(c) \/ OnAck(c)
           \/ \E r \in box : Expire(r)
           \/ OnPut \/ OnCancel \/ OnList \/ PhoneStep
           \/ \E pulled \in BOOLEAN : Open(pulled)
           \/ Pull \/ ReadItem \/ DeliverHeld \/ CutOff
           \/ \E m \in Message : TakeCall(m)
           \/ \E e \in looked : Post(e)
  <2>1. sock' = sock
    BY <1>4 DEF Ignored, OnAck, Expire, OnPut, OnCancel, OnList, PhoneStep, LinkUp, AskList, CatchUp, Open, Pull,
                ReadItem, DeliverHeld, CutOff, TakeCall, Post, relayVars
  <2> QED BY <2>1, <1>t
<1>5. CASE \/ \E m \in Message : Enqueue(m) \/ SendDirect(m) \/ CancelQueued(m) \/ PutExpires(m) \/ CallFails(m)
           \/ \E r \in box : Ages(r)
           \/ LinkDrops \/ DeleteBot
  <2>1. sock' = sock
    BY <1>5 DEF Enqueue, SendDirect, CancelQueued, PutExpires, CallFails, Ages, LinkDrops, DeleteBot, relayVars
  <2> QED BY <2>1, <1>t
<1> QED BY <1>1, <1>2, <1>3, <1>4, <1>5 DEF Next, RelayStep, HostStep, UserOrFault, Noticed, Cut

-----------------------------------------------------------------------------
(* What was accepted is never lost. *)

ItemsAgree == \A e \in MailItem : InHand(e) => Agrees(e, box, lastSeq)
MailInv == Typed /\ NumbersAgree /\ ItemsAgree /\ AcksCover /\ NeverLost

LEMMA MailInvInit == Init => MailInv
<1> SUFFICES ASSUME Init PROVE MailInv
  OBVIOUS
<1>1. Typed
  <2>1. 0 \in 0..MaxConns
    BY OfflineMailAssumption
  <2>2. [at |-> "none", ready |-> FALSE, retired |-> FALSE, announcing |-> FALSE] \in Socket
    BY DEF Socket
  <2> QED BY <2>1, <2>2 DEF Init, Typed
<1>2. \A c \in Conn : Elems(items[c]) = {} /\ Elems(answers[c]) = {}
  BY ElemsOfEmpty DEF Init
<1>3. ItemsAgree /\ AcksCover
  BY <1>2 DEF Init, ItemsAgree, AcksCover, InHand
<1>4. NumbersAgree /\ NeverLost
  BY DEF Init, NumbersAgree, NeverLost
<1> QED BY <1>1, <1>3, <1>4 DEF MailInv

LEMMA MailInvStep ==
  ASSUME MailInv, Next
  PROVE  MailInv'
<1>1. Typed /\ BoxStep /\ RowsLeave /\ AcceptedSince /\ ItemsStep /\ LogStep /\ AnswersStep /\ HandStep
  BY RelayMoves, ItemsMove, HostMoves DEF MailInv
<1>2. Typed'
  <2>1. up' \in Seq(Request) /\ sock' \in [Conn -> Socket] /\ conn' \in 0..MaxConns /\ (opened' = TRUE => conn' # 0)
    BY <1>1, UpMoves, SocketMoves, SessionMoves
  <2> QED BY <1>1, <2>1 DEF Typed, BoxStep, ItemsStep, LogStep, AnswersStep, HandStep
<1>3. ASSUME NEW r \in box PROVE Agrees(r, box', lastSeq') /\ r \in MailRow
  <2>1. r \in MailRow /\ Agrees(r, box, lastSeq)
    BY DEF MailInv, Typed, NumbersAgree
  <2> QED BY <2>1, <1>1, AgreesStays
<1>4. ASSUME NEW e \in MailItem, NEW r \in box, Same(e, r) PROVE Agrees(e, box', lastSeq')
  BY <1>3, <1>4 DEF Agrees, Same
<1>5. NumbersAgree'
  <2>1. ASSUME NEW q \in box' PROVE Agrees(q, box', lastSeq')
    <3>1. CASE \E r \in box : Same(q, r)
      BY <1>3, <3>1 DEF Agrees, Same
    <3>2. ASSUME q \notin box, lastSeq' = lastSeq + 1, NEW row, row.seq = lastSeq + 1,
                 \A p \in box' : p \in box \/ p = row
          PROVE  Agrees(q, box', lastSeq')
      <4>1. q = row /\ lastSeq \in Nat
        BY <3>2, <1>1 DEF Typed
      <4>2. \A p \in box : p.seq \in Nat /\ p.seq <= lastSeq
        BY <1>1 DEF MailInv, Typed, NumbersAgree, Agrees, MailRow
      <4> QED BY <3>2, <4>1, <4>2 DEF Agrees
    <3>3. CASE q \in box
      BY <1>3, <3>3
    <3> QED BY <1>1, <3>1, <3>2, <3>3 DEF BoxStep, KeptRows
  <2> QED BY <2>1 DEF NumbersAgree
<1>6. ASSUME NEW e \in MailItem, InHand(e) PROVE Agrees(e, box', lastSeq')
  <2>1. Agrees(e, box, lastSeq)
    BY <1>6 DEF MailInv, ItemsAgree
  <2> QED BY <2>1, <1>1, AgreesStays
<1>7. ItemsAgree'
  <2>1. ASSUME NEW e \in MailItem, InHand(e)' PROVE Agrees(e, box', lastSeq')
    <3>1. InHand(e) \/ \E r \in box : Same(e, r)
      BY <1>1, <2>1 DEF InHand, ItemsStep, HandStep, IsNext
    <3> QED BY <3>1, <1>4, <1>6
  <2> QED BY <2>1 DEF ItemsAgree
<1>8. AcksCover'
  <2>1. ASSUME NEW c \in Conn, NEW a \in Elems(answers'[c]) PROVE Covers(a, box', lastSeq', Posted')
    <3>1. CASE a \in Elems(answers[c])
      <4>1. a \in Word
        <5>1. answers[c] \in Seq(Word)
          BY <1>1 DEF Typed
        <5>2. \A i \in 1..Len(answers[c]) : answers[c][i] \in Word
          BY <5>1
        <5> QED BY <3>1, <5>2 DEF Elems
      <4>2. Covers(a, box, lastSeq, Posted)
        BY <3>1 DEF MailInv, AcksCover
      <4> QED BY <4>1, <4>2, <1>1, CoversStays DEF LogStep
    <3>2. CASE a.t = "ready"
      BY <3>2 DEF Covers
    <3>3. ASSUME NEW e \in MailItem, InHand(e), a.seq = e.seq, a.ok = TRUE => e.msg \in Posted'
          PROVE  Covers(a, box', lastSeq', Posted')
      BY <3>3, <1>6 DEF Covers, Agrees
    <3> QED BY <1>1, <3>1, <3>2, <3>3 DEF AnswersStep
  <2> QED BY <2>1 DEF AcksCover
<1>9. NeverLost'
  <2>1. ASSUME NEW m \in accepted' PROVE (\E q \in box' : q.msg = m) \/ m \in Posted' \/ m \in ended'
    <3>1. CASE m \in accepted /\ (m \in ended => m \in ended')
      <4>1. (\E r \in box : r.msg = m) \/ m \in Posted \/ m \in ended
        BY <3>1 DEF MailInv, NeverLost, RowsOf
      <4> QED BY <4>1, <3>1, <1>1 DEF RowsLeave, LogStep
    <3> QED BY <1>1, <3>1 DEF AcceptedSince
  <2> QED BY <2>1 DEF NeverLost, RowsOf
<1> QED BY <1>2, <1>5, <1>7, <1>8, <1>9 DEF MailInv

LEMMA MailInvStutter ==
  ASSUME MailInv, UNCHANGED vars
  PROVE  MailInv'
<1>1. /\ up' = up /\ box' = box /\ lastSeq' = lastSeq /\ sock' = sock /\ items' = items /\ answers' = answers
      /\ conn' = conn /\ opened' = opened /\ held' = held /\ looked' = looked /\ log' = log
      /\ accepted' = accepted /\ ended' = ended
  BY DEF vars, phoneVars, linkVars, relayVars, wires, sessionVars, chatVars, history
<1>2. Posted' = Posted
  BY <1>1 DEF Posted
<1>3. Typed' /\ NumbersAgree' /\ NeverLost'
  BY <1>1, <1>2 DEF MailInv, Typed, NumbersAgree, NeverLost, RowsOf
<1>4. ItemsAgree'
  BY <1>1 DEF MailInv, ItemsAgree, InHand
<1>5. AcksCover'
  BY <1>1, <1>2 DEF MailInv, AcksCover
<1> QED BY <1>3, <1>4, <1>5 DEF MailInv

LEMMA MailInvAlways == Spec => []MailInv
<1>1. MailInv /\ [Next]_vars => MailInv'
  BY MailInvStep, MailInvStutter
<1> QED BY <1>1, MailInvInit, PTL DEF Spec

\* What the relay accepts (cloud/src/relay.ts, mboxPut) and no one takes back, refuses or lets expire
\* is still in the mailbox or has been posted, for any messages and limits, however often connections
\* are replaced, acknowledgements are lost and items are delivered again, and whether or not the relay
\* handles events during a presence write and "send" calls exclude each other.
THEOREM AcceptedStays == Spec => []NeverLost
<1>1. MailInv => NeverLost
  BY DEF MailInv
<1> QED BY <1>1, MailInvAlways, PTL

-----------------------------------------------------------------------------
(* With "send" calls one at a time, nothing is posted twice. *)

\* What is posted wasn't there, and nothing is between the lookup of its nonce and the new entry.
LEMMA ExclusiveMoves ==
  ASSUME Exclusive, Typed, looked = {}, Next
  PROVE  /\ looked' = {}
         /\ \/ log' = log
            \/ \E m \in Message, seq \in Nat : m \notin Posted /\ Entry(m, seq)
<1> DEFINE Goal == looked' = {} /\ (log' = log \/ \E m \in Message, seq \in Nat : m \notin Posted /\ Entry(m, seq))
<1>1. ASSUME NEW e, InHand(e), StartDelivery(e) PROVE Goal
  <2>1. e.msg \in Message /\ e.seq \in Nat
    BY <1>1, InHandTyped DEF MailItem
  <2> QED BY <1>1, <2>1 DEF StartDelivery, Known
<1>2. CASE ReadItem
  <2>1. conn \in Conn /\ items[conn] # <<>>
    BY <1>2 DEF ReadItem, Typed, Conn
  <2>2. Head(items[conn]) \in Elems(items[conn])
    BY <2>1, ElemsOfTail DEF Typed
  <2>3. InHand(Head(items[conn]))
    BY <2>1, <2>2 DEF InHand
  <2>4. StartDelivery(Head(items[conn])) \/ (looked' = looked /\ log' = log)
    BY <1>2 DEF ReadItem
  <2> QED BY <2>3, <2>4, <1>1
<1>3. CASE DeliverHeld
  <2>1. InHand(held) /\ StartDelivery(held)
    BY <1>3 DEF DeliverHeld, InHand
  <2> QED BY <2>1, <1>1
<1>4. ASSUME NEW m \in Message, TakeCall(m) PROVE Goal
  <2>1. looked' = looked /\ (log' = log \/ (m \notin Posted /\ Entry(m, 0)))
    BY <1>4 DEF TakeCall, Known
  <2> QED BY <2>1
<1>5. CASE \/ RelayStep \/ PhoneStep
           \/ \E c \in Conn : Connect(c)
           \/ \E pulled \in BOOLEAN : Open(pulled)
           \/ Pull \/ CutOff
  <2>1. looked' \subseteq looked /\ log' = log
    BY <1>5 DEF RelayStep, Replace, Accept, Closed, Ignored, OnReady, Announced, OnAck, Expire, OnPut, OnCancel, OnList,
                PhoneStep, LinkUp, AskList, CatchUp, Connect, Open, Pull, CutOff, chatVars
  <2> QED BY <2>1
<1>6. CASE \/ \E m \in Message : Enqueue(m) \/ SendDirect(m) \/ CancelQueued(m) \/ PutExpires(m) \/ CallFails(m)
           \/ \E c \in Conn : RetireSilent(c)
           \/ \E r \in box : Ages(r)
           \/ LinkDrops \/ DeleteBot
  <2>1. looked' = looked /\ log' = log
    BY <1>6 DEF Enqueue, SendDirect, CancelQueued, PutExpires, CallFails, RetireSilent, Ages, LinkDrops, DeleteBot,
                chatVars
  <2> QED BY <2>1
<1>7. Goal
  BY <1>2, <1>3, <1>4, <1>5, <1>6 DEF Next, HostStep, UserOrFault, Noticed, Cut
<1> QED BY <1>7

LEMMA PostedOnceStep ==
  ASSUME Exclusive, Typed, looked = {}, PostedOnce, Next
  PROVE  looked' = {} /\ PostedOnce'
<1>1. looked' = {}
  BY ExclusiveMoves
<1>2. ASSUME log' = log PROVE PostedOnce'
  BY <1>2 DEF PostedOnce
<1>3. ASSUME NEW m \in Message, NEW seq \in Nat, m \notin Posted, Entry(m, seq) PROVE PostedOnce'
  <2>1. log \in Seq(MailItem) /\ Len(log) \in Nat
    BY DEF Typed
  <2>2. /\ Len(log') = Len(log) + 1 /\ log'[Len(log) + 1].msg = m
        /\ \A i \in 1..Len(log) : log'[i] = log[i]
    BY <1>3, <2>1, EntryAdds
  <2>3. \A i \in 1..Len(log) : log[i].msg # m
    BY <1>3 DEF Posted
  <2>4. ASSUME NEW i \in 1..Len(log'), NEW j \in 1..Len(log'), log'[i].msg = log'[j].msg PROVE i = j
    <3>1. (i \in 1..Len(log) \/ i = Len(log) + 1) /\ (j \in 1..Len(log) \/ j = Len(log) + 1)
      BY <2>1, <2>2
    <3> QED BY <2>2, <2>3, <2>4, <3>1 DEF PostedOnce
  <2> QED BY <2>4 DEF PostedOnce
<1> QED BY <1>1, <1>2, <1>3, ExclusiveMoves

\* A message has one place in the chat, for any messages and limits, however often it is put, resent
\* and delivered again, as long as "send" calls look a nonce up and post one at a time
\* (host/src/api/bots.rs, "send"; see the run `race` for what happens otherwise).
THEOREM NoDuplicates == Exclusive => (Spec => []PostedOnce)
<1> SUFFICES ASSUME Exclusive PROVE Spec => []PostedOnce
  OBVIOUS
<1>1. Init => looked = {} /\ PostedOnce
  BY DEF Init, PostedOnce
<1>2. MailInv /\ looked = {} /\ PostedOnce /\ [Next]_vars => (looked = {} /\ PostedOnce)'
  <2>1. ASSUME UNCHANGED vars, looked = {}, PostedOnce PROVE (looked = {} /\ PostedOnce)'
    BY <2>1 DEF vars, chatVars, PostedOnce
  <2> QED BY <2>1, PostedOnceStep DEF MailInv
<1> QED BY <1>1, <1>2, MailInvAlways, PTL DEF Spec

-----------------------------------------------------------------------------
(* With relay events one at a time, mail under way is at a host that is online. *)

AnnouncingOnline == \A c \in Conn : sock[c].announcing = TRUE => Attached(c) /\ sock[c].ready = TRUE

LEMMA AnnouncingInit == Init => AnnouncingOnline /\ UnderWayAtHost
  BY DEF Init, AnnouncingOnline, UnderWayAtHost, UnderWay

LEMMA RequeuedNotUnderWay ==
  ASSUME box \subseteq MailRow
  PROVE  UnderWay(Requeued(box)) = {}
<1>1. \A r \in MailRow : [r EXCEPT !.state = "queued"].state = "queued"
  BY DEF MailRow
<1>2. ASSUME NEW q \in Requeued(box) PROVE q.state = "queued"
  <2>1. PICK r \in box : q = [r EXCEPT !.state = "queued"]
    BY DEF Requeued
  <2> QED BY <2>1, <1>1
<1> QED BY <1>2 DEF UnderWay

\* The sockets stay, and nothing goes out unless a host is online.
LEMMA SocketsStay ==
  ASSUME AnnouncingOnline, UnderWayAtHost, sock' = sock, Online \/ UnderWay(box') = {} \/ UnderWay(box) # {}
  PROVE  AnnouncingOnline' /\ UnderWayAtHost'
<1>1. Online' = Online
  BY DEF Online, Attached
<1> QED BY <1>1 DEF AnnouncingOnline, UnderWayAtHost, Attached

LEMMA UnderWayStep ==
  ASSUME ~Overlaps, Typed, AnnouncingOnline, UnderWayAtHost, Next
  PROVE  AnnouncingOnline' /\ UnderWayAtHost'
<1>t. box \subseteq MailRow /\ sock \in [Conn -> Socket] /\ \A c \in Conn : sock[c] \in Socket
  BY DEF Typed
<1>f. Free => \A c \in Conn : sock[c].announcing = FALSE
  BY <1>t DEF Free, Socket
<1>r. UnderWay(Requeued(box)) = {}
  BY <1>t, RequeuedNotUnderWay
<1>e. \A x \in Socket : /\ \A at \in {"none", "knocking", "accepting", "open", "closed"} :
                             /\ [x EXCEPT !.at = at].announcing = x.announcing
                             /\ [x EXCEPT !.at = at].ready = x.ready
                             /\ [x EXCEPT !.at = at].retired = x.retired
                             /\ [x EXCEPT !.at = at].at = at
                        /\ [x EXCEPT !.ready = FALSE, !.retired = TRUE].announcing = x.announcing
  BY DEF Socket
<1>1. ASSUME NEW c \in Conn, Replace(c) PROVE AnnouncingOnline' /\ UnderWayAtHost'
  <2>1. /\ sock' = [d \in Conn |-> IF d = c THEN [sock[c] EXCEPT !.at = "accepting"]
                                   ELSE IF Attached(d) THEN [sock[d] EXCEPT !.ready = FALSE, !.retired = TRUE]
                                   ELSE sock[d]]
        /\ Free /\ box' = IF Online THEN Requeued(box) ELSE box
    BY <1>1 DEF Replace
  <2>2. ASSUME NEW d \in Conn PROVE sock'[d].announcing = FALSE
    <3>1. sock'[d] = [sock[c] EXCEPT !.at = "accepting"] \/ sock'[d] = sock[d]
          \/ sock'[d] = [sock[d] EXCEPT !.ready = FALSE, !.retired = TRUE]
      BY <2>1
    <3>2. sock[c].announcing = FALSE /\ sock[d].announcing = FALSE
      BY <2>1, <1>f
    <3>3. /\ [sock[c] EXCEPT !.at = "accepting"].announcing = sock[c].announcing
          /\ [sock[d] EXCEPT !.ready = FALSE, !.retired = TRUE].announcing = sock[d].announcing
      BY <1>t DEF Socket
    <3> QED BY <3>1, <3>2, <3>3
  <2>3. UnderWay(box') = {}
    BY <2>1, <1>r DEF UnderWayAtHost
  <2> QED BY <2>2, <2>3 DEF AnnouncingOnline, UnderWayAtHost
<1>2. ASSUME NEW c \in Conn, RetireSilent(c) \/ Closed(c) PROVE AnnouncingOnline' /\ UnderWayAtHost'
  <2>1. PICK x \in Socket : sock' = [sock EXCEPT ![c] = x] /\ x.announcing = sock[c].announcing
    <3>1. CASE RetireSilent(c)
      <4>1. sock' = [sock EXCEPT ![c] = [sock[c] EXCEPT !.ready = FALSE, !.retired = TRUE]]
        BY <3>1, <1>t DEF RetireSilent
      <4>2. [sock[c] EXCEPT !.ready = FALSE, !.retired = TRUE] \in Socket
        BY <1>t DEF Socket
      <4> QED BY <4>1, <4>2, <1>t, <1>e
    <3>2. CASE Closed(c)
      <4>1. sock' = [sock EXCEPT ![c] = [sock[c] EXCEPT !.at = "closed"]]
        BY <3>2 DEF Closed
      <4>2. [sock[c] EXCEPT !.at = "closed"] \in Socket
        BY <1>t DEF Socket
      <4> QED BY <4>1, <4>2, <1>t, <1>e
    <3> QED BY <1>2, <3>1, <3>2
  <2>2. Free /\ box' = IF Attached(c) /\ sock[c].ready THEN Requeued(box) ELSE box
    BY <1>2 DEF RetireSilent, Closed
  <2>3. \A d \in Conn : sock'[d].announcing = FALSE
    BY <2>1, <2>2, <1>t, <1>f
  <2>4. CASE Attached(c) /\ sock[c].ready
    BY <2>2, <2>3, <2>4, <1>r DEF AnnouncingOnline, UnderWayAtHost
  <2>5. CASE ~(Attached(c) /\ sock[c].ready)
    <3>1. box' = box
      BY <2>2, <2>5
    <3>2. Online => Online'
      BY <2>1, <2>5, <1>t DEF Online, Attached
    <3> QED BY <2>3, <3>1, <3>2 DEF AnnouncingOnline, UnderWayAtHost
  <2> QED BY <2>4, <2>5
<1>3. ASSUME NEW c \in Conn, Connect(c) \/ Accept(c) PROVE AnnouncingOnline' /\ UnderWayAtHost'
  <2>1. PICK at \in {"knocking", "open"} : sock' = [sock EXCEPT ![c] = [sock[c] EXCEPT !.at = at]]
    BY <1>3, <1>t DEF Connect, Accept
  <2>2. sock[c].at # "open" /\ box' = box
    BY <1>3 DEF Connect, Accept
  <2>3. sock[c].announcing = FALSE
    BY <2>2, <1>t DEF AnnouncingOnline, Attached, Socket
  <2>4. PICK x \in Socket : sock' = [sock EXCEPT ![c] = x] /\ x.announcing = FALSE
    <3> DEFINE new == [sock[c] EXCEPT !.at = at]
    <3>1. new \in Socket /\ new.announcing = sock[c].announcing
      BY <1>t DEF Socket
    <3>2. sock' = [sock EXCEPT ![c] = new]
      BY <2>1
    <3> HIDE DEF new
    <3> QED BY <2>3, <3>1, <3>2
  <2>5. \A d \in Conn : d # c => sock'[d] = sock[d]
    BY <2>4, <1>t
  <2>6. sock'[c].announcing = FALSE
    BY <2>4, <1>t
  <2>7. Online => Online'
    BY <2>2, <2>5 DEF Online, Attached
  <2> QED BY <2>2, <2>5, <2>6, <2>7 DEF AnnouncingOnline, UnderWayAtHost, Attached
<1>4. ASSUME NEW c \in Conn, OnReady(c) PROVE AnnouncingOnline' /\ UnderWayAtHost'
  <2>1. /\ sock' = [sock EXCEPT ![c] = [sock[c] EXCEPT !.ready = TRUE, !.announcing = TRUE]]
        /\ Attached(c)
    BY <1>4, <1>t DEF OnReady
  <2>2. PICK x \in Socket : /\ sock' = [sock EXCEPT ![c] = x] /\ x.ready = TRUE /\ x.at = "open" /\ x.retired = FALSE
    <3> DEFINE new == [sock[c] EXCEPT !.ready = TRUE, !.announcing = TRUE]
    <3>1. new \in Socket /\ new.ready = TRUE /\ new.at = sock[c].at /\ new.retired = sock[c].retired
      BY <1>t DEF Socket
    <3>2. sock[c].at = "open" /\ sock[c].retired = FALSE /\ sock' = [sock EXCEPT ![c] = new]
      BY <2>1, <1>t DEF Attached, Socket
    <3> HIDE DEF new
    <3> QED BY <3>1, <3>2
  <2>3. sock'[c].ready = TRUE /\ sock'[c].at = "open" /\ sock'[c].retired = FALSE
        /\ \A d \in Conn : d # c => sock'[d] = sock[d]
    BY <2>2, <1>t
  <2>4. AnnouncingOnline'
    BY <2>3 DEF AnnouncingOnline, Attached
  <2>5. Online'
    BY <2>3 DEF Online, Attached
  <2> QED BY <2>4, <2>5 DEF UnderWayAtHost
<1>5. ASSUME NEW c \in Conn, Announced(c) PROVE AnnouncingOnline' /\ UnderWayAtHost'
  <2>1. sock' = [sock EXCEPT ![c] = [sock[c] EXCEPT !.announcing = FALSE]] /\ sock[c].announcing = TRUE
    BY <1>5, <1>t DEF Announced, Socket
  <2>2. sock[c].ready = TRUE /\ sock[c].at = "open" /\ sock[c].retired = FALSE
    BY <2>1, <1>t DEF AnnouncingOnline, Attached, Socket
  <2>3. PICK x \in Socket : /\ sock' = [sock EXCEPT ![c] = x] /\ x.ready = TRUE /\ x.at = "open" /\ x.retired = FALSE
    <3> DEFINE new == [sock[c] EXCEPT !.announcing = FALSE]
    <3>1. new \in Socket /\ new.ready = sock[c].ready /\ new.at = sock[c].at /\ new.retired = sock[c].retired
      BY <1>t DEF Socket
    <3>2. sock' = [sock EXCEPT ![c] = new]
      BY <2>1
    <3> HIDE DEF new
    <3> QED BY <2>2, <3>1, <3>2
  <2>4. sock'[c].ready = TRUE /\ sock'[c].at = "open" /\ sock'[c].retired = FALSE
        /\ \A d \in Conn : d # c => sock'[d] = sock[d]
    BY <2>3, <1>t
  <2>5. AnnouncingOnline'
    BY <2>4 DEF AnnouncingOnline, Attached
  <2>6. Online'
    BY <2>4 DEF Online, Attached
  <2> QED BY <2>5, <2>6 DEF UnderWayAtHost
<1>6. ASSUME NEW c \in Conn, OnAck(c) PROVE AnnouncingOnline' /\ UnderWayAtHost'
  <2> DEFINE done == {r \in UnderWay(box) : r.seq = Head(answers[c]).seq}
  <2>1. sock' = sock /\ Attached(c) /\ (sock[c].ready \/ box' = box \ done)
    BY <1>6 DEF OnAck, relayVars
  <2>2. CASE sock[c].ready
    BY <2>1, <2>2, SocketsStay DEF Online
  <2>3. CASE box' = box \ done
    <3>1. UnderWay(box') \subseteq UnderWay(box)
      BY <2>3 DEF UnderWay
    <3> QED BY <2>1, <3>1, SocketsStay
  <2> QED BY <2>1, <2>2, <2>3
<1>7. ASSUME NEW r \in box, Ages(r) \/ Expire(r) PROVE AnnouncingOnline' /\ UnderWayAtHost'
  <2>1. sock' = sock
    BY <1>7 DEF Ages, Expire
  <2>2. UnderWay(box') # {} => UnderWay(box) # {}
    <3>1. [r EXCEPT !.old = TRUE].state = r.state
      BY <1>t DEF MailRow
    <3>2. box' \subseteq box \cup {[r EXCEPT !.old = TRUE]}
      BY <1>7 DEF Ages, Expire
    <3> QED BY <3>1, <3>2 DEF UnderWay
  <2> QED BY <2>1, <2>2, SocketsStay
<1>8. CASE OnPut \/ OnCancel
  <2>1. sock' = sock
    BY <1>8 DEF OnPut, OnCancel
  <2>2. UnderWay(box') \subseteq UnderWay(box)
    <3>1. ASSUME NEW q \in box' PROVE q \in box \/ q.state = "queued"
      BY <1>8 DEF OnPut, OnCancel
    <3> QED BY <3>1 DEF UnderWay
  <2> QED BY <2>1, <2>2, SocketsStay
<1>9. CASE \/ \E c \in Conn : Ignored(c)
           \/ OnList \/ PhoneStep
           \/ \E pulled \in BOOLEAN : Open(pulled)
           \/ Pull \/ ReadItem \/ DeliverHeld \/ CutOff
           \/ \E m \in Message : TakeCall(m)
           \/ \E e \in looked : Post(e)
  <2>1. sock' = sock /\ box' = box
    BY <1>9 DEF Ignored, OnList, PhoneStep, LinkUp, AskList, CatchUp, Open, Pull, ReadItem, DeliverHeld, CutOff,
                TakeCall, Post, relayVars
  <2> QED BY <2>1, SocketsStay
<1>10. CASE \/ \E m \in Message : Enqueue(m) \/ SendDirect(m) \/ CancelQueued(m) \/ PutExpires(m) \/ CallFails(m)
            \/ LinkDrops \/ DeleteBot
  <2>1. sock' = sock /\ box' = box
    BY <1>10 DEF Enqueue, SendDirect, CancelQueued, PutExpires, CallFails, LinkDrops, DeleteBot, relayVars
  <2> QED BY <2>1, SocketsStay
<1> QED
  BY <1>1, <1>2, <1>3, <1>4, <1>5, <1>6, <1>7, <1>8, <1>9, <1>10
  DEF Next, RelayStep, HostStep, UserOrFault, Noticed, Cut

\* Mail is under way only while a host is online, so it can't be stuck with none: as long as the relay
\* handles no event between a handler's decision and its presence write (cloud/src/relay.ts, onHost
\* "ready" and acceptHost; see the run `stuck` for what happens otherwise).
THEOREM NothingStuck == ~Overlaps => (Spec => []UnderWayAtHost)
<1> SUFFICES ASSUME ~Overlaps PROVE Spec => []UnderWayAtHost
  OBVIOUS
<1>1. MailInv /\ AnnouncingOnline /\ UnderWayAtHost /\ [Next]_vars => (AnnouncingOnline /\ UnderWayAtHost)'
  <2>1. ASSUME UNCHANGED vars, AnnouncingOnline, UnderWayAtHost PROVE (AnnouncingOnline /\ UnderWayAtHost)'
    <3>1. sock' = sock /\ box' = box
      BY <2>1 DEF vars, relayVars
    <3> QED BY <2>1, <3>1, SocketsStay
  <2> QED BY <2>1, UnderWayStep DEF MailInv
<1> QED BY <1>1, AnnouncingInit, MailInvAlways, PTL DEF Spec

-----------------------------------------------------------------------------
(* What comes out of the mailbox comes in order. *)

\* A connection has one turn: `ready` on its way or being announced, or an item on its way, held or
\* about to be posted, or the acknowledgement on its way back.
Announcing(c) == IF sock[c].announcing = TRUE THEN 1 ELSE 0
Kept == IF held # NoItem THEN 1 ELSE 0
Posting == IF LoopFree THEN 0 ELSE 1
Holding(c) == IF conn = c THEN Kept + Posting ELSE 0
Turn(c) == Len(items[c]) + Len(answers[c]) + Announcing(c) + Holding(c)
Unused(c) == sock[c].at = "none" \/ (conn = c /\ opened # TRUE)
Turns == \A c \in Conn : Turn(c) <= 1 /\ (Unused(c) => Turn(c) = 0)
\* The session posts one item at a time, and none without a connection.
PostsOne == (\A e, f \in looked : e.seq # 0 /\ f.seq # 0 => e = f) /\ (conn = 0 => LoopFree)

LEMMA HoldingIs ==
  ASSUME NEW c \in Conn
  PROVE  /\ Holding(c) \in Nat /\ Holding(c)' \in Nat /\ Kept \in {0, 1} /\ Kept' \in {0, 1} /\ Posting \in {0, 1} /\ Posting' \in {0, 1}
         /\ conn = c => Holding(c) = Kept + Posting
         /\ conn # c => Holding(c) = 0
         /\ conn' = c => Holding(c)' = Kept' + Posting'
         /\ conn' # c => Holding(c)' = 0
         /\ Kept = 0 <=> held = NoItem
         /\ Kept' = 0 <=> held' = NoItem
         /\ Posting = 0 <=> LoopFree
         /\ Posting' = 0 <=> LoopFree'
<1>1. /\ Kept \in {0, 1} /\ Kept' \in {0, 1} /\ Posting \in {0, 1} /\ Posting' \in {0, 1}
      /\ Kept = 0 <=> held = NoItem
      /\ Kept' = 0 <=> held' = NoItem
      /\ Posting = 0 <=> LoopFree
      /\ Posting' = 0 <=> LoopFree'
  BY DEF Kept, Posting
<1>2. /\ conn = c => Holding(c) = Kept + Posting
      /\ conn # c => Holding(c) = 0
      /\ conn' = c => Holding(c)' = Kept' + Posting'
      /\ conn' # c => Holding(c)' = 0
  BY Zenon DEF Holding
<1> HIDE DEF Kept, Posting, Holding
<1> QED
  BY <1>1, <1>2

\* The mail the session posts is the same, or less.
LEMMA HoldingStays ==
  ASSUME NEW c \in Conn, conn' \in {conn, 0}, held' \in {held, NoItem}, \A e \in looked' : e \in looked \/ e.seq = 0
  PROVE  Holding(c)' <= Holding(c)
<1>1. 0 \notin Conn
  BY DEF Conn
<1>2. LoopFree => LoopFree'
  BY DEF LoopFree
<1>3. Kept' <= Kept /\ Posting' <= Posting
  <2>1. (Kept = 0 => Kept' = 0) /\ (Posting = 0 => Posting' = 0)
    BY <1>2, HoldingIs
  <2> QED
    BY <2>1, HoldingIs
<1> QED
  BY <1>1, <1>3, HoldingIs

LEMMA Lengths ==
  ASSUME Typed
  PROVE  \A c \in Conn : /\ Len(items[c]) \in Nat /\ Len(answers[c]) \in Nat
                         /\ items[c] \in Seq(MailItem) /\ answers[c] \in Seq(Word)
<1>1. \A c \in Conn : items[c] \in Seq(MailItem) /\ answers[c] \in Seq(Word)
  BY DEF Typed
<1> QED BY <1>1

LEMMA LengthOf ==
  ASSUME NEW S, NEW s \in Seq(S)
  PROVE  /\ \A x \in S : Append(s, x) \in Seq(S) /\ Len(Append(s, x)) = Len(s) + 1
         /\ s # <<>> => Tail(s) \in Seq(S) /\ Len(Tail(s)) = Len(s) - 1 /\ Len(s) > 0
         /\ \A n \in 0..Len(s) : SubSeq(s, 1, n) \in Seq(S) /\ Len(SubSeq(s, 1, n)) <= Len(s)
         /\ Len(s) = 0 => s = <<>>
  OBVIOUS

LEMMA TurnIsNat ==
  ASSUME Typed, Typed'
  PROVE  \A c \in Conn : Turn(c) \in Nat /\ Turn(c)' \in Nat
<1> SUFFICES ASSUME NEW c \in Conn PROVE Turn(c) \in Nat /\ Turn(c)' \in Nat
  OBVIOUS
<1>1. \A i, a, n, h \in Nat : i + a + n + h \in Nat
  OBVIOUS
<1>2. /\ Len(items[c]) \in Nat /\ Len(answers[c]) \in Nat
      /\ Len(items'[c]) \in Nat /\ Len(answers'[c]) \in Nat
  <2>1. items[c] \in Seq(MailItem) /\ answers[c] \in Seq(Word) /\ items'[c] \in Seq(MailItem) /\ answers'[c] \in Seq(Word)
    BY DEF Typed
  <2> QED BY <2>1
<1>3. Announcing(c) \in Nat /\ Holding(c) \in Nat /\ Announcing(c)' \in Nat /\ Holding(c)' \in Nat
  BY HoldingIs DEF Announcing
<1> QED BY <1>1, <1>2, <1>3, Zenon DEF Turn

LEMMA TailOfOne ==
  ASSUME NEW S, NEW s \in Seq(S), s # <<>>, Len(s) <= 1
  PROVE  Tail(s) = <<>>
  OBVIOUS

\* No turn is longer than before, and none is begun by a connection that isn't used yet.
LEMMA TurnsShrink ==
  ASSUME Typed, Typed', Turns,
         \A c \in Conn : Turn(c)' <= Turn(c) /\ (Unused(c)' => Unused(c) \/ Turn(c)' = 0)
  PROVE  Turns'
<1>1. \A c \in Conn : Turn(c) \in Nat /\ Turn(c)' \in Nat
  BY TurnIsNat
<1> HIDE DEF Turn, Unused
<1> QED BY <1>1 DEF Turns

\* A turn changes hands: what one part of it gains, another has lost.
LEMMA TurnPasses ==
  ASSUME Typed, Typed', NEW c \in Conn
  PROVE  LET KeepsItems == Len(items'[c]) <= Len(items[c])
             LosesItem == Len(items'[c]) < Len(items[c])
             GetsItem == Len(items'[c]) <= Len(items[c]) + 1
             KeepsAnswers == Len(answers'[c]) <= Len(answers[c])
             LosesAnswer == Len(answers'[c]) < Len(answers[c])
             GetsAnswer == Len(answers'[c]) <= Len(answers[c]) + 1
             StillAnnouncing == Announcing(c)' <= Announcing(c)
             StillHolding == Holding(c)' <= Holding(c)
         IN  \/ KeepsItems /\ KeepsAnswers /\ StillAnnouncing /\ StillHolding
             \/ KeepsItems /\ LosesAnswer /\ Announcing(c)' <= Announcing(c) + 1 /\ StillHolding
             \/ GetsItem /\ KeepsAnswers /\ Announcing(c)' < Announcing(c) /\ StillHolding
             \/ GetsItem /\ LosesAnswer /\ StillAnnouncing /\ StillHolding
             \/ LosesItem /\ GetsAnswer /\ StillAnnouncing /\ StillHolding
             \/ LosesItem /\ KeepsAnswers /\ StillAnnouncing /\ Holding(c)' <= Holding(c) + 1
             \/ KeepsItems /\ GetsAnswer /\ StillAnnouncing /\ Holding(c)' < Holding(c)
             => Turn(c)' <= Turn(c)
<1> DEFINE i1 == Len(items[c])
           i2 == Len(items'[c])
           a1 == Len(answers[c])
           a2 == Len(answers'[c])
           n1 == Announcing(c)
           n2 == Announcing(c)'
           h1 == Holding(c)
           h2 == Holding(c)'
<1>1. i1 \in Nat /\ i2 \in Nat /\ a1 \in Nat /\ a2 \in Nat
  <2>1. items[c] \in Seq(MailItem) /\ answers[c] \in Seq(Word) /\ items'[c] \in Seq(MailItem) /\ answers'[c] \in Seq(Word)
    BY DEF Typed
  <2> QED BY <2>1
<1>2. n1 \in Nat /\ n2 \in Nat /\ h1 \in Nat /\ h2 \in Nat
  BY HoldingIs DEF Announcing
<1>3. Turn(c) = i1 + a1 + n1 + h1 /\ Turn(c)' = i2 + a2 + n2 + h2
  BY Zenon DEF Turn
<1> HIDE DEF i1, i2, a1, a2, n1, n2, h1, h2
<1>4. \/ i2 <= i1 /\ a2 <= a1 /\ n2 <= n1 /\ h2 <= h1
      \/ i2 <= i1 /\ a2 < a1 /\ n2 <= n1 + 1 /\ h2 <= h1
      \/ i2 <= i1 + 1 /\ a2 <= a1 /\ n2 < n1 /\ h2 <= h1
      \/ i2 <= i1 + 1 /\ a2 < a1 /\ n2 <= n1 /\ h2 <= h1
      \/ i2 < i1 /\ a2 <= a1 + 1 /\ n2 <= n1 /\ h2 <= h1
      \/ i2 < i1 /\ a2 <= a1 /\ n2 <= n1 /\ h2 <= h1 + 1
      \/ i2 <= i1 /\ a2 <= a1 + 1 /\ n2 <= n1 /\ h2 < h1
      => Turn(c)' <= Turn(c)
  BY <1>1, <1>2, <1>3
<1> QED BY <1>4, Zenon DEF i1, i2, a1, a2, n1, n2, h1, h2

LEMMA TurnsStay ==
  ASSUME Typed, Typed', Turns, items' = items, answers' = answers, conn' = conn, held' = held, opened' = opened,
         \A e \in looked' : e \in looked \/ e.seq = 0,
         \A c \in Conn : /\ sock'[c].announcing = sock[c].announcing
                         /\ sock'[c].at = "none" => sock[c].at = "none"
  PROVE  Turns'
<1>1. ASSUME NEW c \in Conn PROVE Turn(c)' <= Turn(c) /\ (Unused(c)' => Unused(c) \/ Turn(c)' = 0)
  <2>1. Len(items'[c]) <= Len(items[c]) /\ Len(answers'[c]) <= Len(answers[c])
    BY Lengths
  <2>2. Announcing(c)' <= Announcing(c)
    BY DEF Announcing
  <2>3. Turn(c)' <= Turn(c)
    BY <2>1, <2>2, HoldingStays, TurnPasses, Zenon
  <2>4. Unused(c)' => Unused(c)
    BY DEF Unused
  <2> QED BY <2>3, <2>4
<1> QED BY <1>1, TurnsShrink

LEMMA PartsOfTurn ==
  ASSUME NEW c \in Conn
  PROVE  /\ Announcing(c) \in Nat /\ Holding(c) \in Nat
         /\ sock[c].announcing = TRUE => Announcing(c) # 0
         /\ sock[c].announcing # TRUE => Announcing(c) = 0
         /\ conn = c /\ ~(held = NoItem /\ LoopFree) => Holding(c) # 0
         /\ conn # c \/ (held = NoItem /\ LoopFree) => Holding(c) = 0
         /\ conn = c /\ Holding(c) <= 1 => held = NoItem \/ LoopFree
<1>1. Announcing(c) \in Nat /\ Holding(c) \in Nat
  BY HoldingIs DEF Announcing
<1>2. sock[c].announcing = TRUE => Announcing(c) # 0
  <2>1. sock[c].announcing = TRUE => Announcing(c) = 1
    BY Zenon DEF Announcing
  <2> HIDE DEF Announcing
  <2> QED BY <2>1
<1>3. sock[c].announcing # TRUE => Announcing(c) = 0
  BY Zenon DEF Announcing
<1>4. /\ conn = c /\ ~(held = NoItem /\ LoopFree) => Holding(c) # 0
      /\ conn # c \/ (held = NoItem /\ LoopFree) => Holding(c) = 0
      /\ conn = c /\ Holding(c) <= 1 => held = NoItem \/ LoopFree
  BY HoldingIs
<1> QED BY <1>1, <1>2, <1>3, <1>4, Zenon

\* A turn of none.
LEMMA NoTurn ==
  ASSUME Typed, NEW c \in Conn
  PROVE  Turn(c) = 0 <=> /\ items[c] = <<>> /\ answers[c] = <<>> /\ sock[c].announcing # TRUE
                         /\ conn = c => held = NoItem /\ LoopFree
<1>2. /\ Len(items[c]) \in Nat /\ Len(answers[c]) \in Nat
      /\ Len(items[c]) = 0 <=> items[c] = <<>>
      /\ Len(answers[c]) = 0 <=> answers[c] = <<>>
  BY Lengths, LengthOf
<1>3. /\ Announcing(c) \in Nat /\ Holding(c) \in Nat
      /\ sock[c].announcing = TRUE => Announcing(c) # 0
      /\ sock[c].announcing # TRUE => Announcing(c) = 0
      /\ conn = c /\ ~(held = NoItem /\ LoopFree) => Holding(c) # 0
      /\ conn # c \/ (held = NoItem /\ LoopFree) => Holding(c) = 0
  BY PartsOfTurn, Zenon
<1> HIDE DEF Announcing, Holding
<1>4. Turn(c) = 0 <=> Len(items[c]) = 0 /\ Len(answers[c]) = 0 /\ Announcing(c) = 0 /\ Holding(c) = 0
  <2> DEFINE i == Len(items[c])
             a == Len(answers[c])
             n == Announcing(c)
             h == Holding(c)
  <2>1. i \in Nat /\ a \in Nat /\ n \in Nat /\ h \in Nat
    BY <1>2, <1>3
  <2>2. Turn(c) = i + a + n + h
    BY Zenon DEF Turn
  <2> HIDE DEF i, a, n, h
  <2>3. Turn(c) = 0 <=> i = 0 /\ a = 0 /\ n = 0 /\ h = 0
    BY <2>1, <2>2
  <2> QED BY <2>3 DEF i, a, n, h
<1> QED BY <1>2, <1>3, <1>4, Zenon

\* One part of a turn is all of it.
LEMMA OneTurn ==
  ASSUME Typed, Turns, NEW c \in Conn
  PROVE  /\ Len(items[c]) <= 1 /\ Len(answers[c]) <= 1
         /\ items[c] # <<>> => answers[c] = <<>> /\ sock[c].announcing # TRUE /\ (conn = c => held = NoItem /\ LoopFree)
         /\ answers[c] # <<>> => items[c] = <<>> /\ sock[c].announcing # TRUE /\ (conn = c => held = NoItem /\ LoopFree)
         /\ sock[c].announcing = TRUE => items[c] = <<>> /\ answers[c] = <<>> /\ (conn = c => held = NoItem /\ LoopFree)
         /\ conn = c /\ ~(held = NoItem /\ LoopFree) => items[c] = <<>> /\ answers[c] = <<>> /\ sock[c].announcing # TRUE
         /\ conn = c => held = NoItem \/ LoopFree
<1>1. \A i, a, n, h \in Nat : i + a + n + h <= 1 => /\ i <= 1 /\ a <= 1 /\ h <= 1
                                                    /\ i # 0 => a = 0 /\ n = 0 /\ h = 0
                                                    /\ a # 0 => i = 0 /\ n = 0 /\ h = 0
                                                    /\ n # 0 => i = 0 /\ a = 0 /\ h = 0
                                                    /\ h # 0 => i = 0 /\ a = 0 /\ n = 0
  OBVIOUS
<1>2. /\ Len(items[c]) \in Nat /\ Len(answers[c]) \in Nat
      /\ Len(items[c]) = 0 <=> items[c] = <<>>
      /\ Len(answers[c]) = 0 <=> answers[c] = <<>>
  BY Lengths, LengthOf
<1>3. /\ Announcing(c) \in Nat /\ Holding(c) \in Nat
      /\ sock[c].announcing = TRUE => Announcing(c) # 0
      /\ sock[c].announcing # TRUE => Announcing(c) = 0
      /\ conn = c /\ ~(held = NoItem /\ LoopFree) => Holding(c) # 0
      /\ conn # c \/ (held = NoItem /\ LoopFree) => Holding(c) = 0
      /\ conn = c /\ Holding(c) <= 1 => held = NoItem \/ LoopFree
  BY PartsOfTurn, Zenon
<1> HIDE DEF Announcing, Holding
<1>4. Len(items[c]) + Len(answers[c]) + Announcing(c) + Holding(c) <= 1
  BY Zenon DEF Turns, Turn
<1> DEFINE i == Len(items[c])
           a == Len(answers[c])
           n == Announcing(c)
           h == Holding(c)
<1>5. /\ i <= 1 /\ a <= 1 /\ h <= 1
      /\ i # 0 => a = 0 /\ n = 0 /\ h = 0
      /\ a # 0 => i = 0 /\ n = 0 /\ h = 0
      /\ n # 0 => i = 0 /\ a = 0 /\ h = 0
      /\ h # 0 => i = 0 /\ a = 0 /\ n = 0
  <2>1. i \in Nat /\ a \in Nat /\ n \in Nat /\ h \in Nat /\ i + a + n + h <= 1
    BY <1>2, <1>3, <1>4
  <2> HIDE DEF i, a, n, h
  <2> QED BY <2>1
<1> QED BY <1>2, <1>3, <1>5, Zenon

LEMMA TurnSame ==
  ASSUME Typed, Typed', NEW c \in Conn, items'[c] = items[c], answers'[c] = answers[c],
         sock'[c].announcing = sock[c].announcing,
         conn' = c => conn = c /\ held' \in {held, NoItem} /\ \A e \in looked' : e \in looked \/ e.seq = 0
  PROVE  Turn(c)' <= Turn(c)
<1>1. Announcing(c)' = Announcing(c) /\ Announcing(c) \in Nat /\ Holding(c)' <= Holding(c)
  <2>1. CASE conn' = c
    BY <2>1, HoldingStays DEF Announcing
  <2>2. CASE conn' # c
    BY <2>2, HoldingIs DEF Announcing
  <2> QED
    BY <2>1, <2>2
<1>2. Len(items'[c]) <= Len(items[c]) /\ Len(answers'[c]) <= Len(answers[c])
  BY Lengths
<1>3. Announcing(c)' <= Announcing(c) /\ Holding(c)' <= Holding(c)
  BY <1>1
<1> QED BY <1>2, <1>3, TurnPasses, Zenon

\* An item is acknowledged, or about to be posted.
LEMMA DeliveryTurns ==
  ASSUME Typed, conn \in Conn, NEW e \in MailItem, StartDelivery(e)
  PROVE  /\ \A d \in Conn : d # conn => answers'[d] = answers[d]
         /\ \/ Len(answers'[conn]) = Len(answers[conn]) + 1 /\ looked' = looked
            \/ answers' = answers
<1>1. CASE answers' = answers
  BY <1>1
<1>2. CASE answers' # answers
  <2>1. looked' = looked /\ \E ok \in BOOLEAN : Ack(e.seq, ok)
    BY <1>2 DEF StartDelivery
  <2>2. PICK ok \in BOOLEAN : Ack(e.seq, ok)
    BY <2>1
  <2> DEFINE a == [t |-> "ack", seq |-> e.seq, ok |-> ok]
  <2>3. a \in Word
    BY DEF Word, MailItem
  <2>4. answers' = [answers EXCEPT ![conn] = Append(@, a)]
    BY <2>2 DEF Ack, Answer
  <2> HIDE DEF a
  <2>5. answers \in [Conn -> Seq(Word)] /\ answers[conn] \in Seq(Word)
    BY DEF Typed
  <2>6. Len(Append(answers[conn], a)) = Len(answers[conn]) + 1
    BY <2>3, <2>5
  <2> QED BY <2>1, <2>4, <2>5, <2>6
<1> QED BY <1>1, <1>2

LEMMA TurnsStep ==
  ASSUME Typed, Typed', PostsOne, Turns, Next
  PROVE  Turns'
<1>t. /\ sock \in [Conn -> Socket] /\ \A c \in Conn : sock[c] \in Socket
      /\ items \in [Conn -> Seq(MailItem)] /\ answers \in [Conn -> Seq(Word)]
  BY DEF Typed
<1>l. \A c \in Conn : /\ Len(items[c]) \in Nat /\ Len(answers[c]) \in Nat
                      /\ items[c] \in Seq(MailItem) /\ answers[c] \in Seq(Word)
  BY Lengths
<1>p. \A c \in Conn : Announcing(c) \in Nat /\ Announcing(c)' \in {0, 1} /\ Holding(c) \in Nat /\ Holding(c)' \in Nat
  BY HoldingIs DEF Announcing
<1>1. ASSUME NEW c \in Conn, Connect(c) PROVE Turns'
  <2>1. /\ conn' = c /\ held' = NoItem /\ items' = items /\ answers' = answers /\ sock[c].at = "none" /\ conn = 0 /\ looked' = looked
        /\ sock' = [sock EXCEPT ![c] = [sock[c] EXCEPT !.at = "knocking"]]
    BY <1>1, <1>t DEF Connect, wires, chatVars
  <2>2. [sock[c] EXCEPT !.at = "knocking"].announcing = sock[c].announcing
    BY <1>t DEF Socket
  <2>3. \A d \in Conn : sock'[d].announcing = sock[d].announcing /\ (d # c => sock'[d] = sock[d])
    BY <2>1, <2>2, <1>t
  <2>4. ASSUME NEW d \in Conn PROVE Turn(d)' <= Turn(d) /\ (Unused(d)' => Unused(d) \/ Turn(d)' = 0)
    <3>1. Turn(d)' <= Turn(d)
      <4>1. Announcing(d)' <= Announcing(d)
        BY <2>3, <1>p DEF Announcing
      <4>2. Holding(d)' <= Holding(d)
        <5>1. LoopFree'
          BY <2>1 DEF PostsOne, LoopFree
        <5> QED
          BY <2>1, <5>1, <1>p, HoldingIs
      <4>3. Len(items'[d]) <= Len(items[d]) /\ Len(answers'[d]) <= Len(answers[d])
        BY <2>1, <1>l
      <4> QED BY <4>1, <4>2, <4>3, TurnPasses, Zenon
    <3>2. Unused(d)' => Unused(d)
      BY <2>1, <2>3 DEF Unused
    <3> QED BY <3>1, <3>2
  <2> QED BY <2>4, TurnsShrink
<1>2. ASSUME NEW c \in Conn, Replace(c) \/ Accept(c) \/ Closed(c) \/ RetireSilent(c) PROVE Turns'
  <2>1. items' = items /\ answers' = answers /\ conn' = conn /\ held' = held /\ opened' = opened
    BY <1>2 DEF Replace, Accept, Closed, RetireSilent, wires, sessionVars
  <2>l. looked' = looked
    BY <1>2 DEF Replace, Accept, Closed, RetireSilent, chatVars
  <2>2. ASSUME NEW d \in Conn PROVE sock'[d].announcing = sock[d].announcing /\ (sock'[d].at = "none" => sock[d].at = "none")
    <3>1. \/ sock'[d] = sock[d]
          \/ \E at \in {"accepting", "open", "closed"} : sock'[d] = [sock[d] EXCEPT !.at = at]
          \/ sock'[d] = [sock[d] EXCEPT !.ready = FALSE, !.retired = TRUE]
      <4>1. CASE Replace(c)
        BY <4>1 DEF Replace
      <4>2. CASE Accept(c)
        BY <4>2, <1>t DEF Accept
      <4>3. CASE Closed(c)
        BY <4>3, <1>t DEF Closed
      <4>4. CASE RetireSilent(c)
        <5>1. sock' = [sock EXCEPT ![c] = [sock[c] EXCEPT !.ready = FALSE, !.retired = TRUE]]
          BY <4>4, <1>t DEF RetireSilent
        <5> QED BY <5>1, <1>t
      <4> QED BY <1>2, <4>1, <4>2, <4>3, <4>4
    <3>2. /\ \A at \in {"accepting", "open", "closed"} : /\ [sock[d] EXCEPT !.at = at].announcing = sock[d].announcing
                                                         /\ [sock[d] EXCEPT !.at = at].at # "none"
          /\ [sock[d] EXCEPT !.ready = FALSE, !.retired = TRUE].announcing = sock[d].announcing
          /\ [sock[d] EXCEPT !.ready = FALSE, !.retired = TRUE].at = sock[d].at
      BY <1>t DEF Socket
    <3> QED BY <3>1, <3>2
  <2> QED BY <2>1, <2>2, <2>l, TurnsStay
<1>3. ASSUME NEW c \in Conn, OnReady(c) \/ Announced(c) PROVE Turns'
  <2>1. conn' = conn /\ held' = held /\ opened' = opened /\ looked' = looked
    BY <1>3 DEF OnReady, Announced, sessionVars, chatVars
  <2>2. \A d \in Conn : sock'[d].at = sock[d].at /\ (d # c => sock'[d] = sock[d])
    <3>1. \/ sock' = [sock EXCEPT ![c] = [sock[c] EXCEPT !.ready = TRUE, !.announcing = TRUE]]
          \/ sock' = [sock EXCEPT ![c] = [sock[c] EXCEPT !.announcing = FALSE]]
      BY <1>3, <1>t DEF OnReady, Announced
    <3>2. /\ [sock[c] EXCEPT !.ready = TRUE, !.announcing = TRUE].at = sock[c].at
          /\ [sock[c] EXCEPT !.announcing = FALSE].at = sock[c].at
      BY <1>t DEF Socket
    <3> QED BY <3>1, <3>2, <1>t
  <2>3. ASSUME NEW d \in Conn, d # c PROVE Turn(d)' <= Turn(d)
    <3>1. answers'[d] = answers[d]
      BY <1>3, <2>3, <1>t DEF OnReady, Announced
    <3>2. items'[d] = items[d]
      <4>1. items' = items \/ items' = [items EXCEPT ![c] = Append(@, [seq |-> NextRow(box).seq, msg |-> NextRow(box).msg])]
        BY <1>3 DEF OnReady, Announced, Deliver
      <4> QED BY <4>1, <2>3, <1>t
    <3> QED BY <3>1, <3>2, <2>1, <2>2, <2>3, TurnSame
  <2>4. Turn(c)' <= Turn(c)
    <3>0. Holding(c)' <= Holding(c)
      BY <2>1, HoldingStays
    <3>1. CASE OnReady(c)
      <4>1. Len(answers'[c]) < Len(answers[c]) /\ Len(items'[c]) <= Len(items[c])
        <5>1. answers'[c] = Tail(answers[c]) /\ answers[c] # <<>> /\ items' = items
          BY <3>1, <1>t DEF OnReady
        <5>2. Len(Tail(answers[c])) = Len(answers[c]) - 1
          BY <5>1, <1>l, LengthOf
        <5> QED BY <5>1, <5>2, <1>l
      <4>2. Announcing(c)' <= Announcing(c) + 1
        BY <1>p
      <4> QED BY <3>0, <4>1, <4>2, TurnPasses, Zenon
    <3>2. CASE Announced(c)
      <4>1. Len(items'[c]) <= Len(items[c]) + 1 /\ Len(answers'[c]) <= Len(answers[c])
        <5>1. (Deliver(c, box) \/ items' = items) /\ answers' = answers /\ box \in SUBSET MailRow
          BY <3>2 DEF Announced, Typed
        <5>2. CASE Deliver(c, box)
          <6>1. \A d \in Conn : Len(items'[d]) <= IF d = c THEN Len(items[c]) + 1 ELSE Len(items[d])
            BY <5>1, <5>2, <1>t, DeliverKeeps
          <6>2. Len(items'[c]) <= Len(items[c]) + 1
            BY <6>1
          <6> QED BY <5>1, <6>2, <1>l
        <5>3. CASE items' = items
          BY <5>1, <5>3, <1>l
        <5> QED BY <5>1, <5>2, <5>3
      <4>2. Announcing(c)' < Announcing(c)
        <5>1. [sock[c] EXCEPT !.announcing = FALSE].announcing = FALSE
          BY <1>t DEF Socket
        <5>2. sock[c].announcing = TRUE /\ sock'[c].announcing = FALSE
          BY <3>2, <5>1, <1>t DEF Announced, Socket
        <5>3. Announcing(c) = 1 /\ Announcing(c)' = 0
          BY <5>2 DEF Announcing
        <5> QED BY <5>3
      <4> QED BY <3>0, <4>1, <4>2, TurnPasses, Zenon
    <3> QED BY <1>3, <3>1, <3>2
  <2>5. \A d \in Conn : Unused(d)' => Unused(d)
    BY <2>1, <2>2 DEF Unused
  <2> QED BY <2>3, <2>4, <2>5, TurnsShrink
<1>4. ASSUME NEW c \in Conn, OnAck(c) \/ Ignored(c) PROVE Turns'
  <2>1. /\ conn' = conn /\ held' = held /\ opened' = opened /\ sock' = sock /\ looked' = looked
        /\ answers' = [answers EXCEPT ![c] = Tail(@)] /\ answers[c] # <<>>
    BY <1>4 DEF OnAck, Ignored, sessionVars, relayVars, chatVars
  <2>2. PICK rows \in SUBSET MailRow : Deliver(c, rows) \/ items' = items
    <3> DEFINE rest == box \ {r \in UnderWay(box) : r.seq = Head(answers[c]).seq}
    <3>1. rest \in SUBSET MailRow /\ (Deliver(c, rest) \/ items' = items)
      BY <1>4 DEF OnAck, Ignored, Typed
    <3> QED BY <3>1
  <2>3. \A d \in Conn : Len(items'[d]) <= IF d = c THEN Len(items[c]) + 1 ELSE Len(items[d])
    <3>1. CASE Deliver(c, rows)
      BY <3>1, <1>t, DeliverKeeps
    <3>2. CASE items' = items
      BY <3>2, <1>l
    <3> QED BY <2>2, <3>1, <3>2
  <2>4. ASSUME NEW d \in Conn PROVE Turn(d)' <= Turn(d)
    <3>1. Announcing(d)' <= Announcing(d) /\ Holding(d)' <= Holding(d)
      BY <2>1, <1>p, HoldingStays DEF Announcing
    <3>2. CASE d = c
      <4>1. Len(answers'[d]) < Len(answers[d])
        <5>1. answers'[c] = Tail(answers[c]) /\ Len(Tail(answers[c])) = Len(answers[c]) - 1
          BY <2>1, <1>t, <1>l, LengthOf
        <5>2. Len(answers'[c]) < Len(answers[c])
          BY <5>1, <1>l
        <5> QED BY <5>2, <3>2
      <4>2. Len(items'[d]) <= Len(items[d]) + 1
        BY <2>3, <3>2
      <4> QED BY <3>1, <4>1, <4>2, TurnPasses, Zenon
    <3>3. CASE d # c
      <4>1. Len(answers'[d]) <= Len(answers[d])
        BY <2>1, <3>3, <1>t, <1>l
      <4>2. Len(items'[d]) <= Len(items[d])
        BY <2>3, <3>3, <1>l
      <4> QED BY <3>1, <4>1, <4>2, TurnPasses, Zenon
    <3> QED BY <3>2, <3>3
  <2>5. \A d \in Conn : Unused(d)' => Unused(d)
    BY <2>1 DEF Unused
  <2> QED BY <2>4, <2>5, TurnsShrink
<1>5. ASSUME NEW pulled \in BOOLEAN, Open(pulled) PROVE Turns'
  <2>1. /\ conn \in Conn /\ conn' = conn /\ held' = held /\ opened' = TRUE /\ items' = items /\ sock' = sock
        /\ sock[conn].at = "open" /\ Answer([t |-> "ready"]) /\ looked' = looked
    BY <1>5 DEF Open, Typed, Conn, relayVars, chatVars
  <2>u. opened # TRUE
    BY <1>5, Zenon DEF Open
  <2>0. PICK c \in Conn : c = conn
    BY <2>1
  <2>2. /\ answers'[c] = Append(answers[c], [t |-> "ready"])
        /\ \A d \in Conn : d # c => answers'[d] = answers[d]
    BY <2>0, <2>1, <1>t DEF Answer
  <2>3. Turn(c)' <= 1
    <3>1. Turn(c) = 0
      BY <2>0, <2>1, <2>u, Zenon DEF Turns, Unused
    <3>2. items[c] = <<>> /\ answers[c] = <<>> /\ sock[c].announcing # TRUE /\ held = NoItem /\ LoopFree
      BY <2>0, <2>1, <3>1, NoTurn
    <3>h. Kept' = 0 /\ Posting' = 0
      BY <2>1, <3>2 DEF Kept, Posting, LoopFree
    <3>3. items'[c] = <<>> /\ Announcing(c)' = 0 /\ Holding(c)' = 0
      <4>1. items'[c] = <<>> /\ Announcing(c)' = 0
        BY <2>1, <3>2 DEF Announcing
      <4>2. Holding(c)' = 0
        BY <2>0, <2>1, <3>h, HoldingIs
      <4> QED BY <4>1, <4>2
    <3>4. [t |-> "ready"] \in Word
      BY DEF Word
    <3>5. Len(items'[c]) = 0 /\ Len(answers'[c]) = 1
      BY <2>2, <3>2, <3>3, <3>4
    <3>6. Turn(c)' = 0 + 1 + 0 + 0
      BY <2>0, <2>1, <3>3, <3>5, Zenon DEF Turn
    <3> HIDE DEF Turn
    <3> QED BY <3>6
  <2>4. ASSUME NEW d \in Conn, d # c PROVE Turn(d)' <= Turn(d)
    BY <2>0, <2>1, <2>2, <2>4, TurnSame
  <2>5. ASSUME NEW d \in Conn, Unused(d)' PROVE Unused(d) /\ d # c
    BY <2>0, <2>1, <2>5 DEF Unused
  <2>6. ASSUME NEW d \in Conn PROVE Turn(d)' <= 1 /\ (Unused(d)' => Turn(d)' = 0)
    <3>1. Turn(d) \in Nat /\ Turn(d)' \in Nat
      BY TurnIsNat
    <3>2. Turn(d) <= 1 /\ (Unused(d) => Turn(d) = 0)
      BY DEF Turns
    <3>3. CASE d = c
      BY <2>3, <2>5, <3>3, Zenon
    <3>4. CASE d # c
      <4>1. Turn(d)' <= Turn(d) /\ (Unused(d)' => Unused(d))
        BY <2>4, <2>5, <3>4, Zenon
      <4> HIDE DEF Turn, Unused
      <4> QED BY <4>1, <3>1, <3>2
    <3> QED BY <3>3, <3>4
  <2> QED BY <2>6 DEF Turns
<1>6. CASE ReadItem
  <2>1. /\ conn \in Conn /\ items[conn] # <<>> /\ conn' = conn /\ opened' = opened /\ sock' = sock /\ LoopFree
        /\ items' = [items EXCEPT ![conn] = Tail(@)]
    BY <1>6 DEF ReadItem, Typed, Conn, relayVars
  <2>0. PICK c \in Conn : c = conn
    BY <2>1
  <2>2. Head(items[c]) \in MailItem /\ Len(Tail(items[c])) = Len(items[c]) - 1
    BY <2>0, <2>1, <1>l, ElemsOfTail, LengthOf
  <2>3. Len(items'[c]) < Len(items[c]) /\ Announcing(c)' <= Announcing(c)
    BY <2>0, <2>1, <2>2, <1>t, <1>l, <1>p DEF Announcing
  <2>4. \A d \in Conn : Unused(d)' => Unused(d)
    BY <2>0, <2>1 DEF Unused
  <2>f. Posting = 0
    BY <2>1, HoldingIs
  <2>5. CASE StartDelivery(Head(items[c])) /\ held' = held
    <3>1. /\ \A d \in Conn : d # c => answers'[d] = answers[d]
          /\ \/ Len(answers'[c]) = Len(answers[c]) + 1 /\ looked' = looked
             \/ answers' = answers
      BY <2>0, <2>1, <2>2, <2>5, DeliveryTurns
    <3>2. \A d \in Conn : d # c => Turn(d)' <= Turn(d)
      BY <2>0, <2>1, <2>5, <3>1, <1>t, TurnSame
    <3>k. Kept' = Kept
      BY <2>5 DEF Kept
    <3>3. ASSUME Len(answers'[c]) = Len(answers[c]) + 1, looked' = looked PROVE Turn(c)' <= Turn(c)
      <4>1. Len(answers'[c]) <= Len(answers[c]) + 1 /\ Holding(c)' <= Holding(c)
        BY <2>1, <2>5, <3>3, <1>l, HoldingStays
      <4> QED BY <2>0, <2>1, <2>3, <4>1, TurnPasses, Zenon
    <3>4. ASSUME answers' = answers PROVE Turn(c)' <= Turn(c)
      <4>1. Len(answers'[c]) <= Len(answers[c]) /\ Holding(c)' <= Holding(c) + 1
        BY <2>0, <2>1, <2>f, <3>4, <3>k, <1>l, HoldingIs
      <4> QED BY <2>0, <2>1, <2>3, <4>1, TurnPasses, Zenon
    <3>5. \A d \in Conn : Turn(d)' <= Turn(d) /\ (Unused(d)' => Unused(d) \/ Turn(d)' = 0)
      BY <3>1, <3>2, <3>3, <3>4, <2>4, Zenon
    <3> QED BY <3>5, TurnsShrink
  <2>6. CASE held' = Head(items[c]) /\ answers' = answers /\ looked' = looked
    <3>1. \A d \in Conn : d # c => Turn(d)' <= Turn(d)
      BY <2>0, <2>1, <2>6, <1>t, TurnSame
    <3>p. Posting' = Posting
      BY <2>6 DEF Posting, LoopFree
    <3>2. Len(answers'[c]) <= Len(answers[c]) /\ Holding(c)' <= Holding(c) + 1
      BY <2>0, <2>1, <2>6, <3>p, <1>l, HoldingIs
    <3>3. Turn(c)' <= Turn(c)
      BY <2>0, <2>1, <2>3, <3>2, TurnPasses, Zenon
    <3>5. \A d \in Conn : Turn(d)' <= Turn(d) /\ (Unused(d)' => Unused(d) \/ Turn(d)' = 0)
      BY <3>1, <3>3, <2>4, Zenon
    <3> QED BY <3>5, TurnsShrink
  <2> QED BY <1>6, <2>0, <2>5, <2>6 DEF ReadItem
<1>7. CASE DeliverHeld
  <2>1. /\ conn \in Conn /\ held # NoItem /\ held \in MailItem /\ held' = NoItem /\ StartDelivery(held)
        /\ conn' = conn /\ opened' = opened /\ sock' = sock /\ items' = items /\ LoopFree
    BY <1>7 DEF DeliverHeld, Typed, Conn, relayVars
  <2>0. PICK c \in Conn : c = conn
    BY <2>1
  <2>2. /\ \A d \in Conn : d # c => answers'[d] = answers[d]
        /\ \/ Len(answers'[c]) = Len(answers[c]) + 1 /\ looked' = looked
           \/ answers' = answers
    BY <2>0, <2>1, DeliveryTurns
  <2>3. \A d \in Conn : d # c => Turn(d)' <= Turn(d)
    BY <2>0, <2>1, <2>2, TurnSame
  <2>h. Kept = 1 /\ Kept' = 0 /\ Posting = 0 /\ Announcing(c)' <= Announcing(c) /\ Len(items'[c]) <= Len(items[c])
    BY <2>1, <1>l, <1>p, HoldingIs DEF Announcing
  <2>4. ASSUME Len(answers'[c]) = Len(answers[c]) + 1, looked' = looked PROVE Turn(c)' <= Turn(c)
    <3>1. Posting' = 0
      BY <2>1, <2>4 DEF Posting, LoopFree
    <3>2. Len(answers'[c]) <= Len(answers[c]) + 1 /\ Holding(c)' < Holding(c)
      BY <2>0, <2>1, <2>4, <2>h, <3>1, <1>l, HoldingIs
    <3> QED BY <2>0, <2>h, <3>2, TurnPasses, Zenon
  <2>5. ASSUME answers' = answers PROVE Turn(c)' <= Turn(c)
    <3>1. Len(answers'[c]) <= Len(answers[c]) /\ Holding(c)' <= Holding(c)
      BY <2>0, <2>1, <2>5, <2>h, <1>l, HoldingIs
    <3> QED BY <2>0, <2>h, <3>1, TurnPasses, Zenon
  <2>6. \A d \in Conn : Unused(d)' => Unused(d)
    BY <2>0, <2>1 DEF Unused
  <2>7. \A d \in Conn : Turn(d)' <= Turn(d) /\ (Unused(d)' => Unused(d) \/ Turn(d)' = 0)
    BY <2>2, <2>3, <2>4, <2>5, <2>6, Zenon
  <2> QED BY <2>7, TurnsShrink
<1>8. CASE CutOff
  <2>1. /\ conn' = 0 /\ held' = NoItem /\ sock' = sock /\ items' = [items EXCEPT ![conn] = <<>>] /\ looked' \subseteq looked
        /\ \E n \in 0..Len(answers[conn]) : answers' = [answers EXCEPT ![conn] = SubSeq(@, 1, n)]
    BY <1>8 DEF CutOff, relayVars
  <2>2. PICK n \in 0..Len(answers[conn]) : answers' = [answers EXCEPT ![conn] = SubSeq(@, 1, n)]
    BY <2>1
  <2>3. ASSUME NEW d \in Conn PROVE Turn(d)' <= Turn(d)
    <3>1. Holding(d)' <= Holding(d) /\ Announcing(d)' <= Announcing(d)
      BY <2>1, <1>p, HoldingStays DEF Announcing
    <3>2. Len(items'[d]) <= Len(items[d]) /\ Len(answers'[d]) <= Len(answers[d])
      <4>1. CASE d = conn
        <5>1. items'[d] = <<>> /\ answers'[d] = SubSeq(answers[d], 1, n)
          BY <2>1, <2>2, <4>1, <1>t
        <5>2. Len(SubSeq(answers[d], 1, n)) <= Len(answers[d])
          BY <2>2, <4>1, <1>l, LengthOf
        <5> QED BY <5>1, <5>2, <1>l
      <4>2. CASE d # conn
        BY <2>1, <2>2, <4>2, <1>t, <1>l
      <4> QED BY <4>1, <4>2
    <3> QED BY <3>1, <3>2, TurnPasses, Zenon
  <2>4. \A d \in Conn : Unused(d)' => Unused(d)
    <3>1. 0 \notin Conn
      BY DEF Conn
    <3> QED BY <2>1, <3>1, Zenon DEF Unused
  <2> QED BY <2>3, <2>4, TurnsShrink
<1>9. CASE \/ \E r \in box : Expire(r)
           \/ OnPut \/ OnCancel \/ OnList \/ PhoneStep
           \/ Pull
  <2>1. items' = items /\ answers' = answers /\ conn' = conn /\ held' = held /\ opened' = opened /\ sock' = sock /\ looked' = looked
    BY <1>9 DEF Expire, OnPut, OnCancel, OnList, PhoneStep, LinkUp, AskList, CatchUp, Pull,
                wires, sessionVars, relayVars, chatVars
  <2> QED BY <2>1, TurnsStay
<1>10. CASE \/ \E m \in Message : Enqueue(m) \/ SendDirect(m) \/ CancelQueued(m) \/ PutExpires(m) \/ CallFails(m)
            \/ \E r \in box : Ages(r)
            \/ LinkDrops \/ DeleteBot
  <2>1. items' = items /\ answers' = answers /\ conn' = conn /\ held' = held /\ opened' = opened /\ sock' = sock /\ looked' = looked
    BY <1>10 DEF Enqueue, SendDirect, CancelQueued, PutExpires, CallFails, Ages, LinkDrops, DeleteBot,
                 wires, sessionVars, relayVars, chatVars
  <2> QED BY <2>1, TurnsStay
<1>11. ASSUME NEW m \in Message, TakeCall(m) PROVE Turns'
  <2>1. items' = items /\ answers' = answers /\ conn' = conn /\ held' = held /\ opened' = opened /\ sock' = sock
    BY <1>11 DEF TakeCall, wires, sessionVars, relayVars
  <2>2. looked' = looked \/ looked' = looked \cup {[seq |-> 0, msg |-> m]}
    BY <1>11 DEF TakeCall
  <2> QED BY <2>1, <2>2, TurnsStay
<1>12. ASSUME NEW e \in looked, Post(e) PROVE Turns'
  <2>1. items' = items /\ conn' = conn /\ held' = held /\ opened' = opened /\ sock' = sock /\ looked' = looked \ {e}
    BY <1>12 DEF Post, sessionVars, relayVars
  <2>2. CASE e.seq = 0
    <3>1. answers' = answers
      BY <1>12, <2>2 DEF Post
    <3> QED BY <2>1, <3>1, TurnsStay
  <2>3. CASE e.seq # 0
    <3>1. conn # 0 /\ ~LoopFree /\ LoopFree'
      BY <2>1, <2>3 DEF PostsOne, LoopFree
    <3>0. PICK c \in Conn : c = conn
      BY <3>1 DEF Typed, Conn
    <3>2. Holding(c)' < Holding(c)
      <4>1. Kept' = Kept /\ Posting = 1 /\ Posting' = 0
        BY <2>1, <3>1 DEF Kept, Posting
      <4> QED BY <2>1, <3>0, <4>1, HoldingIs
    <3>3. /\ answers'[c] = Append(answers[c], [t |-> "ack", seq |-> e.seq, ok |-> TRUE])
          /\ \A d \in Conn : d # c => answers'[d] = answers[d]
      BY <1>12, <2>3, <3>0, <1>t DEF Post, Ack, Answer
    <3>4. Len(answers'[c]) <= Len(answers[c]) + 1
      <4>1. [t |-> "ack", seq |-> e.seq, ok |-> TRUE] \in Word
        BY DEF Word, Typed, MailItem
      <4>2. Len(answers'[c]) = Len(answers[c]) + 1
        BY <3>3, <4>1, <1>l, LengthOf
      <4> QED BY <4>2, <1>l
    <3>5. Turn(c)' <= Turn(c)
      <4>1. Announcing(c)' <= Announcing(c) /\ Len(items'[c]) <= Len(items[c])
        BY <2>1, <1>l, <1>p DEF Announcing
      <4> QED BY <3>2, <3>4, <4>1, TurnPasses, Zenon
    <3>6. \A d \in Conn : d # c => Turn(d)' <= Turn(d)
      BY <2>1, <3>0, <3>3, TurnSame
    <3>7. \A d \in Conn : Unused(d)' => Unused(d)
      BY <2>1 DEF Unused
    <3>8. \A d \in Conn : Turn(d)' <= Turn(d) /\ (Unused(d)' => Unused(d) \/ Turn(d)' = 0)
      BY <3>5, <3>6, <3>7, Zenon
    <3> QED BY <3>8, TurnsShrink
  <2> QED BY <2>2, <2>3
<1> QED
  BY <1>1, <1>2, <1>3, <1>4, <1>5, <1>6, <1>7, <1>8, <1>9, <1>10, <1>11, <1>12
  DEF Next, RelayStep, HostStep, UserOrFault, Noticed, Cut

\* What the connected host has yet to post: at most one item.
Hand(e) == conn \in Conn /\ (e \in Elems(items[conn]) \/ (held # NoItem /\ e = held))
\* The rows before an item have had their 24 hours, so they are not sent any more.
OldBelow(e, rows) == \A r \in rows : r.seq < e.seq => r.old = TRUE
\* An entry of the chat is not from the mailbox, or from before an item, or from the item itself.
NotAfter(x, e) == x.seq # 0 => x.seq < e.seq \/ (x.seq = e.seq /\ x.msg = e.msg)

PostedMail == \A i \in 1..Len(log) : log[i].seq # 0 => Agrees(log[i], box, lastSeq) /\ OldBelow(log[i], box)
HandNext == \A e \in MailItem : Hand(e) => OldBelow(e, box) /\ \A i \in 1..Len(log) : NotAfter(log[i], e)
OrderInv == looked = {} /\ Turns /\ PostedMail /\ HandNext /\ MailInOrder

\* What is in hand was so before, or has just gone out.
LEMMA HandMoves ==
  ASSUME Exclusive, Typed, looked = {}, Turns, Next
  PROVE  \A e \in MailItem : Hand(e)' => Hand(e) \/ IsNext(e, box, box')
<1>0. ItemsStep
  BY ItemsMove
<1>1. ASSUME conn' = conn, held' \in {held, NoItem} PROVE \A e \in MailItem : Hand(e)' => Hand(e) \/ IsNext(e, box, box')
  BY <1>0, <1>1 DEF ItemsStep, Hand
<1>2. ASSUME NEW c \in Conn, Connect(c) PROVE \A e \in MailItem : ~Hand(e)'
  <2>1. conn' = c /\ held' = NoItem /\ items' = items /\ Unused(c)
    BY <1>2 DEF Connect, wires, Unused
  <2>2. Turn(c) = 0
    BY <2>1, Zenon DEF Turns
  <2>3. items[c] = <<>>
    BY <2>2, NoTurn
  <2> QED BY <2>1, <2>3, ElemsOfEmpty DEF Hand
<1>3. ASSUME CutOff PROVE \A e \in MailItem : ~Hand(e)'
  <2>1. conn' = 0 /\ 0 \notin Conn
    BY <1>3 DEF CutOff, Conn
  <2> QED BY <2>1 DEF Hand
<1>4. CASE ReadItem
  <2>1. conn \in Conn /\ items[conn] # <<>> /\ conn' = conn /\ (held' = held \/ held' = Head(items[conn]))
    BY <1>4 DEF ReadItem, Typed, Conn
  <2>2. Head(items[conn]) \in Elems(items[conn])
    BY <2>1, ElemsOfTail DEF Typed
  <2> QED BY <1>0, <2>1, <2>2 DEF ItemsStep, Hand
<1>5. CASE \/ RelayStep \/ PhoneStep
           \/ \E pulled \in BOOLEAN : Open(pulled)
           \/ Pull \/ DeliverHeld
           \/ \E m \in Message : TakeCall(m)
  <2>1. conn' = conn /\ held' \in {held, NoItem}
    BY <1>5 DEF RelayStep, Replace, Accept, Closed, Ignored, OnReady, Announced, OnAck, Expire, OnPut, OnCancel, OnList,
                PhoneStep, LinkUp, AskList, CatchUp, Open, Pull, DeliverHeld, TakeCall, sessionVars
  <2> QED BY <2>1, <1>1
<1>6. CASE \/ \E m \in Message : Enqueue(m) \/ SendDirect(m) \/ CancelQueued(m) \/ PutExpires(m) \/ CallFails(m)
           \/ \E c \in Conn : RetireSilent(c)
           \/ \E r \in box : Ages(r)
           \/ LinkDrops \/ DeleteBot
  <2>1. conn' = conn /\ held' \in {held, NoItem}
    BY <1>6 DEF Enqueue, SendDirect, CancelQueued, PutExpires, CallFails, RetireSilent, Ages, LinkDrops, DeleteBot,
                sessionVars
  <2> QED BY <2>1, <1>1
<1> QED BY <1>2, <1>3, <1>4, <1>5, <1>6 DEF Next, HostStep, UserOrFault, Noticed, Cut

\* Posting what is in hand leaves nothing in hand.
EntryOfHand(e) == Hand(e) /\ e.msg \notin Posted /\ Entry(e.msg, e.seq) /\ \A f \in MailItem : ~Hand(f)'

LEMMA OrderMoves ==
  ASSUME Exclusive, Typed, looked = {}, Turns, Next
  PROVE  \/ log' = log
         \/ \E m \in Message : Entry(m, 0)
         \/ \E e \in MailItem : EntryOfHand(e)
<1> DEFINE Goal == log' = log \/ (\E m \in Message : Entry(m, 0)) \/ (\E e \in MailItem : EntryOfHand(e))
<1>1. CASE ReadItem
  <2>1. /\ conn \in Conn /\ items[conn] # <<>> /\ conn' = conn
        /\ items' = [items EXCEPT ![conn] = Tail(@)]
    BY <1>1 DEF ReadItem, Typed, Conn
  <2>2. CASE log' = log
    BY <2>2
  <2>3. CASE log' # log
    <3> DEFINE e == Head(items[conn])
    <3>1. StartDelivery(e) /\ held' = held /\ e.msg \notin Posted /\ Entry(e.msg, e.seq)
      BY <1>1, <2>3 DEF ReadItem, StartDelivery, Known
    <3>2. items[conn] \in Seq(MailItem) /\ e \in MailItem /\ e \in Elems(items[conn])
      BY <2>1, ElemsOfTail, Lengths
    <3>3. held = NoItem /\ Len(items[conn]) <= 1
      BY <2>1, OneTurn
    <3>4. items'[conn] = <<>>
      <4>1. Tail(items[conn]) = <<>>
        BY <2>1, <3>2, <3>3, TailOfOne
      <4> QED BY <2>1, <4>1 DEF Typed
    <3> HIDE DEF e
    <3>5. \A f \in MailItem : ~Hand(f)'
      BY <2>1, <3>1, <3>3, <3>4, ElemsOfEmpty DEF Hand
    <3> QED BY <2>1, <3>1, <3>2, <3>5 DEF EntryOfHand, Hand
  <2> QED BY <2>2, <2>3
<1>2. CASE DeliverHeld
  <2>1. conn \in Conn /\ held # NoItem /\ held' = NoItem /\ StartDelivery(held) /\ conn' = conn /\ items' = items
    BY <1>2 DEF DeliverHeld, Typed, Conn
  <2>2. items[conn] = <<>> /\ held \in MailItem
    BY <2>1, OneTurn DEF Typed
  <2>3. \A f \in MailItem : ~Hand(f)'
    BY <2>1, <2>2, ElemsOfEmpty DEF Hand
  <2>4. log' = log \/ (held.msg \notin Posted /\ Entry(held.msg, held.seq))
    BY <2>1 DEF StartDelivery, Known
  <2> QED BY <2>1, <2>2, <2>3, <2>4 DEF EntryOfHand, Hand
<1>3. ASSUME NEW m \in Message, TakeCall(m) PROVE Goal
  BY <1>3 DEF TakeCall
<1>4. CASE \/ RelayStep \/ PhoneStep
           \/ \E c \in Conn : Connect(c)
           \/ \E pulled \in BOOLEAN : Open(pulled)
           \/ Pull \/ CutOff
  BY <1>4 DEF RelayStep, Replace, Accept, Closed, Ignored, OnReady, Announced, OnAck, Expire, OnPut, OnCancel, OnList,
              PhoneStep, LinkUp, AskList, CatchUp, Connect, Open, Pull, CutOff, chatVars
<1>5. CASE \/ \E m \in Message : Enqueue(m) \/ SendDirect(m) \/ CancelQueued(m) \/ PutExpires(m) \/ CallFails(m)
           \/ \E c \in Conn : RetireSilent(c)
           \/ \E r \in box : Ages(r)
           \/ LinkDrops \/ DeleteBot
  BY <1>5 DEF Enqueue, SendDirect, CancelQueued, PutExpires, CallFails, RetireSilent, Ages, LinkDrops, DeleteBot, chatVars
<1>6. Goal
  BY <1>1, <1>2, <1>3, <1>4, <1>5 DEF Next, HostStep, UserOrFault, Noticed, Cut
<1> QED BY <1>6

LEMMA OldStays ==
  ASSUME Typed, BoxStep, NEW e \in MailItem, Agrees(e, box, lastSeq), OldBelow(e, box)
  PROVE  OldBelow(e, box')
<1>1. e.seq \in Nat /\ e.seq <= lastSeq /\ lastSeq \in Nat
  BY DEF MailItem, Agrees, Typed
<1>2. CASE lastSeq' = lastSeq /\ KeptRows(box, box')
  BY <1>2 DEF OldBelow, KeptRows, Same
<1>3. CASE lastSeq' = lastSeq + 1 /\ \E row : row.seq = lastSeq + 1 /\ \A q \in box' : q \in box \/ q = row
  BY <1>1, <1>3 DEF OldBelow
<1> QED BY <1>2, <1>3 DEF BoxStep

LEMMA OrderStep ==
  ASSUME Exclusive, MailInv, MailInv', OrderInv, Next
  PROVE  OrderInv'
<1>1. Typed /\ Typed' /\ looked = {} /\ Turns /\ BoxStep
  BY RelayMoves DEF MailInv, OrderInv
<1>t. /\ log \in Seq(MailItem) /\ log' \in Seq(MailItem) /\ Len(log) \in Nat /\ Len(log') \in Nat
      /\ \A i \in 1..Len(log) : log[i] \in MailItem
      /\ \A i \in 1..Len(log') : log'[i] \in MailItem
  <2>1. log \in Seq(MailItem) /\ log' \in Seq(MailItem)
    BY <1>1 DEF Typed
  <2> QED BY <2>1
<1>2. looked' = {} /\ Turns'
  <2>1. PostsOne
    BY <1>1 DEF PostsOne, LoopFree
  <2> QED
    BY <1>1, <2>1, ExclusiveMoves, TurnsStep
<1>3. ASSUME NEW e \in MailItem, Agrees(e, box, lastSeq), OldBelow(e, box)
      PROVE  Agrees(e, box', lastSeq') /\ OldBelow(e, box')
  BY <1>1, <1>3, AgreesStays, OldStays
<1>4. ASSUME NEW i \in 1..Len(log), log[i].seq # 0
      PROVE  /\ Agrees(log[i], box, lastSeq) /\ OldBelow(log[i], box)
             /\ Agrees(log[i], box', lastSeq') /\ OldBelow(log[i], box')
  BY <1>t, <1>3, <1>4 DEF OrderInv, PostedMail
<1>5. ASSUME NEW e \in MailItem, Hand(e)
      PROVE  /\ Agrees(e, box', lastSeq') /\ OldBelow(e, box')
             /\ \A i \in 1..Len(log) : NotAfter(log[i], e)
  <2>1. InHand(e)
    BY <1>5 DEF Hand, InHand
  <2>2. Agrees(e, box, lastSeq)
    BY <2>1 DEF MailInv, ItemsAgree
  <2> QED BY <1>3, <1>5, <2>2 DEF OrderInv, HandNext
<1>6. ASSUME NEW e \in MailItem, IsNext(e, box, box')
      PROVE  OldBelow(e, box') /\ \A i \in 1..Len(log) : NotAfter(log[i], e)
  <2>1. PICK r \in box : Same(e, r) /\ r.old = FALSE /\ \A q \in box' : q.seq < e.seq => q.old = TRUE
    BY <1>6 DEF IsNext
  <2>2. ASSUME NEW i \in 1..Len(log), log[i].seq # 0
        PROVE  log[i].seq < e.seq \/ (log[i].seq = e.seq /\ log[i].msg = e.msg)
    <3>1. Agrees(log[i], box, lastSeq) /\ OldBelow(log[i], box)
      BY <1>4, <2>2
    <3>2. ~(r.seq < log[i].seq) /\ (r.seq = log[i].seq => r.msg = log[i].msg)
      BY <2>1, <3>1 DEF OldBelow, Agrees
    <3>3. log[i].seq \in Nat /\ e.seq \in Nat /\ e.seq = r.seq /\ e.msg = r.msg
      BY <1>t, <2>1 DEF MailItem, Same
    <3> QED BY <3>2, <3>3
  <2> QED BY <2>1, <2>2 DEF OldBelow, NotAfter
<1>7. ASSUME NEW e \in MailItem, Hand(e)'
      PROVE  OldBelow(e, box') /\ \A i \in 1..Len(log) : NotAfter(log[i], e)
  <2>1. Hand(e) \/ IsNext(e, box, box')
    BY <1>1, <1>7, HandMoves
  <2> QED BY <2>1, <1>5, <1>6
<1>8. CASE log' = log
  <2>1. PostedMail' /\ HandNext'
    BY <1>4, <1>7, <1>8 DEF PostedMail, HandNext
  <2>2. MailInOrder'
    BY <1>8 DEF OrderInv, MailInOrder
  <2> QED BY <1>2, <2>1, <2>2 DEF OrderInv
<1>9. ASSUME NEW x \in MailItem, Len(log') = Len(log) + 1, log'[Len(log) + 1] = x, \A i \in 1..Len(log) : log'[i] = log[i],
             x.seq # 0 => /\ Agrees(x, box', lastSeq') /\ OldBelow(x, box')
                          /\ \A i \in 1..Len(log) : log[i].seq # 0 => log[i].seq < x.seq
                          /\ \A f \in MailItem : ~Hand(f)'
      PROVE  OrderInv'
  <2>1. \A i \in 1..Len(log') : i \in 1..Len(log) \/ i = Len(log) + 1
    BY <1>9, <1>t
  <2>2. PostedMail'
    BY <2>1, <1>4, <1>9 DEF PostedMail
  <2>3. HandNext'
    <3>1. ASSUME NEW e \in MailItem, Hand(e)', NEW i \in 1..Len(log') PROVE NotAfter(log'[i], e)
      BY <2>1, <3>1, <1>7, <1>9 DEF NotAfter
    <3> QED BY <3>1, <1>7 DEF HandNext
  <2>4. MailInOrder'
    <3>1. ASSUME NEW i \in 1..Len(log'), NEW j \in 1..Len(log'), i < j, log'[i].seq # 0, log'[j].seq # 0
          PROVE  log'[i].seq < log'[j].seq
      <4>1. CASE j \in 1..Len(log)
        BY <2>1, <3>1, <4>1, <1>9, <1>t DEF OrderInv, MailInOrder
      <4>2. CASE j = Len(log) + 1
        <5>1. i \in 1..Len(log)
          BY <3>1, <4>2, <1>t
        <5> QED BY <5>1, <3>1, <4>2, <1>9
      <4> QED BY <2>1, <4>1, <4>2
    <3> QED BY <3>1 DEF MailInOrder
  <2> QED BY <1>2, <2>2, <2>3, <2>4 DEF OrderInv
<1>10. ASSUME NEW m \in Message, Entry(m, 0) PROVE OrderInv'
  <2>1. [msg |-> m, seq |-> 0] \in MailItem /\ [msg |-> m, seq |-> 0].seq = 0
    BY DEF MailItem
  <2>2. /\ Len(log') = Len(log) + 1 /\ log'[Len(log) + 1] = [msg |-> m, seq |-> 0]
        /\ \A i \in 1..Len(log) : log'[i] = log[i]
    BY <1>t, <1>10, EntryAdds
  <2> QED BY <2>1, <2>2, <1>9
<1>11. ASSUME NEW e \in MailItem, EntryOfHand(e) PROVE OrderInv'
  <2>1. e.msg \in Message /\ e.seq \in Nat /\ [msg |-> e.msg, seq |-> e.seq] = e
    BY DEF MailItem
  <2>2. /\ Len(log') = Len(log) + 1 /\ log'[Len(log) + 1] = e
        /\ \A i \in 1..Len(log) : log'[i] = log[i]
    BY <2>1, <1>t, <1>11, EntryAdds DEF EntryOfHand
  <2>3. Agrees(e, box', lastSeq') /\ OldBelow(e, box') /\ \A i \in 1..Len(log) : NotAfter(log[i], e)
    BY <1>5, <1>11 DEF EntryOfHand
  <2>4. \A i \in 1..Len(log) : log[i].msg # e.msg
    BY <1>11 DEF EntryOfHand, Posted
  <2>5. \A i \in 1..Len(log) : log[i].seq # 0 => log[i].seq < e.seq
    BY <2>3, <2>4 DEF NotAfter
  <2> QED BY <2>2, <2>3, <2>5, <1>9, <1>11 DEF EntryOfHand
<1> QED BY <1>1, <1>8, <1>10, <1>11, OrderMoves

LEMMA OrderInit ==
  ASSUME Init
  PROVE  OrderInv
<1>1. \A c \in Conn : Len(items[c]) = 0 /\ Len(answers[c]) = 0 /\ Announcing(c) = 0 /\ Holding(c) = 0
  <2>1. \A c \in Conn : items[c] = <<>> /\ answers[c] = <<>> /\ sock[c].announcing = FALSE /\ held = NoItem
    BY DEF Init
  <2>2. Kept = 0 /\ Posting = 0
    BY DEF Init, Kept, Posting, LoopFree
  <2>3. \A c \in Conn : Holding(c) = 0
    BY <2>2, HoldingIs
  <2> QED BY <2>1, <2>3 DEF Announcing
<1>2. ASSUME NEW c \in Conn PROVE Turn(c) = 0
  <2>1. Turn(c) = 0 + 0 + 0 + 0
    BY <1>1, Zenon DEF Turn
  <2> HIDE DEF Turn
  <2> QED BY <2>1
<1>3. Turns
  <2> HIDE DEF Turn
  <2> QED BY <1>2 DEF Turns
<1>4. \A e \in MailItem : ~Hand(e)
  BY DEF Hand, Init, Conn
<1>5. log = <<>> /\ looked = {}
  BY DEF Init
<1> QED BY <1>3, <1>4, <1>5 DEF OrderInv, PostedMail, HandNext, MailInOrder

LEMMA OrderStutter ==
  ASSUME OrderInv, UNCHANGED vars
  PROVE  OrderInv'
<1>1. /\ box' = box /\ lastSeq' = lastSeq /\ sock' = sock /\ items' = items /\ answers' = answers
      /\ conn' = conn /\ opened' = opened /\ held' = held /\ looked' = looked /\ log' = log
  BY DEF vars, relayVars, wires, sessionVars, chatVars
<1>2. Turns'
  BY <1>1 DEF OrderInv, Turns, Turn, Announcing, Holding, Kept, Posting, LoopFree, Unused
<1>3. PostedMail' /\ MailInOrder'
  BY <1>1 DEF OrderInv, PostedMail, MailInOrder
<1>4. HandNext'
  BY <1>1 DEF OrderInv, HandNext, Hand
<1> QED BY <1>1, <1>2, <1>3, <1>4 DEF OrderInv

\* Mail is posted in the order the relay took it in, for any messages and limits, and whether or not
\* the relay handles events during a presence write: cut connections, items put back and delivered
\* again, ones that wait for the account state and ones that expire change nothing in it, as long as
\* "send" calls look a nonce up and post one at a time.
THEOREM OrderOfMail == Exclusive => (Spec => []MailInOrder)
<1> SUFFICES ASSUME Exclusive PROVE Spec => []MailInOrder
  OBVIOUS
<1>1. Init => OrderInv
  BY OrderInit
<1>2. MailInv /\ MailInv' /\ OrderInv /\ [Next]_vars => OrderInv'
  BY OrderStep, OrderStutter
<1>3. OrderInv => MailInOrder
  BY DEF OrderInv
<1> QED BY <1>1, <1>2, <1>3, MailInvAlways, PTL DEF Spec

-----------------------------------------------------------------------------
(* Types with the bounds on numbers: every number is one of the relay's count, *)
(* and the relay counts no more puts than the phone sent. *)

PutsOf(s) == {i \in 1..Len(s) : s[i].t = "put"}

LEMMA PutsFinite ==
  ASSUME NEW s \in Seq(Request)
  PROVE  IsFiniteSet(PutsOf(s)) /\ Cardinality(PutsOf(s)) \in Nat
<1>1. Len(s) \in Nat /\ PutsOf(s) \in SUBSET (1..Len(s))
  BY DEF PutsOf
<1>2. IsFiniteSet(1..Len(s))
  BY <1>1, FS_Interval
<1> QED BY <1>1, <1>2, FS_Subset, FS_CardinalityType

LEMMA PutsOfAppend ==
  ASSUME NEW s \in Seq(Request), NEW a \in Request
  PROVE  Cardinality(PutsOf(Append(s, a))) <= Cardinality(PutsOf(s)) + (IF a.t = "put" THEN 1 ELSE 0)
<1> DEFINE n == Len(s) + 1
<1>1. /\ Len(s) \in Nat /\ Len(Append(s, a)) = n /\ Append(s, a)[n] = a
      /\ \A i \in 1..Len(s) : Append(s, a)[i] = s[i]
  OBVIOUS
<1>2. IsFiniteSet(PutsOf(s)) /\ Cardinality(PutsOf(s)) \in Nat
  BY PutsFinite
<1>3. /\ IsFiniteSet(PutsOf(s) \cup {n})
      /\ Cardinality(PutsOf(s) \cup {n}) <= Cardinality(PutsOf(s)) + 1
  <2>1. /\ IsFiniteSet(PutsOf(s) \cup {n})
        /\ Cardinality(PutsOf(s) \cup {n}) = IF n \in PutsOf(s) THEN Cardinality(PutsOf(s)) ELSE Cardinality(PutsOf(s)) + 1
    BY <1>2, FS_AddElement, Zenon
  <2> HIDE DEF n
  <2> QED BY <1>2, <2>1
<1>4. CASE a.t = "put"
  <2>1. PutsOf(Append(s, a)) \in SUBSET (PutsOf(s) \cup {n})
    BY <1>1 DEF PutsOf
  <2>2. Cardinality(PutsOf(Append(s, a))) <= Cardinality(PutsOf(s) \cup {n})
    BY <2>1, <1>3, FS_Subset
  <2>3. Cardinality(PutsOf(Append(s, a))) \in Nat /\ Cardinality(PutsOf(s) \cup {n}) \in Nat
    BY <1>3, <2>1, FS_Subset, FS_CardinalityType
  <2> QED BY <1>2, <1>3, <1>4, <2>2, <2>3
<1>5. CASE a.t # "put"
  <2>1. PutsOf(Append(s, a)) \in SUBSET PutsOf(s)
    BY <1>1, <1>5 DEF PutsOf
  <2>2. Cardinality(PutsOf(Append(s, a))) <= Cardinality(PutsOf(s))
    BY <2>1, <1>2, FS_Subset
  <2>3. Cardinality(PutsOf(Append(s, a))) \in Nat
    BY <1>2, <2>1, FS_Subset, FS_CardinalityType
  <2> QED BY <1>2, <1>5, <2>2, <2>3
<1> QED BY <1>4, <1>5

LEMMA PutsOfTail ==
  ASSUME NEW s \in Seq(Request), s # <<>>
  PROVE  Cardinality(PutsOf(Tail(s))) <= Cardinality(PutsOf(s)) - (IF Head(s).t = "put" THEN 1 ELSE 0)
<1> DEFINE f == [i \in PutsOf(Tail(s)) |-> i + 1]
<1>1. /\ Len(s) \in Nat /\ Len(s) > 0 /\ Tail(s) \in Seq(Request) /\ Len(Tail(s)) = Len(s) - 1
      /\ \A i \in 1..Len(Tail(s)) : Tail(s)[i] = s[i + 1]
      /\ Head(s) = s[1]
  OBVIOUS
<1>2. \A i \in PutsOf(Tail(s)) : i \in Int /\ i + 1 \in PutsOf(s) \ {1}
  BY <1>1 DEF PutsOf
<1>3. f \in Injection(PutsOf(Tail(s)), PutsOf(s) \ {1})
  BY <1>2 DEF Injection, IsInjective
<1>4. /\ IsFiniteSet(PutsOf(s)) /\ Cardinality(PutsOf(s)) \in Nat /\ Cardinality(PutsOf(Tail(s))) \in Nat
  BY <1>1, PutsFinite
<1>5. /\ IsFiniteSet(PutsOf(s) \ {1})
      /\ Cardinality(PutsOf(s) \ {1}) = IF 1 \in PutsOf(s) THEN Cardinality(PutsOf(s)) - 1 ELSE Cardinality(PutsOf(s))
  BY <1>4, FS_RemoveElement
<1>6. Cardinality(PutsOf(Tail(s))) <= Cardinality(PutsOf(s) \ {1})
  BY <1>3, <1>5, FS_Injection
<1>7. 1 \in PutsOf(s) <=> Head(s).t = "put"
  BY <1>1 DEF PutsOf
<1> HIDE DEF f
<1> QED BY <1>4, <1>5, <1>6, <1>7

LEMMA PutsOfPrefix ==
  ASSUME NEW s \in Seq(Request), NEW n \in 0..Len(s)
  PROVE  Cardinality(PutsOf(SubSeq(s, 1, n))) <= Cardinality(PutsOf(s))
<1>1. /\ Len(s) \in Nat /\ Len(SubSeq(s, 1, n)) = n
      /\ \A i \in 1..n : SubSeq(s, 1, n)[i] = s[i]
  OBVIOUS
<1>2. PutsOf(SubSeq(s, 1, n)) \in SUBSET PutsOf(s)
  BY <1>1 DEF PutsOf
<1> QED BY <1>2, PutsFinite, FS_Subset

\* What the relay counts, and what is still to be counted, was sent by the phone.
Counted == sends \in 0..MaxSends /\ lastSeq + Cardinality(PutsOf(up)) <= sends

LEMMA CountedStep ==
  ASSUME Typed, Counted, Next
  PROVE  Counted'
<1>t. up \in Seq(Request) /\ lastSeq \in Nat /\ sends \in 0..MaxSends /\ MaxSends \in Nat
  BY OfflineMailAssumption DEF Typed, Counted
<1>c. Cardinality(PutsOf(up)) \in Nat /\ up' \in Seq(Request)
  BY <1>t, PutsFinite, UpMoves
<1>d. Cardinality(PutsOf(up')) \in Nat
  BY <1>c, PutsFinite
<1>1. ASSUME NEW m \in Message, Enqueue(m) PROVE Counted'
  <2> DEFINE a == [t |-> "put", msg |-> m]
  <2>1. a \in Request /\ a.t = "put"
    BY DEF Request
  <2>2. up' = Append(up, a) /\ lastSeq' = lastSeq /\ sends' = sends + 1 /\ sends < MaxSends
    BY <1>1 DEF Enqueue, CanSend, relayVars
  <2> HIDE DEF a
  <2>3. Cardinality(PutsOf(up')) <= Cardinality(PutsOf(up)) + 1
    BY <1>t, <2>1, <2>2, PutsOfAppend
  <2> QED BY <1>t, <1>c, <1>d, <2>2, <2>3 DEF Counted
<1>2. ASSUME NEW m \in Message, SendDirect(m) PROVE Counted'
  <2>1. up' = up /\ lastSeq' = lastSeq /\ sends' = sends + 1 /\ sends < MaxSends
    BY <1>2 DEF SendDirect, CanSend, relayVars, linkVars
  <2> QED BY <1>t, <1>c, <2>1 DEF Counted
<1>3. ASSUME NEW a \in Request, a.t # "put", up' = Append(up, a), lastSeq' = lastSeq, sends' = sends PROVE Counted'
  <2>1. Cardinality(PutsOf(up')) <= Cardinality(PutsOf(up))
    BY <1>t, <1>c, <1>3, PutsOfAppend
  <2> QED BY <1>t, <1>c, <1>d, <1>3, <2>1 DEF Counted
<1>4. ASSUME up' = up, lastSeq' = lastSeq, sends' = sends PROVE Counted'
  BY <1>4 DEF Counted
<1>5. ASSUME NEW m \in Message, CancelQueued(m) PROVE Counted'
  <2>1. [t |-> "cancel", msg |-> m] \in Request /\ [t |-> "cancel", msg |-> m].t # "put"
    BY DEF Request
  <2>2. up' = Append(up, [t |-> "cancel", msg |-> m]) /\ lastSeq' = lastSeq /\ sends' = sends
    BY <1>5 DEF CancelQueued, relayVars
  <2> QED BY <2>1, <2>2, <1>3
<1>6. CASE AskList
  <2>1. [t |-> "list"] \in Request /\ [t |-> "list"].t # "put"
    BY DEF Request
  <2>2. (up' = up \/ up' = Append(up, [t |-> "list"])) /\ lastSeq' = lastSeq /\ sends' = sends
    BY <1>6 DEF AskList, relayVars, counts
  <2> QED BY <2>1, <2>2, <1>3, <1>4
<1>7. CASE OnPut \/ OnCancel \/ OnList
  <2>1. up # <<>> /\ up' = Tail(up) /\ sends' = sends
    BY <1>7 DEF OnPut, OnCancel, OnList, Handles, counts
  <2>2. Cardinality(PutsOf(up')) <= Cardinality(PutsOf(up)) - (IF Head(up).t = "put" THEN 1 ELSE 0)
    BY <1>t, <2>1, PutsOfTail
  <2>3. lastSeq' = lastSeq \/ (lastSeq' = lastSeq + 1 /\ Head(up).t = "put")
    BY <1>7 DEF OnPut, OnCancel, OnList, Handles, relayVars
  <2> QED BY <1>t, <1>c, <1>d, <2>1, <2>2, <2>3 DEF Counted
<1>8. CASE LinkDrops
  <2>1. PICK n \in 0..Len(up) : up' = SubSeq(up, 1, n)
    BY <1>8 DEF LinkDrops
  <2>2. lastSeq' = lastSeq /\ sends' = sends
    BY <1>8 DEF LinkDrops, relayVars, counts
  <2>3. Cardinality(PutsOf(up')) <= Cardinality(PutsOf(up))
    BY <1>t, <2>1, PutsOfPrefix
  <2> QED BY <1>t, <1>c, <1>d, <2>2, <2>3 DEF Counted
<1>9. CASE \/ \E c \in Conn : Replace(c) \/ Accept(c) \/ Closed(c) \/ Ignored(c) \/ OnReady(c) \/ Announced(c) \/ OnAck(c)
           \/ \E r \in box : Expire(r)
           \/ LinkUp \/ \E m \in Message : CatchUp(m)
  <2>1. up' = up /\ lastSeq' = lastSeq /\ sends' = sends
    BY <1>9 DEF Replace, Accept, Closed, Ignored, OnReady, Announced, OnAck, Expire, LinkUp, CatchUp, linkVars, relayVars, counts
  <2> QED BY <2>1, <1>4
<1>10. CASE HostStep
  <2>1. up' = up /\ lastSeq' = lastSeq /\ sends' = sends
    BY <1>10 DEF HostStep, Connect, Open, Pull, ReadItem, DeliverHeld, Noticed, CutOff, TakeCall, Post, linkVars, relayVars, counts
  <2> QED BY <2>1, <1>4
<1>11. CASE \/ \E m \in Message : PutExpires(m) \/ CallFails(m)
            \/ \E c \in Conn : RetireSilent(c)
            \/ \E r \in box : Ages(r)
            \/ Cut \/ DeleteBot
  <2>1. up' = up /\ lastSeq' = lastSeq /\ sends' = sends
    BY <1>11 DEF PutExpires, CallFails, RetireSilent, Ages, Cut, CutOff, DeleteBot, linkVars, relayVars, counts
  <2> QED BY <2>1, <1>4
<1> QED BY <1>1, <1>2, <1>5, <1>6, <1>7, <1>8, <1>9, <1>10, <1>11 DEF Next, RelayStep, PhoneStep, UserOrFault

\* Numbers begin at one.
NoZero ==
  /\ \A r \in box : r.seq # 0
  /\ \A c \in Conn : (\A e \in Elems(items[c]) : e.seq # 0) /\ (\A a \in Elems(answers[c]) : a.t = "ack" => a.seq # 0)
  /\ held # NoItem => held.seq # 0

LEMMA NoZeroStep ==
  ASSUME Typed, NoZero, Next, NumbersAgree, AcksCover
  PROVE  NoZero'
<1>1. BoxStep /\ ItemsStep /\ AnswersStep /\ HandStep
  BY RelayMoves, ItemsMove, HostMoves
<1>2. \A r \in box' : r.seq # 0
  <2>1. lastSeq \in Nat /\ lastSeq + 1 # 0
    BY DEF Typed
  <2>2. CASE KeptRows(box, box')
    BY <2>2 DEF NoZero, KeptRows, Same
  <2>3. CASE \E row : row.seq = lastSeq + 1 /\ \A q \in box' : q \in box \/ q = row
    BY <2>1, <2>3 DEF NoZero
  <2> QED BY <1>1, <2>2, <2>3 DEF BoxStep
<1>3. \A c \in Conn : \A e \in Elems(items'[c]) : e.seq # 0
  BY <1>1 DEF NoZero, ItemsStep, IsNext, Same
<1>4. ASSUME NEW e, InHand(e) PROVE e.seq # 0
  BY <1>4 DEF NoZero, InHand
<1>5. held' # NoItem => held'.seq # 0
  BY <1>1, <1>4 DEF HandStep
<1>6. \A c \in Conn : \A a \in Elems(answers'[c]) : a.t = "ack" => a.seq # 0
  BY <1>1, <1>4 DEF NoZero, AnswersStep
<1> QED BY <1>2, <1>3, <1>5, <1>6 DEF NoZero

\* One item is under way at a time.
OneUnderWay == \A q, r \in UnderWay(box) : q = r

LEMMA DeliverOne ==
  ASSUME NEW c \in Conn, NEW rows \in SUBSET MailRow, Deliver(c, rows), \A q, r \in UnderWay(rows) : q = r
  PROVE  OneUnderWay'
<1>1. CASE ~(Idle(rows) /\ Waits(rows) # {})
  BY <1>1 DEF Deliver, OneUnderWay, UnderWay
<1>2. CASE Idle(rows) /\ Waits(rows) # {}
  <2> DEFINE sent == [NextRow(rows) EXCEPT !.state = "delivering"]
  <2>1. box' = (rows \ {NextRow(rows)}) \cup {sent}
    BY <1>2 DEF Deliver
  <2> HIDE DEF sent
  <2>2. \A r \in rows : r.state # "delivering"
    BY <1>2 DEF Idle, UnderWay
  <2> QED BY <2>1, <2>2 DEF OneUnderWay, UnderWay
<1> QED BY <1>1, <1>2

LEMMA OneUnderWayStep ==
  ASSUME Typed, OneUnderWay, Next
  PROVE  OneUnderWay'
<1>t. box \subseteq MailRow
  BY DEF Typed
<1>1. ASSUME box' \subseteq box PROVE OneUnderWay'
  BY <1>1 DEF OneUnderWay, UnderWay
<1>2. ASSUME NEW c \in Conn, Replace(c) \/ RetireSilent(c) \/ Closed(c) PROVE OneUnderWay'
  <2>1. box' = Requeued(box) \/ box' = box
    BY <1>2 DEF Replace, RetireSilent, Closed
  <2>2. UnderWay(Requeued(box)) = {}
    <3>1. \A r \in box : [r EXCEPT !.state = "queued"].state = "queued"
      BY <1>t DEF MailRow
    <3> QED BY <3>1 DEF Requeued, UnderWay
  <2>3. CASE box' = Requeued(box)
    BY <2>2, <2>3 DEF OneUnderWay
  <2> QED BY <2>1, <2>3, <1>1
<1>3. ASSUME NEW c \in Conn, Announced(c) \/ OnAck(c) PROVE OneUnderWay'
  <2>1. PICK rows \in SUBSET box : Deliver(c, rows) \/ box' = rows
    <3>1. CASE Announced(c)
      BY <3>1 DEF Announced
    <3>2. CASE OnAck(c)
      <4> DEFINE done == {r \in UnderWay(box) : r.seq = Head(answers[c]).seq}
      <4>1. Deliver(c, box \ done) \/ box' = box \ done
        BY <3>2 DEF OnAck
      <4> QED BY <4>1
    <3> QED BY <1>3, <3>1, <3>2
  <2>2. \A q, r \in UnderWay(rows) : q = r
    BY <2>1 DEF OneUnderWay, UnderWay
  <2>3. CASE Deliver(c, rows)
    BY <2>1, <2>2, <2>3, <1>t, DeliverOne
  <2> QED BY <2>1, <2>3, <1>1
<1>4. ASSUME NEW r \in box, Ages(r) PROVE OneUnderWay'
  <2> DEFINE aged == [r EXCEPT !.old = TRUE]
  <2>1. aged.state = r.state
    BY <1>t DEF MailRow
  <2>2. box' = (box \ {r}) \cup {aged}
    BY <1>4 DEF Ages
  <2> HIDE DEF aged
  <2> QED BY <2>1, <2>2 DEF OneUnderWay, UnderWay
<1>5. CASE OnPut
  <2>1. box' = box \/ \E m \in {Head(up).msg} : box' = box \cup {[seq |-> lastSeq + 1, msg |-> m, state |-> "queued", old |-> FALSE]}
    BY <1>5 DEF OnPut
  <2>2. UnderWay(box') \subseteq UnderWay(box)
    BY <2>1 DEF UnderWay
  <2> QED BY <2>2 DEF OneUnderWay
<1>6. CASE (\E r \in box : Expire(r)) \/ OnCancel \/ OnList
  <2>1. box' \subseteq box
    BY <1>6 DEF Expire, OnCancel, OnList, relayVars
  <2> QED BY <2>1, <1>1
<1>7. CASE (\E c \in Conn : Accept(c) \/ Ignored(c) \/ OnReady(c)) \/ PhoneStep \/ HostStep
  <2>1. box' = box
    BY <1>7 DEF Accept, Ignored, OnReady, PhoneStep, LinkUp, AskList, CatchUp, HostStep, Connect, Open, Pull, ReadItem,
                DeliverHeld, Noticed, CutOff, TakeCall, Post, relayVars
  <2> QED BY <2>1, <1>1
<1>8. CASE \/ \E m \in Message : Enqueue(m) \/ SendDirect(m) \/ CancelQueued(m) \/ PutExpires(m) \/ CallFails(m)
           \/ LinkDrops \/ Cut \/ DeleteBot
  <2>1. box' = box
    BY <1>8 DEF Enqueue, SendDirect, CancelQueued, PutExpires, CallFails, LinkDrops, Cut, CutOff, DeleteBot, relayVars
  <2> QED BY <2>1, <1>1
<1> QED BY <1>2, <1>3, <1>4, <1>5, <1>6, <1>7, <1>8 DEF Next, RelayStep, UserOrFault

\* The chat's numbers are of items that were in hand.
LogCounted == (\A i \in 1..Len(log) : log[i].seq <= lastSeq) /\ (\A e \in looked : e.seq <= lastSeq)

LEMMA LogCountedStep ==
  ASSUME MailInv, LogCounted, Next
  PROVE  LogCounted'
<1>t. /\ Typed /\ log \in Seq(MailItem) /\ lastSeq \in Nat /\ looked \subseteq MailItem /\ Len(log) \in Nat
      /\ \A e \in MailItem : e.seq \in Nat /\ e.msg \in Message
      /\ \A i \in 1..Len(log) : log[i] \in MailItem
  <2>1. Typed /\ log \in Seq(MailItem) /\ lastSeq \in Nat /\ looked \subseteq MailItem
    BY DEF MailInv, Typed
  <2>2. Len(log) \in Nat /\ \A i \in 1..Len(log) : log[i] \in MailItem
    BY <2>1
  <2> QED BY <2>1, <2>2 DEF MailItem
<1>m. lastSeq' \in Nat /\ lastSeq <= lastSeq' /\ HandStep
  BY <1>t, RelayMoves, HostMoves DEF BoxStep, MailInv
<1>h. ASSUME NEW e, InHand(e) PROVE e \in MailItem /\ e.seq <= lastSeq
  BY <1>h, <1>t, InHandTyped DEF MailInv, ItemsAgree, Agrees
<1>l. \A e \in looked' : e.seq <= lastSeq'
  <2>1. SUFFICES ASSUME NEW e \in looked' PROVE e.seq <= lastSeq'
    OBVIOUS
  <2>2. e.seq = 0 \/ (InHand(e) /\ e.seq \in Nat /\ e.seq <= lastSeq)
    BY <1>m, <1>h, <1>t DEF HandStep
  <2> QED BY <2>2, <1>t, <1>m
<1>1. ASSUME log' = log PROVE LogCounted'
  <2>1. \A i \in 1..Len(log) : log[i].seq \in Nat /\ log[i].seq <= lastSeq
    BY <1>t DEF LogCounted
  <2> QED BY <2>1, <1>1, <1>t, <1>m, <1>l DEF LogCounted
<1>2. ASSUME NEW e \in MailItem, e.seq <= lastSeq, Entry(e.msg, e.seq) PROVE LogCounted'
  <2>1. /\ Len(log') = Len(log) + 1 /\ log'[Len(log) + 1].seq = e.seq
        /\ \A i \in 1..Len(log) : log'[i] = log[i]
    BY <1>2, <1>t, EntryAdds
  <2>2. \A i \in 1..Len(log) : log[i].seq \in Nat /\ log[i].seq <= lastSeq
    BY <1>t DEF LogCounted
  <2>3. ASSUME NEW i \in 1..Len(log') PROVE log'[i].seq <= lastSeq'
    <3>1. i \in 1..Len(log) \/ i = Len(log) + 1
      BY <2>1, <1>t
    <3> QED BY <3>1, <2>1, <2>2, <1>2, <1>t, <1>m
  <2> QED BY <2>3, <1>l DEF LogCounted
<1>3. ASSUME NEW e, InHand(e), StartDelivery(e) PROVE LogCounted'
  <2>1. log' = log \/ Entry(e.msg, e.seq)
    BY <1>3 DEF StartDelivery
  <2> QED BY <2>1, <1>1, <1>2, <1>3, <1>h
<1>4. CASE ReadItem
  <2>1. conn \in Conn /\ items[conn] # <<>> /\ items[conn] \in Seq(MailItem)
    BY <1>4, <1>t DEF ReadItem, Typed, Conn
  <2>2. InHand(Head(items[conn]))
    BY <2>1, ElemsOfTail DEF InHand
  <2>3. log' = log \/ StartDelivery(Head(items[conn]))
    BY <1>4 DEF ReadItem
  <2> QED BY <2>2, <2>3, <1>1, <1>3
<1>5. CASE DeliverHeld
  <2>1. InHand(held) /\ StartDelivery(held)
    BY <1>5 DEF DeliverHeld, InHand
  <2> QED BY <2>1, <1>3
<1>6. ASSUME NEW m \in Message, TakeCall(m) PROVE LogCounted'
  <2> DEFINE e == [seq |-> 0, msg |-> m]
  <2>1. e \in MailItem /\ e.seq <= lastSeq /\ e.msg = m /\ e.seq = 0
    BY <1>t DEF MailItem
  <2>2. log' = log \/ Entry(m, 0)
    BY <1>6 DEF TakeCall
  <2> HIDE DEF e
  <2> QED BY <2>1, <2>2, <1>1, <1>2
<1>7. ASSUME NEW e \in looked, Post(e) PROVE LogCounted'
  <2>1. e \in MailItem /\ e.seq <= lastSeq /\ Entry(e.msg, e.seq)
    BY <1>7, <1>t DEF Post, LogCounted
  <2> QED BY <2>1, <1>2
<1>8. CASE RelayStep \/ PhoneStep \/ (\E c \in Conn : Connect(c)) \/ (\E pulled \in BOOLEAN : Open(pulled)) \/ Pull \/ CutOff
  <2>1. log' = log
    BY <1>8 DEF RelayStep, Replace, Accept, Closed, Ignored, OnReady, Announced, OnAck, Expire, OnPut, OnCancel, OnList,
                PhoneStep, LinkUp, AskList, CatchUp, Connect, Open, Pull, CutOff, chatVars
  <2> QED BY <2>1, <1>1
<1>9. CASE \/ \E m \in Message : Enqueue(m) \/ SendDirect(m) \/ CancelQueued(m) \/ PutExpires(m) \/ CallFails(m)
           \/ \E c \in Conn : RetireSilent(c)
           \/ \E r \in box : Ages(r)
           \/ LinkDrops \/ DeleteBot
  <2>1. log' = log
    BY <1>9 DEF Enqueue, SendDirect, CancelQueued, PutExpires, CallFails, RetireSilent, Ages, LinkDrops, DeleteBot, chatVars
  <2> QED BY <2>1, <1>1
<1> QED BY <1>4, <1>5, <1>6, <1>7, <1>8, <1>9 DEF Next, HostStep, UserOrFault, Noticed, Cut

\* The phone's side, and what is counted.
PhoneTyped ==
  /\ phone \in [Message -> Status] /\ puts \subseteq Message /\ cancels \subseteq Message
  /\ snapshot \subseteq Message /\ listing \in {"no", "asked", "done"}
  /\ call \in [Message -> {"none", "asked", "taken"}]
  /\ link \in [up : BOOLEAN, n : 0..MaxLinks] /\ (link.up = FALSE => link.n < MaxLinks)
  /\ opened \in BOOLEAN /\ synced \in BOOLEAN /\ bot \in BOOLEAN
  /\ cancelled \in 0..MaxCancels /\ accepted \subseteq Message /\ ended \subseteq Message

LEMMA MarkTyped ==
  ASSUME NEW st \in [Message -> Status], NEW m, NEW s \in Status
  PROVE  Mark(st, m, s) \in [Message -> Status]
  BY DEF Mark

LEMMA HearsTyped ==
  ASSUME phone \in [Message -> Status], NEW m, NEW s \in Status, Hears(m, s)
  PROVE  phone' \in [Message -> Status]
  BY MarkTyped DEF Hears

LEMMA RequestedMessage ==
  ASSUME Typed, NEW t \in {"put", "cancel"}, Handles(t)
  PROVE  Head(up).msg \in Message
<1>1. up \in Seq(Request) /\ up # <<>> /\ Head(up).t = t
  BY DEF Typed, Handles
<1>2. Head(up) \in Request
  BY <1>1, ElemsOfTail
<1> QED BY <1>1, <1>2 DEF Request

LEMMA PhoneTypedStep ==
  ASSUME Typed, PhoneTyped, Next
  PROVE  PhoneTyped'
<1>t. /\ box \subseteq MailRow /\ \A r \in MailRow : r.msg \in Message
      /\ {"sending", "waiting", "delivering", "failed", "shown", "discarded"} \subseteq Status
  BY DEF Typed, MailRow, Status
<1>p. phone \in [Message -> Status]
  BY DEF PhoneTyped
<1>1. ASSUME NEW c \in Conn, OnAck(c) PROVE PhoneTyped'
  <2> DEFINE ack == Head(answers[c])
             done == {r \in UnderWay(box) : r.seq = ack.seq}
             m == (CHOOSE r \in done : TRUE).msg
  <2>1. done # {} => m \in Message
    BY <1>t DEF UnderWay
  <2>2. CASE done = {}
    <3>1. phone' = phone /\ ended' = ended
      BY <1>1, <2>2 DEF OnAck
    <3> QED BY <1>1, <3>1 DEF PhoneTyped, OnAck, asking, linkVars, sessionVars, chatVars, counts
  <2>3. CASE done # {}
    <3>1. Hears(m, IF ack.ok THEN "delivering" ELSE "failed") /\ ended' \in {ended, ended \cup {m}}
      BY <1>1, <2>3 DEF OnAck
    <3> HIDE DEF m, done, ack
    <3>2. (IF ack.ok THEN "delivering" ELSE "failed") \in Status
      BY <1>t
    <3>3. phone' \in [Message -> Status]
      BY <3>1, <3>2, <1>p, HearsTyped, Zenon
    <3>4. ended' \subseteq Message
      BY <2>1, <2>3, <3>1 DEF PhoneTyped
    <3> QED BY <1>1, <3>3, <3>4 DEF PhoneTyped, OnAck, asking, linkVars, sessionVars, chatVars, counts
  <2> QED BY <2>2, <2>3
<1>2. ASSUME NEW r \in box, Expire(r) PROVE PhoneTyped'
  <2>1. r.msg \in Message /\ phone' \in [Message -> Status]
    BY <1>2, <1>t, <1>p, HearsTyped DEF Expire
  <2> QED BY <1>2, <2>1 DEF PhoneTyped, Expire, asking, linkVars, sessionVars, chatVars, counts
<1>3. CASE OnPut
  <2> DEFINE m == Head(up).msg
  <2>1. m \in Message
    BY <1>3, RequestedMessage DEF OnPut
  <2>2. \E answer \in {"ok", "hostOnline", "full"} : PutAnswered(m, answer)
    BY <1>3 DEF OnPut
  <2>3. /\ accepted' \in {accepted, accepted \cup {m}} /\ ended' \in {ended, ended \ {m}}
        /\ cancels' = cancels /\ snapshot' = snapshot /\ listing' = listing /\ link' = link
        /\ opened' = opened /\ synced' = synced /\ bot' = bot /\ cancelled' = cancelled
    BY <1>3 DEF OnPut, history, sessionVars, counts
  <2> HIDE DEF m
  <2>4. /\ puts' = puts \ {m}
        /\ phone' \in {phone, Mark(phone, m, "sending"), Mark(phone, m, "failed")}
        /\ call' \in {call, [call EXCEPT ![m] = "asked"]}
    BY <2>2 DEF PutAnswered
  <2>5. phone' \in [Message -> Status]
    BY <2>4, <1>p, <1>t, MarkTyped
  <2>6. call' \in [Message -> {"none", "asked", "taken"}]
    BY <2>4 DEF PhoneTyped
  <2> QED BY <2>1, <2>3, <2>4, <2>5, <2>6 DEF PhoneTyped
<1>4. CASE OnCancel
  <2> DEFINE m == Head(up).msg
  <2>1. m \in Message
    BY <1>4, RequestedMessage DEF OnCancel
  <2>2. /\ phone' \in {phone, Mark(phone, m, "discarded"), Mark(phone, m, "delivering")}
        /\ ended' \in {ended, ended \cup {m}} /\ cancels' = cancels \ {m}
        /\ puts' = puts /\ snapshot' = snapshot /\ listing' = listing /\ link' = link /\ call' = call
        /\ opened' = opened /\ synced' = synced /\ bot' = bot /\ cancelled' = cancelled /\ accepted' = accepted
    BY <1>4 DEF OnCancel, sessionVars, counts, chatVars
  <2> HIDE DEF m
  <2>3. phone' \in [Message -> Status]
    BY <2>2, <1>p, <1>t, MarkTyped
  <2> QED BY <2>1, <2>2, <2>3 DEF PhoneTyped
<1>5. CASE OnList
  <2>1. \A m \in Message : Settled(m) \in Status
    <3>1. SUFFICES ASSUME NEW m \in Message PROVE Settled(m) \in Status
      OBVIOUS
    <3>2. Mark(phone, m, "failed") \in [Message -> Status] /\ Mark(phone, m, "delivering") \in [Message -> Status]
      BY <1>p, <1>t, MarkTyped
    <3> QED BY <3>2, <1>p DEF Settled
  <2>2. phone' = [m \in Message |-> IF m \in snapshot THEN Settled(m) ELSE phone[m]]
    BY <1>5 DEF OnList
  <2>3. phone' \in [Message -> Status]
    BY <2>1, <2>2, <1>p
  <2> QED BY <1>5, <2>3 DEF OnList, PhoneTyped, sessionVars, chatVars, counts, history
<1>6. ASSUME NEW m \in Message, Enqueue(m) \/ SendDirect(m) \/ CancelQueued(m) \/ CatchUp(m) PROVE PhoneTyped'
  <2>1. /\ phone' \in {phone, [phone EXCEPT ![m] = "waiting"], [phone EXCEPT ![m] = "sending"], [phone EXCEPT ![m] = "shown"]}
        /\ puts' \subseteq puts \cup {m} /\ cancels' \subseteq cancels \cup {m}
        /\ call' \in {call, [call EXCEPT ![m] = "asked"]}
        /\ (cancelled' = cancelled \/ (cancelled' = cancelled + 1 /\ cancelled < MaxCancels))
        /\ snapshot' = snapshot /\ listing' = listing /\ link' = link
        /\ opened' = opened /\ synced' = synced /\ bot' = bot /\ accepted' = accepted /\ ended' = ended
    BY <1>6 DEF Enqueue, SendDirect, CancelQueued, CatchUp, asking, linkVars, sessionVars, chatVars, counts, history
  <2>2. phone' \in [Message -> Status]
    BY <2>1, <1>p, <1>t
  <2>3. cancelled' \in 0..MaxCancels
    BY <2>1, OfflineMailAssumption DEF PhoneTyped
  <2> QED BY <2>1, <2>2, <2>3 DEF PhoneTyped
<1>7. ASSUME NEW m \in Message, PutExpires(m) \/ CallFails(m) PROVE PhoneTyped'
  <2>1. /\ phone' = Mark(phone, m, "failed") /\ puts' \subseteq puts
        /\ call' \in {call, [call EXCEPT ![m] = "none"]}
        /\ cancels' = cancels /\ snapshot' = snapshot /\ listing' = listing /\ link' = link
        /\ opened' = opened /\ synced' = synced /\ bot' = bot /\ cancelled' = cancelled /\ accepted' = accepted /\ ended' = ended
    BY <1>7 DEF PutExpires, CallFails, asking, linkVars, sessionVars, chatVars, counts, history
  <2>2. phone' \in [Message -> Status]
    BY <2>1, <1>p, <1>t, MarkTyped
  <2> QED BY <2>1, <2>2 DEF PhoneTyped
<1>8. CASE AskList
  <2>1. snapshot' \subseteq Message /\ listing' \in {"no", "asked", "done"}
    BY <1>8 DEF AskList
  <2> QED BY <1>8, <2>1 DEF AskList, PhoneTyped, sessionVars, chatVars, counts, history
<1>9. CASE LinkDrops
  <2>1. phone' \in [Message -> Status]
    <3>1. \A m \in Message : Mark(phone, m, "failed") \in [Message -> Status]
      BY <1>p, <1>t, MarkTyped
    <3>2. phone' = [m \in Message |-> IF m \in puts THEN Mark(phone, m, "failed")[m] ELSE phone[m]]
      BY <1>9 DEF LinkDrops
    <3> QED BY <3>1, <3>2, <1>p
  <2>2. link' \in [up : BOOLEAN, n : 0..MaxLinks] /\ link'.n < MaxLinks
    BY <1>9 DEF LinkDrops, PhoneTyped
  <2>3. /\ puts' = {} /\ cancels' = {} /\ snapshot' = {} /\ listing' = "no"
        /\ call' = call /\ opened' = opened /\ synced' = synced /\ bot' = bot
        /\ cancelled' = cancelled /\ accepted' = accepted /\ ended' = ended
    BY <1>9 DEF LinkDrops, sessionVars, chatVars, counts, history
  <2> QED BY <2>1, <2>2, <2>3 DEF PhoneTyped
<1>10. CASE LinkUp
  <2>1. link' = [up |-> TRUE, n |-> link.n + 1] /\ link.up # TRUE /\ link \in [up : BOOLEAN, n : 0..MaxLinks]
    BY <1>10 DEF LinkUp, PhoneTyped
  <2>2. link.n < MaxLinks /\ link.n \in Nat /\ MaxLinks \in Nat
    <3>1. link.up = FALSE /\ link.n \in 0..MaxLinks /\ MaxLinks \in Nat
      BY <2>1, OfflineMailAssumption
    <3> QED BY <3>1 DEF PhoneTyped
  <2>3. link' \in [up : BOOLEAN, n : 0..MaxLinks] /\ link'.up = TRUE
    BY <2>1, <2>2
  <2> QED BY <1>10, <2>3 DEF LinkUp, PhoneTyped, phoneVars, asking, sessionVars, chatVars, counts, history
<1>11. ASSUME NEW m \in Message, TakeCall(m) PROVE PhoneTyped'
  <2>1. /\ phone' \in {phone, Mark(phone, m, "shown"), Mark(phone, m, "failed")}
        /\ call' \in {[call EXCEPT ![m] = "none"], [call EXCEPT ![m] = "taken"]}
        /\ puts' = puts /\ cancels' = cancels /\ snapshot' = snapshot /\ listing' = listing /\ link' = link
        /\ opened' = opened /\ synced' = synced /\ bot' = bot /\ cancelled' = cancelled /\ accepted' = accepted /\ ended' = ended
    BY <1>11 DEF TakeCall, Returns, asking, linkVars, sessionVars, counts, history
  <2>2. phone' \in [Message -> Status]
    BY <2>1, <1>p, <1>t, MarkTyped
  <2> QED BY <2>1, <2>2 DEF PhoneTyped
<1>12. ASSUME NEW e \in looked, Post(e) PROVE PhoneTyped'
  <2>1. /\ phone' \in {phone, Mark(phone, e.msg, "shown")}
        /\ call' \in {call, [call EXCEPT ![e.msg] = "none"]}
        /\ puts' = puts /\ cancels' = cancels /\ snapshot' = snapshot /\ listing' = listing /\ link' = link
        /\ opened' = opened /\ synced' = synced /\ bot' = bot /\ cancelled' = cancelled /\ accepted' = accepted /\ ended' = ended
    BY <1>12 DEF Post, Returns, asking, linkVars, sessionVars, counts, history
  <2>2. phone' \in [Message -> Status]
    BY <2>1, <1>p, <1>t, MarkTyped
  <2> QED BY <2>1, <2>2 DEF PhoneTyped
<1>13. ASSUME /\ phone' = phone /\ puts' = puts /\ cancels' = cancels /\ snapshot' = snapshot /\ listing' = listing /\ link' = link
              /\ call' = call /\ opened' \in BOOLEAN /\ synced' \in BOOLEAN /\ bot' \in BOOLEAN
              /\ cancelled' = cancelled /\ accepted' = accepted /\ ended' = ended
       PROVE  PhoneTyped'
  BY <1>13 DEF PhoneTyped
<1>14. CASE \E c \in Conn : Replace(c) \/ Accept(c) \/ Closed(c) \/ Ignored(c) \/ OnReady(c) \/ Announced(c) \/ RetireSilent(c)
  <2>1. UNCHANGED <<phoneVars, linkVars, sessionVars, chatVars, counts, history>>
    BY <1>14 DEF Replace, Accept, Closed, Ignored, OnReady, Announced, RetireSilent
  <2> QED BY <2>1, <1>13 DEF PhoneTyped, phoneVars, asking, linkVars, sessionVars, chatVars, counts, history
<1>15. CASE (\E c \in Conn : Connect(c)) \/ (\E pulled \in BOOLEAN : Open(pulled)) \/ Pull \/ CutOff
  <2>1. UNCHANGED <<phoneVars, linkVars, call, bot, counts, history>> /\ opened' \in BOOLEAN /\ synced' \in BOOLEAN
    BY <1>15 DEF Connect, Open, Pull, CutOff, chatVars, PhoneTyped
  <2> QED BY <2>1, <1>13 DEF PhoneTyped, phoneVars, asking, linkVars, counts, history
<1>16. CASE ReadItem \/ DeliverHeld \/ DeleteBot \/ \E r \in box : Ages(r)
  <2>1. UNCHANGED <<phoneVars, linkVars, call, opened, synced, counts, history>> /\ bot' \in BOOLEAN
    BY <1>16 DEF ReadItem, DeliverHeld, DeleteBot, Ages, chatVars, sessionVars, PhoneTyped
  <2> QED BY <2>1, <1>13 DEF PhoneTyped, phoneVars, asking, linkVars, counts, history
<1> QED
  BY <1>1, <1>2, <1>3, <1>4, <1>5, <1>6, <1>7, <1>8, <1>9, <1>10, <1>11, <1>12, <1>14, <1>15, <1>16
  DEF Next, RelayStep, PhoneStep, HostStep, UserOrFault, Noticed, Cut

Bounded == Counted /\ NoZero /\ OneUnderWay /\ LogCounted /\ PhoneTyped

LEMMA BoundedInit == Init => Bounded
<1> SUFFICES ASSUME Init PROVE Bounded
  OBVIOUS
<1>1. Counted
  <2>1. PutsOf(<<>>) = {}
    BY DEF PutsOf
  <2>2. Cardinality(PutsOf(up)) = 0
    BY <2>1, FS_EmptySet DEF Init
  <2> QED BY <2>2, OfflineMailAssumption DEF Init, Counted
<1>2. NoZero
  BY ElemsOfEmpty DEF Init, NoZero
<1>3. OneUnderWay /\ LogCounted
  BY DEF Init, OneUnderWay, UnderWay, LogCounted
<1>4. PhoneTyped
  <2>1. link \in [up : BOOLEAN, n : 0..MaxLinks] /\ link.n < MaxLinks
    BY OfflineMailAssumption DEF Init
  <2>2. phone \in [Message -> Status] /\ call \in [Message -> {"none", "asked", "taken"}]
    BY DEF Init, Status
  <2>3. cancelled \in 0..MaxCancels
    BY OfflineMailAssumption DEF Init
  <2> QED BY <2>1, <2>2, <2>3 DEF Init, PhoneTyped
<1> QED BY <1>1, <1>2, <1>3, <1>4 DEF Bounded

LEMMA BoundedStep ==
  ASSUME MailInv, Bounded, [Next]_vars
  PROVE  Bounded'
<1>1. CASE Next
  BY <1>1, CountedStep, NoZeroStep, OneUnderWayStep, LogCountedStep, PhoneTypedStep DEF Bounded, MailInv
<1>2. CASE UNCHANGED vars
  <2>1. UNCHANGED <<phoneVars, linkVars, relayVars, wires, sessionVars, chatVars, counts, history>>
    BY <1>2 DEF vars
  <2>2. Counted' /\ NoZero' /\ OneUnderWay' /\ LogCounted'
    BY <2>1 DEF Bounded, Counted, NoZero, OneUnderWay, UnderWay, LogCounted, linkVars, relayVars, wires, sessionVars, chatVars, counts
  <2>3. PhoneTyped'
    BY <2>1 DEF Bounded, PhoneTyped, phoneVars, asking, linkVars, sessionVars, chatVars, counts, history
  <2> QED BY <2>2, <2>3 DEF Bounded
<1> QED BY <1>1, <1>2

LEMMA BoundedIsTyped ==
  ASSUME MailInv, Bounded
  PROVE  TypeOK
<1>t. /\ Typed /\ MaxSends \in Nat /\ lastSeq \in Nat
      /\ \A e \in MailItem : e.seq \in Nat /\ e.msg \in Message
  <2>1. \A e \in MailItem : e.seq \in Nat /\ e.msg \in Message
    BY DEF MailItem
  <2> QED BY <2>1, OfflineMailAssumption DEF MailInv, Typed
<1>1. lastSeq <= MaxSends
  <2>1. Cardinality(PutsOf(up)) \in Nat
    BY <1>t, PutsFinite DEF Typed
  <2> QED BY <1>t, <2>1 DEF Bounded, Counted
<1>2. \A e \in MailItem : InHand(e) => e.seq <= lastSeq
  BY DEF MailInv, ItemsAgree, Agrees
<1>3. box \subseteq Row
  <2>1. SUFFICES ASSUME NEW r \in box PROVE r \in Row
    OBVIOUS
  <2>2. r \in MailRow /\ r.seq # 0 /\ r.seq <= lastSeq
    BY DEF Bounded, NoZero, MailInv, Typed, NumbersAgree, Agrees
  <2>3. r.seq \in Seqno
    BY <2>2, <1>t, <1>1 DEF MailRow, Seqno
  <2> QED BY <2>2, <2>3 DEF MailRow, Row
<1>4. items \in [Conn -> Seq(Item)]
  <2>1. SUFFICES ASSUME NEW c \in Conn PROVE items[c] \in Seq(Item)
    BY <1>t DEF Typed
  <2>2. items[c] \in Seq(MailItem)
    BY <1>t DEF Typed
  <2>3. ASSUME NEW i \in 1..Len(items[c]) PROVE items[c][i] \in Item
    <3>1. items[c][i] \in MailItem /\ items[c][i] \in Elems(items[c])
      BY <2>2 DEF Elems
    <3>2. items[c][i].seq # 0 /\ items[c][i].seq <= lastSeq
      BY <3>1, <1>2 DEF Bounded, NoZero, InHand
    <3>3. items[c][i].seq \in Seqno
      BY <3>1, <3>2, <1>t, <1>1 DEF Seqno
    <3> QED BY <3>1, <3>3 DEF MailItem, Item
  <2> QED BY <2>2, <2>3
<1>5. answers \in [Conn -> Seq(FromHost)]
  <2>1. SUFFICES ASSUME NEW c \in Conn PROVE answers[c] \in Seq(FromHost)
    BY <1>t DEF Typed
  <2>2. answers[c] \in Seq(Word)
    BY <1>t DEF Typed
  <2>3. ASSUME NEW i \in 1..Len(answers[c]) PROVE answers[c][i] \in FromHost
    <3> DEFINE a == answers[c][i]
    <3>1. a \in Word /\ a \in Elems(answers[c])
      BY <2>2 DEF Elems
    <3>2. CASE a \in [t : {"ready"}]
      BY <3>2 DEF FromHost
    <3>3. CASE a \in [t : {"ack"}, seq : Nat, ok : BOOLEAN]
      <4>1. a.seq # 0 /\ a.seq <= lastSeq
        BY <3>1, <3>3 DEF Bounded, NoZero, MailInv, AcksCover, Covers
      <4>2. a.seq \in Seqno
        BY <3>3, <4>1, <1>t, <1>1 DEF Seqno
      <4>3. a \in [t : {"ack"}, seq : Seqno, ok : BOOLEAN]
        BY <3>3, <4>2
      <4> QED BY <4>3 DEF FromHost
    <3> QED BY <3>1, <3>2, <3>3 DEF Word
  <2> QED BY <2>2, <2>3
<1>6. held \in Item \cup {NoItem}
  <2>1. CASE held # NoItem
    <3>1. held \in MailItem /\ InHand(held) /\ held.seq # 0
      BY <2>1, <1>t DEF Typed, InHand, Bounded, NoZero
    <3>2. held.seq \in Seqno
      BY <3>1, <1>2, <1>t, <1>1 DEF Seqno
    <3> QED BY <3>1, <3>2 DEF MailItem, Item
  <2> QED BY <2>1
<1>7. looked \subseteq [seq : 0..MaxSends, msg : Message]
  <2>1. SUFFICES ASSUME NEW e \in looked PROVE e \in [seq : 0..MaxSends, msg : Message]
    OBVIOUS
  <2>2. e \in MailItem /\ e.seq <= lastSeq
    BY <1>t DEF Typed, Bounded, LogCounted
  <2>3. e.seq \in 0..MaxSends
    BY <2>2, <1>t, <1>1
  <2> QED BY <2>2, <2>3 DEF MailItem
<1>8. log \in Seq([msg : Message, seq : 0..MaxSends])
  <2> DEFINE S == [msg : Message, seq : 0..MaxSends]
  <2>1. log \in Seq(MailItem)
    BY <1>t DEF Typed
  <2>2. ASSUME NEW i \in 1..Len(log) PROVE log[i] \in S
    <3>1. log[i] \in MailItem /\ log[i].seq <= lastSeq
      BY <2>1 DEF Bounded, LogCounted
    <3>2. log[i].seq \in 0..MaxSends
      BY <3>1, <1>t, <1>1
    <3> QED BY <3>1, <3>2 DEF MailItem
  <2> HIDE DEF S
  <2>3. log \in Seq(S)
    BY <2>1, <2>2
  <2> QED BY <2>3 DEF S
<1>9. Cardinality(UnderWay(box)) <= 1
  <2>1. CASE UnderWay(box) = {}
    BY <2>1, FS_EmptySet
  <2>2. CASE UnderWay(box) # {}
    <3>1. PICK r \in UnderWay(box) : TRUE
      BY <2>2
    <3>2. UnderWay(box) = {r}
      BY DEF Bounded, OneUnderWay
    <3>3. Cardinality({r}) = 1
      BY FS_Singleton
    <3> QED BY <3>2, <3>3
  <2> QED BY <2>1, <2>2
<1> QED
  BY <1>t, <1>1, <1>3, <1>4, <1>5, <1>6, <1>7, <1>8, <1>9 DEF TypeOK, Typed, Bounded, PhoneTyped, Counted

\* Every number the relay, the wires, the host and the chat deal in is one the phone's sends account for,
\* and one item at most is under way (cloud/src/relay.ts, deliverNext), whatever overlaps.
THEOREM TypesBounded == Spec => []TypeOK
<1>1. MailInv /\ Bounded /\ [Next]_vars => Bounded'
  BY BoundedStep
<1>2. MailInv /\ Bounded => TypeOK
  BY BoundedIsTyped
<1> QED BY <1>1, <1>2, BoundedInit, MailInvAlways, PTL DEF Spec

-----------------------------------------------------------------------------
(* Mail moves: with relay events one at a time, what waits for a host that is  *)
(* online has something that will send it.                                     *)

\* One connection is being taken, or attached.
Taken(c) == sock[c].at = "accepting" \/ Attached(c)
OneTaken == \A c, d \in Conn : Taken(c) /\ Taken(d) => c = d
\* A connection becomes ready once, with the first thing its host says.
ReadyOnce ==
  \A c \in Conn : \/ sock[c].at \in {"none", "knocking", "accepting"}
                  \/ conn = c /\ opened # TRUE
                  \/ \E a \in Elems(answers[c]) : a.t = "ready"
                  => sock[c].ready = FALSE

\* The connection the host holds is online.
Serves(c) == Attached(c) /\ sock[c].ready = TRUE /\ conn = c
Busy(c) == items[c] # <<>> \/ answers[c] # <<>> \/ sock[c].announcing = TRUE \/ held # NoItem \/ ~LoopFree
\* The item with a number, or its acknowledgement, is somewhere between the relay and the chat.
Carries(c, n) ==
  \/ \E e \in Elems(items[c]) : e.seq = n
  \/ \E a \in Elems(answers[c]) : a.t = "ack" /\ a.seq = n
  \/ held # NoItem /\ held.seq = n
  \/ \E e \in looked : e.seq = n
Sound(c) == (\A r \in UnderWay(box) : Carries(c, r.seq)) /\ (Waits(box) # {} => Busy(c))
Carried == \A c \in Conn : Serves(c) => Sound(c)
MoveInv == PostsOne /\ Turns /\ OneTaken /\ ReadyOnce /\ Carried

LEMMA PostsOneStep ==
  ASSUME Typed, PostsOne, Next
  PROVE  PostsOne'
<1>1. ASSUME looked' \subseteq looked, conn' = 0 => conn = 0 \/ LoopFree'
      PROVE  PostsOne'
  BY <1>1 DEF PostsOne, LoopFree
<1>2. ASSUME LoopFree, conn # 0, conn' = conn, NEW e, looked' \subseteq looked \cup {e}
      PROVE  PostsOne'
  BY <1>2 DEF PostsOne, LoopFree
<1>3. CASE ReadItem
  <2>1. LoopFree /\ conn # 0 /\ conn' = conn /\ (looked' = looked \/ looked' = looked \cup {Head(items[conn])})
    BY <1>3 DEF ReadItem, StartDelivery, Typed
  <2> QED BY <2>1, <1>2
<1>4. CASE DeliverHeld
  <2>1. LoopFree /\ conn # 0 /\ conn' = conn /\ (looked' = looked \/ looked' = looked \cup {held})
    BY <1>4 DEF DeliverHeld, StartDelivery, Typed
  <2> QED BY <2>1, <1>2
<1>5. ASSUME NEW m \in Message, TakeCall(m)
      PROVE  PostsOne'
  <2>1. conn' = conn /\ (looked' = looked \/ looked' = looked \cup {[seq |-> 0, msg |-> m]})
    BY <1>5 DEF TakeCall, sessionVars
  <2>2. [seq |-> 0, msg |-> m].seq = 0
    OBVIOUS
  <2> QED BY <2>1, <2>2 DEF PostsOne, LoopFree
<1>6. CASE CutOff
  BY <1>6, <1>1 DEF CutOff, LoopFree
<1>7. ASSUME NEW e \in looked, Post(e)
      PROVE  PostsOne'
  BY <1>7, <1>1 DEF Post, sessionVars
<1>8. ASSUME NEW c \in Conn, Connect(c)
      PROVE  PostsOne'
  <2>1. c # 0
    BY DEF Conn
  <2> QED BY <1>8, <2>1, <1>1 DEF Connect, chatVars
<1>9. CASE RelayStep \/ PhoneStep \/ (\E pulled \in BOOLEAN : Open(pulled)) \/ Pull
  <2>1. conn' = conn /\ looked' = looked
    BY <1>9 DEF RelayStep, Replace, Accept, Closed, Ignored, OnReady, Announced, OnAck, Expire, OnPut, OnCancel, OnList,
                PhoneStep, LinkUp, AskList, CatchUp, Open, Pull, sessionVars, chatVars
  <2> QED BY <2>1, <1>1
<1>10. CASE \/ \E m \in Message : Enqueue(m) \/ SendDirect(m) \/ CancelQueued(m) \/ PutExpires(m) \/ CallFails(m)
            \/ \E c \in Conn : RetireSilent(c)
            \/ \E r \in box : Ages(r)
            \/ LinkDrops \/ DeleteBot
  <2>1. conn' = conn /\ looked' = looked
    BY <1>10 DEF Enqueue, SendDirect, CancelQueued, PutExpires, CallFails, RetireSilent, Ages, LinkDrops, DeleteBot,
                 sessionVars, chatVars
  <2> QED BY <2>1, <1>1
<1> QED BY <1>3, <1>4, <1>5, <1>6, <1>7, <1>8, <1>9, <1>10 DEF Next, HostStep, UserOrFault, Noticed, Cut

\* What each step makes of the sockets.
Sets(c, at, ready, retired, announcing) ==
  /\ sock'[c].at = at /\ sock'[c].ready = ready /\ sock'[c].retired = retired /\ sock'[c].announcing = announcing
  /\ \A d \in Conn : d # c => sock'[d] = sock[d]

LEMMA SetsIs ==
  ASSUME Typed, NEW c \in Conn
  PROVE  /\ Connect(c) => Sets(c, "knocking", sock[c].ready, sock[c].retired, sock[c].announcing)
         /\ Accept(c) => Sets(c, "open", sock[c].ready, sock[c].retired, sock[c].announcing)
         /\ Closed(c) => Sets(c, "closed", sock[c].ready, sock[c].retired, sock[c].announcing)
         /\ RetireSilent(c) => Sets(c, sock[c].at, FALSE, TRUE, sock[c].announcing)
         /\ OnReady(c) => Sets(c, sock[c].at, TRUE, sock[c].retired, TRUE)
         /\ Announced(c) => Sets(c, sock[c].at, sock[c].ready, sock[c].retired, FALSE)
         /\ Replace(c) => /\ sock'[c].at = "accepting" /\ sock'[c].ready = sock[c].ready /\ sock'[c].announcing = sock[c].announcing
                          /\ \A d \in Conn : d # c => /\ sock'[d].at = sock[d].at /\ sock'[d].announcing = sock[d].announcing
                                                      /\ sock'[d].ready \in {FALSE, sock[d].ready}
                                                      /\ ~Attached(d)'
<1>t. sock \in [Conn -> Socket] /\ sock[c] \in Socket
  BY DEF Typed
<1>1. ASSUME NEW at, NEW ready, NEW retired, NEW announcing, NEW x,
             sock' = [sock EXCEPT ![c] = x], x.at = at, x.ready = ready, x.retired = retired, x.announcing = announcing
      PROVE  Sets(c, at, ready, retired, announcing)
  BY <1>1, <1>t DEF Sets
<1>2. ASSUME NEW at, sock' = [sock EXCEPT ![c] = [sock[c] EXCEPT !.at = at]]
      PROVE  Sets(c, at, sock[c].ready, sock[c].retired, sock[c].announcing)
  <2>1. PICK x : x = [sock[c] EXCEPT !.at = at]
    OBVIOUS
  <2>2. x.at = at /\ x.ready = sock[c].ready /\ x.retired = sock[c].retired /\ x.announcing = sock[c].announcing
    BY <1>t, <2>1 DEF Socket
  <2> QED BY <1>1, <1>2, <2>1, <2>2
<1>3. Connect(c) => Sets(c, "knocking", sock[c].ready, sock[c].retired, sock[c].announcing)
  BY <1>2, <1>t DEF Connect
<1>4. Accept(c) => Sets(c, "open", sock[c].ready, sock[c].retired, sock[c].announcing)
  BY <1>2, <1>t DEF Accept
<1>5. Closed(c) => Sets(c, "closed", sock[c].ready, sock[c].retired, sock[c].announcing)
  BY <1>2, <1>t DEF Closed
<1>6. RetireSilent(c) => Sets(c, sock[c].at, FALSE, TRUE, sock[c].announcing)
  <2>1. PICK x : x = [sock[c] EXCEPT !.ready = FALSE, !.retired = TRUE]
    OBVIOUS
  <2>2. x.at = sock[c].at /\ x.ready = FALSE /\ x.retired = TRUE /\ x.announcing = sock[c].announcing
    BY <1>t, <2>1 DEF Socket
  <2>3. RetireSilent(c) => sock' = [sock EXCEPT ![c] = [sock[c] EXCEPT !.ready = FALSE, !.retired = TRUE]]
    BY <1>t DEF RetireSilent
  <2> QED BY <1>1, <2>1, <2>2, <2>3
<1>7. OnReady(c) => Sets(c, sock[c].at, TRUE, sock[c].retired, TRUE)
  <2>1. PICK x : x = [sock[c] EXCEPT !.ready = TRUE, !.announcing = TRUE]
    OBVIOUS
  <2>2. x.at = sock[c].at /\ x.ready = TRUE /\ x.retired = sock[c].retired /\ x.announcing = TRUE
    BY <1>t, <2>1 DEF Socket
  <2>3. OnReady(c) => sock' = [sock EXCEPT ![c] = [sock[c] EXCEPT !.ready = TRUE, !.announcing = TRUE]]
    BY <1>t DEF OnReady
  <2> QED BY <1>1, <2>1, <2>2, <2>3
<1>8. Announced(c) => Sets(c, sock[c].at, sock[c].ready, sock[c].retired, FALSE)
  <2>1. PICK x : x = [sock[c] EXCEPT !.announcing = FALSE]
    OBVIOUS
  <2>2. x.at = sock[c].at /\ x.ready = sock[c].ready /\ x.retired = sock[c].retired /\ x.announcing = FALSE
    BY <1>t, <2>1 DEF Socket
  <2>3. Announced(c) => sock' = [sock EXCEPT ![c] = [sock[c] EXCEPT !.announcing = FALSE]]
    BY <1>t DEF Announced
  <2> QED BY <1>1, <2>1, <2>2, <2>3
<1>9. ASSUME Replace(c)
      PROVE  /\ sock'[c].at = "accepting" /\ sock'[c].ready = sock[c].ready /\ sock'[c].announcing = sock[c].announcing
             /\ \A d \in Conn : d # c => /\ sock'[d].at = sock[d].at /\ sock'[d].announcing = sock[d].announcing
                                         /\ sock'[d].ready \in {FALSE, sock[d].ready}
                                         /\ ~Attached(d)'
  <2>1. sock' = [d \in Conn |-> IF d = c THEN [sock[c] EXCEPT !.at = "accepting"]
                                ELSE IF Attached(d) THEN [sock[d] EXCEPT !.ready = FALSE, !.retired = TRUE]
                                ELSE sock[d]]
    BY <1>9 DEF Replace
  <2>2. sock'[c].at = "accepting" /\ sock'[c].ready = sock[c].ready /\ sock'[c].announcing = sock[c].announcing
    <3>1. PICK x : x = [sock[c] EXCEPT !.at = "accepting"]
      OBVIOUS
    <3>2. x.at = "accepting" /\ x.ready = sock[c].ready /\ x.announcing = sock[c].announcing
      BY <1>t, <3>1 DEF Socket
    <3> QED BY <2>1, <3>1, <3>2
  <2>3. ASSUME NEW d \in Conn, d # c
        PROVE  /\ sock'[d].at = sock[d].at /\ sock'[d].announcing = sock[d].announcing
               /\ sock'[d].ready \in {FALSE, sock[d].ready} /\ ~Attached(d)'
    <3>1. CASE Attached(d)
      <4>1. PICK x : x = [sock[d] EXCEPT !.ready = FALSE, !.retired = TRUE]
        OBVIOUS
      <4>2. x.at = sock[d].at /\ x.ready = FALSE /\ x.retired = TRUE /\ x.announcing = sock[d].announcing
        BY <1>t, <4>1 DEF Socket
      <4>3. sock'[d] = x
        BY <2>1, <2>3, <3>1, <4>1
      <4> QED BY <4>2, <4>3 DEF Attached
    <3>2. CASE ~Attached(d)
      BY <2>1, <2>3, <3>2 DEF Attached
    <3> QED BY <3>1, <3>2
  <2> QED BY <2>2, <2>3
<1> QED BY <1>3, <1>4, <1>5, <1>6, <1>7, <1>8, <1>9, Zenon

LEMMA SocketsMove ==
  ASSUME Next
  PROVE  \/ sock' = sock
         \/ \E c \in Conn : Connect(c) \/ Accept(c) \/ Closed(c) \/ RetireSilent(c) \/ OnReady(c) \/ Announced(c) \/ Replace(c)
<1>1. CASE \/ \E c \in Conn : Ignored(c) \/ OnAck(c)
           \/ \E r \in box : Expire(r)
           \/ OnPut \/ OnCancel \/ OnList \/ PhoneStep
           \/ \E pulled \in BOOLEAN : Open(pulled)
           \/ Pull \/ ReadItem \/ DeliverHeld \/ CutOff
           \/ \E m \in Message : TakeCall(m)
           \/ \E e \in looked : Post(e)
  BY <1>1 DEF Ignored, OnAck, Expire, OnPut, OnCancel, OnList, PhoneStep, LinkUp, AskList, CatchUp, Open, Pull, ReadItem,
              DeliverHeld, CutOff, TakeCall, Post, relayVars
<1>2. CASE \/ \E m \in Message : Enqueue(m) \/ SendDirect(m) \/ CancelQueued(m) \/ PutExpires(m) \/ CallFails(m)
           \/ \E r \in box : Ages(r)
           \/ LinkDrops \/ DeleteBot
  BY <1>2 DEF Enqueue, SendDirect, CancelQueued, PutExpires, CallFails, Ages, LinkDrops, DeleteBot, relayVars
<1> QED BY <1>1, <1>2 DEF Next, RelayStep, HostStep, UserOrFault, Noticed, Cut

\* acceptHost retires the connections before it lets a new one in, and no two are being accepted at once.
LEMMA OneTakenStep ==
  ASSUME ~Overlaps, Typed, OneTaken, Next
  PROVE  OneTaken'
<1>1. ASSUME \A c \in Conn : Taken(c)' => Taken(c)
      PROVE  OneTaken'
  BY <1>1 DEF OneTaken
<1>2. CASE sock' = sock
  BY <1>1, <1>2 DEF Taken, Attached
<1>3. ASSUME NEW c \in Conn, Connect(c) \/ Accept(c) \/ Closed(c) \/ RetireSilent(c) \/ OnReady(c) \/ Announced(c)
      PROVE  OneTaken'
  <2>1. \A d \in Conn : d # c => sock'[d] = sock[d]
    BY <1>3, SetsIs DEF Sets
  <2>2. Taken(c)' => Taken(c)
    <3>1. CASE Connect(c) \/ Closed(c)
      BY <3>1, SetsIs DEF Sets, Taken, Attached
    <3>2. CASE Accept(c)
      BY <3>2 DEF Accept, Taken
    <3>3. CASE RetireSilent(c)
      BY <3>3 DEF RetireSilent, Taken
    <3>4. CASE OnReady(c) \/ Announced(c)
      BY <3>4, SetsIs DEF Sets, Taken, Attached
    <3> QED BY <1>3, <3>1, <3>2, <3>3, <3>4
  <2> QED BY <1>1, <2>1, <2>2 DEF Taken, Attached
<1>4. ASSUME NEW c \in Conn, Replace(c)
      PROVE  OneTaken'
  <2>1. \A d \in Conn : sock[d].at # "accepting"
    BY <1>4 DEF Replace, Free
  <2>2. ASSUME NEW d \in Conn, d # c
        PROVE  ~Taken(d)'
    <3>1. sock'[d].at = sock[d].at /\ ~Attached(d)'
      BY <1>4, <2>2, SetsIs
    <3> QED BY <2>1, <3>1 DEF Taken
  <2> QED BY <2>2 DEF OneTaken
<1> QED BY <1>2, <1>3, <1>4, SocketsMove

LEMMA ReadyOnceStep ==
  ASSUME Typed, PostsOne, Turns, ReadyOnce, Next
  PROVE  ReadyOnce'
<1> DEFINE New(c) == sock[c].at \in {"none", "knocking", "accepting"} \/ (conn = c /\ opened # TRUE) \/ \E a \in Elems(answers[c]) : a.t = "ready"
           Unready(c) == New(c) => sock[c].ready = FALSE
<1>s. \A c \in Conn : Unready(c)
  BY DEF ReadyOnce
<1>g. (\A c \in Conn : Unready(c)') => ReadyOnce'
  BY DEF ReadyOnce
<1>t. answers \in [Conn -> Seq(Word)] /\ \A c \in Conn : answers[c] \in Seq(Word)
  BY DEF Typed
<1>1. ASSUME sock' = sock, conn' \in {conn, 0}, opened' = opened \/ conn' = 0,
             \A c \in Conn : \A a \in Elems(answers'[c]) : a.t = "ready" => a \in Elems(answers[c])
      PROVE  ReadyOnce'
  <2>1. 0 \notin Conn
    BY DEF Conn
  <2> QED BY <1>1, <1>s, <1>g, <2>1
\* An answer that is added is no `ready`.
<1>2. ASSUME NEW seq \in Nat, NEW ok \in BOOLEAN, Ack(seq, ok), conn \in Conn
      PROVE  \A c \in Conn : \A a \in Elems(answers'[c]) : a.t = "ready" => a \in Elems(answers[c])
  <2> DEFINE x == [t |-> "ack", seq |-> seq, ok |-> ok]
  <2>1. x \in Word /\ x.t = "ack"
    BY DEF Word
  <2>2. answers' = [answers EXCEPT ![conn] = Append(@, x)]
    BY <1>2 DEF Ack, Answer
  <2> HIDE DEF x
  <2>3. Elems(Append(answers[conn], x)) = Elems(answers[conn]) \cup {x}
    BY <1>2, <1>t, <2>1, ElemsOfAppend
  <2>4. \A c \in Conn : Elems(answers'[c]) \subseteq Elems(answers[c]) \cup {x}
    BY <1>2, <1>t, <2>2, <2>3
  <2> QED BY <2>1, <2>4
<1>3. ASSUME NEW e \in MailItem, StartDelivery(e), conn \in Conn
      PROVE  \A c \in Conn : \A a \in Elems(answers'[c]) : a.t = "ready" => a \in Elems(answers[c])
  <2>1. e.seq \in Nat /\ (answers' = answers \/ \E ok \in BOOLEAN : Ack(e.seq, ok))
    BY <1>3 DEF StartDelivery, MailItem
  <2> QED BY <1>3, <2>1, <1>2
\* Less is on the way.
<1>4. ASSUME NEW c \in Conn, NEW q \in Seq(Word), Elems(q) \subseteq Elems(answers[c]), answers' = [answers EXCEPT ![c] = q]
      PROVE  \A d \in Conn : Elems(answers'[d]) \subseteq Elems(answers[d])
  BY <1>4, <1>t
<1>5. ASSUME NEW c \in Conn, answers[c] # <<>>, answers' = [answers EXCEPT ![c] = Tail(@)]
      PROVE  \A d \in Conn : Elems(answers'[d]) \subseteq Elems(answers[d])
  <2>1. Tail(answers[c]) \in Seq(Word) /\ Elems(Tail(answers[c])) \subseteq Elems(answers[c])
    BY <1>5, <1>t, ElemsOfTail
  <2> QED BY <1>4, <1>5, <2>1
<1>6. CASE CutOff
  <2>1. sock' = sock /\ conn' = 0 /\ conn \in 0..MaxConns
    BY <1>6 DEF CutOff, relayVars, Typed
  <2>2. \A d \in Conn : Elems(answers'[d]) \subseteq Elems(answers[d])
    <3>1. PICK n \in 0..Len(answers[conn]) : answers' = [answers EXCEPT ![conn] = SubSeq(@, 1, n)]
      BY <1>6 DEF CutOff
    <3>2. CASE conn \in Conn
      <4>1. SubSeq(answers[conn], 1, n) \in Seq(Word) /\ Elems(SubSeq(answers[conn], 1, n)) \subseteq Elems(answers[conn])
        BY <1>t, <3>1, <3>2, ElemsOfPrefix
      <4> QED BY <1>4, <3>1, <3>2, <4>1
    <3>3. CASE conn \notin Conn
      BY <1>t, <3>1, <3>3
    <3> QED BY <3>2, <3>3
  <2> QED BY <1>1, <2>1, <2>2
<1>7. CASE ReadItem \/ DeliverHeld
  <2>1. sock' = sock /\ conn' = conn /\ opened' = opened /\ conn \in Conn
    BY <1>7 DEF ReadItem, DeliverHeld, relayVars, Typed, Conn
  <2>2. answers' = answers \/ \E e \in MailItem : StartDelivery(e)
    <3>1. CASE ReadItem
      <4>1. items[conn] \in Seq(MailItem) /\ items[conn] # <<>>
        BY <2>1, <3>1 DEF ReadItem, Typed
      <4>2. Head(items[conn]) \in MailItem
        BY <4>1, ElemsOfTail
      <4> QED BY <3>1, <4>2 DEF ReadItem
    <3>2. CASE DeliverHeld
      BY <3>2 DEF DeliverHeld, Typed
    <3> QED BY <1>7, <3>1, <3>2
  <2> QED BY <1>1, <1>3, <2>1, <2>2
<1>8. ASSUME NEW e \in looked, Post(e)
      PROVE  ReadyOnce'
  <2>1. sock' = sock /\ conn' = conn /\ opened' = opened /\ e.seq \in Nat
    BY <1>8 DEF Post, relayVars, sessionVars, Typed, MailItem
  <2>2. CASE answers' = answers
    BY <1>1, <2>1, <2>2
  <2>3. CASE answers' # answers
    <3>1. e.seq # 0 /\ Ack(e.seq, TRUE)
      BY <1>8, <2>3 DEF Post
    <3>2. conn \in Conn
      BY <3>1 DEF PostsOne, LoopFree, Typed, Conn
    <3> QED BY <1>1, <1>2, <2>1, <3>1, <3>2
  <2> QED BY <2>2, <2>3
<1>9. ASSUME NEW pulled \in BOOLEAN, Open(pulled)
      PROVE  ReadyOnce'
  <2>u. opened # TRUE
    BY <1>9, Zenon DEF Open
  <2>1. sock' = sock /\ conn' = conn /\ conn \in Conn /\ opened' = TRUE
    BY <1>9 DEF Open, relayVars, Typed, Conn
  <2>2. \A c \in Conn : c # conn => answers'[c] = answers[c]
    BY <1>9, <2>1, <1>t DEF Open, Answer
  <2>3. sock'[conn].ready = FALSE
    BY <1>s, <2>1, <2>u
  <2>4. \A c \in Conn : c # conn => Unready(c)'
    BY <1>s, <2>1, <2>2
  <2> QED BY <1>g, <2>1, <2>3, <2>4
<1>10. ASSUME NEW c \in Conn, OnReady(c)
      PROVE  ReadyOnce'
  <2>1. /\ conn' = conn /\ opened' = opened /\ answers[c] # <<>> /\ sock[c].at = "open"
        /\ answers' = [answers EXCEPT ![c] = Tail(@)]
    BY <1>10 DEF OnReady, sessionVars, Attached
  <2>2. Sets(c, sock[c].at, TRUE, sock[c].retired, TRUE)
    BY <1>10, SetsIs
  <2>3. ~(conn = c /\ opened # TRUE)
    <3>1. conn = c /\ opened # TRUE => Turn(c) = 0
      BY Zenon DEF Turns, Unused
    <3> QED BY <2>1, <3>1, NoTurn
  <2>4. answers'[c] = <<>>
    <3>1. Len(answers[c]) <= 1
      BY OneTurn
    <3>2. Tail(answers[c]) = <<>>
      BY <1>t, <2>1, <3>1, TailOfOne
    <3> QED BY <1>t, <2>1, <3>2
  <2>5. Unready(c)'
    BY <2>1, <2>2, <2>3, <2>4, ElemsOfEmpty DEF Sets
  <2>6. \A d \in Conn : d # c => Unready(d)'
    BY <1>s, <1>t, <2>1, <2>2 DEF Sets
  <2> QED BY <1>g, <2>5, <2>6
<1>11. ASSUME NEW c \in Conn, Connect(c)
      PROVE  ReadyOnce'
  <2>1. answers' = answers /\ conn' = c /\ conn = 0 /\ sock[c].at = "none" /\ opened' = FALSE
    BY <1>11 DEF Connect, wires
  <2>2. Sets(c, "knocking", sock[c].ready, sock[c].retired, sock[c].announcing)
    BY <1>11, SetsIs
  <2>3. Unready(c)'
    BY <1>s, <2>1, <2>2 DEF Sets
  <2>4. \A d \in Conn : d # c => Unready(d)'
    BY <1>s, <2>1, <2>2 DEF Sets
  <2> QED BY <1>g, <2>3, <2>4
<1>12. ASSUME NEW c \in Conn, Accept(c) \/ Closed(c) \/ RetireSilent(c) \/ Announced(c)
      PROVE  ReadyOnce'
  <2>1. answers' = answers /\ conn' = conn /\ opened' = opened
    BY <1>12 DEF Accept, Closed, RetireSilent, Announced, wires, sessionVars
  <2>2. \E at \in {"open", "closed", sock[c].at}, ready \in {FALSE, sock[c].ready} : \E retired, announcing : Sets(c, at, ready, retired, announcing)
    BY <1>12, SetsIs
  <2>3. \A d \in Conn : Unready(d)'
    BY <1>s, <2>1, <2>2 DEF Sets
  <2> QED BY <1>g, <2>3
<1>13. ASSUME NEW c \in Conn, Replace(c)
      PROVE  ReadyOnce'
  <2>1. answers' = answers /\ conn' = conn /\ opened' = opened /\ sock[c].at = "knocking"
    BY <1>13 DEF Replace, wires, sessionVars
  <2>2. /\ sock'[c].ready = sock[c].ready
        /\ \A d \in Conn : d # c => sock'[d].at = sock[d].at /\ sock'[d].ready \in {FALSE, sock[d].ready}
    BY <1>13, SetsIs
  <2>3. sock[c].ready = FALSE
    BY <1>s, <2>1
  <2>4. \A d \in Conn : Unready(d)'
    BY <1>s, <2>1, <2>2, <2>3
  <2> QED BY <1>g, <2>4
<1>14. ASSUME NEW c \in Conn, OnAck(c) \/ Ignored(c)
       PROVE  ReadyOnce'
  <2>1. /\ sock' = sock /\ conn' = conn /\ opened' = opened
        /\ answers[c] # <<>> /\ answers' = [answers EXCEPT ![c] = Tail(@)]
    BY <1>14 DEF OnAck, Ignored, relayVars, sessionVars
  <2> QED BY <1>1, <1>5, <2>1
<1>15. CASE \/ \E r \in box : Expire(r)
            \/ OnPut \/ OnCancel \/ OnList \/ PhoneStep
            \/ Pull
            \/ \E m \in Message : TakeCall(m)
  <2>1. sock' = sock /\ conn' = conn /\ opened' = opened /\ answers' = answers
    BY <1>15 DEF Expire, OnPut, OnCancel, OnList, PhoneStep, LinkUp, AskList, CatchUp, Pull, TakeCall, wires, sessionVars, relayVars
  <2> QED BY <1>1, <2>1
<1>16. CASE \/ \E m \in Message : Enqueue(m) \/ SendDirect(m) \/ CancelQueued(m) \/ PutExpires(m) \/ CallFails(m)
            \/ \E r \in box : Ages(r)
            \/ LinkDrops \/ DeleteBot
  <2>1. sock' = sock /\ conn' = conn /\ opened' = opened /\ answers' = answers
    BY <1>16 DEF Enqueue, SendDirect, CancelQueued, PutExpires, CallFails, Ages, LinkDrops, DeleteBot, wires, sessionVars, relayVars
  <2> QED BY <1>1, <2>1
<1> QED BY <1>6, <1>7, <1>8, <1>9, <1>10, <1>11, <1>12, <1>13, <1>14, <1>15, <1>16
  DEF Next, RelayStep, HostStep, UserOrFault, Noticed, Cut

LEMMA CarriesBusy ==
  ASSUME NEW c \in Conn, NEW n, n # 0
  PROVE  (Carries(c, n) => Busy(c)) /\ (Carries(c, n)' => Busy(c)')
  BY ElemsOfEmpty DEF Carries, Busy, LoopFree

\* What is carried stays so, and no more is to be carried.
LEMMA SoundStays ==
  ASSUME Typed, NoZero, Carried, NEW c \in Conn, Serves(c),
         \A n : n # 0 /\ Carries(c, n) => Carries(c, n)',
         Busy(c) => Busy(c)',
         \A r \in UnderWay(box') : \E q \in UnderWay(box) : q.seq = r.seq,
         Waits(box') # {} => Waits(box) # {} \/ UnderWay(box) # {}
  PROVE  Sound(c)'
<1>1. \A r \in UnderWay(box) : r.seq # 0 /\ Carries(c, r.seq)
  BY DEF Carried, Sound, NoZero, UnderWay
<1>2. Waits(box) # {} \/ UnderWay(box) # {} => Busy(c)
  <2>1. UnderWay(box) # {} => Busy(c)
    BY <1>1, CarriesBusy
  <2> QED BY <2>1 DEF Carried, Sound
<1>3. \A r \in UnderWay(box') : Carries(c, r.seq)'
  <2>1. ASSUME NEW r \in UnderWay(box')
        PROVE  Carries(c, r.seq)'
    <3>1. PICK q \in UnderWay(box) : q.seq = r.seq
      OBVIOUS
    <3>2. \E n : n = q.seq /\ n # 0 /\ Carries(c, n)
      BY <1>1
    <3>3. PICK n : n = q.seq /\ n # 0 /\ Carries(c, n)
      BY <3>2
    <3>4. Carries(c, n)'
      BY <3>3
    <3> QED BY <3>1, <3>3, <3>4 DEF Carries
  <2> QED BY <2>1
<1> QED BY <1>2, <1>3 DEF Sound

\* One thing is carried and then carried on.
LEMMA SoundMoves ==
  ASSUME Typed, NoZero, Carried, NEW c \in Conn, Serves(c), box' = box, NEW m, m # 0,
         \A n : n # 0 /\ Carries(c, n) => n = m, Carries(c, m)'
  PROVE  Sound(c)'
<1>1. Busy(c)'
  BY CarriesBusy
<1>2. \A n : n # 0 /\ Carries(c, n) => Carries(c, n)'
  BY DEF Carries
<1>3. \A r \in UnderWay(box') : \E q \in UnderWay(box) : q.seq = r.seq
  OBVIOUS
<1>4. Waits(box') # {} => Waits(box) # {}
  OBVIOUS
<1> QED BY <1>1, <1>2, <1>3, <1>4, SoundStays

\* deliverNext, with nothing under way: what goes out is on its way.
LEMMA DeliverCarries ==
  ASSUME Typed, NEW c \in Conn, NEW rows \in SUBSET box, Deliver(c, rows), UnderWay(rows) = {}, sock[c].at = "open"
  PROVE  Sound(c)'
<1>t. rows \in SUBSET MailRow /\ items \in [Conn -> Seq(MailItem)] /\ items[c] \in Seq(MailItem)
  BY DEF Typed
<1>1. CASE Waits(rows) = {}
  <2>1. box' = rows
    BY <1>1 DEF Deliver
  <2> QED BY <1>1, <2>1 DEF Sound
<1>2. CASE Waits(rows) # {}
  <2>1. PICK row : row = NextRow(rows)
    OBVIOUS
  <2>2. PICK sent : sent = [row EXCEPT !.state = "delivering"]
    OBVIOUS
  <2>3. PICK x : x = [seq |-> row.seq, msg |-> row.msg]
    OBVIOUS
  <2>4. /\ box' = (rows \ {row}) \cup {sent}
        /\ items' = [items EXCEPT ![c] = Append(@, x)]
    BY <1>2, <2>1, <2>2, <2>3 DEF Deliver, Idle
  <2>5. row \in MailRow
    BY <1>t, <1>2, <2>1, NextRowIs
  <2>6. sent.seq = row.seq /\ x \in MailItem /\ x.seq = row.seq
    BY <2>2, <2>3, <2>5 DEF MailRow, MailItem
  <2>7. Elems(items'[c]) = Elems(items[c]) \cup {x}
    <3>1. Elems(Append(items[c], x)) = Elems(items[c]) \cup {x}
      BY <1>t, <2>6, ElemsOfAppend
    <3> QED BY <1>t, <2>4, <3>1
  <2>8. \A r \in UnderWay(box') : r.seq = x.seq
    <3>1. \A r \in rows : r.state # "delivering"
      BY DEF UnderWay
    <3> QED BY <2>4, <2>6, <3>1 DEF UnderWay
  <2>9. items'[c] # <<>>
    BY <2>7, ElemsOfEmpty
  <2>10. \A r \in UnderWay(box') : \E e \in Elems(items'[c]) : e.seq = r.seq
    BY <2>7, <2>8
  <2> QED BY <2>9, <2>10 DEF Sound, Carries, Busy
<1> QED BY <1>1, <1>2

\* deliver: what is not refused or posted at once is about to be posted.
LEMMA DeliveryCarries ==
  ASSUME Typed, conn \in Conn, conn' = conn, NEW e \in MailItem, StartDelivery(e)
  PROVE  Carries(conn, e.seq)'
<1>t. answers \in [Conn -> Seq(Word)] /\ answers[conn] \in Seq(Word) /\ e.seq \in Nat
  BY DEF Typed, MailItem
<1>1. ASSUME NEW ok \in BOOLEAN, Ack(e.seq, ok)
      PROVE  \E a \in Elems(answers'[conn]) : a.t = "ack" /\ a.seq = e.seq
  <2>1. PICK x : x = [t |-> "ack", seq |-> e.seq, ok |-> ok]
    OBVIOUS
  <2>2. x \in Word /\ x.t = "ack" /\ x.seq = e.seq
    BY <1>t, <2>1 DEF Word
  <2>3. answers' = [answers EXCEPT ![conn] = Append(@, x)]
    BY <1>1, <2>1 DEF Ack, Answer
  <2>4. Elems(Append(answers[conn], x)) = Elems(answers[conn]) \cup {x}
    BY <1>t, <2>2, ElemsOfAppend
  <2>5. answers'[conn] = Append(answers[conn], x)
    BY <1>t, <2>3
  <2> QED BY <2>2, <2>4, <2>5
<1>2. (\E ok \in BOOLEAN : Ack(e.seq, ok)) \/ looked' = looked \cup {e}
  BY DEF StartDelivery
<1>3. CASE \E ok \in BOOLEAN : Ack(e.seq, ok)
  BY <1>1, <1>3 DEF Carries
<1>4. CASE looked' = looked \cup {e}
  <2>1. e \in looked' /\ e.seq = e.seq
    BY <1>4
  <2> QED BY <2>1 DEF Carries
<1> QED BY <1>2, <1>3, <1>4

\* The host's steps carry on what it has: an item read is held, answered or about to be posted, and so on.
LEMMA HostCarries ==
  ASSUME Typed, NoZero, PostsOne, Turns, ReadyOnce, Carried, HostStep, NEW c \in Conn, Serves(c)'
  PROVE  Sound(c)'
<1>t. /\ answers \in [Conn -> Seq(Word)] /\ answers[c] \in Seq(Word)
      /\ items \in [Conn -> Seq(MailItem)] /\ items[c] \in Seq(MailItem)
      /\ 0 \notin Conn /\ conn \in 0..MaxConns
  BY DEF Typed, Conn
<1>o. ASSUME sock' = sock, conn' = conn
      PROVE  Serves(c) /\ conn = c
  BY <1>o DEF Serves, Attached
<1>1. ASSUME NEW d \in Conn, Connect(d)
      PROVE  FALSE
  <2>1. sock'[d].at = "knocking" /\ conn' = d
    BY <1>1, SetsIs DEF Sets, Connect
  <2> QED BY <2>1 DEF Serves, Attached
<1>2. ASSUME NEW pulled \in BOOLEAN, Open(pulled)
      PROVE  FALSE
  <2>1. opened # TRUE
    BY <1>2, Zenon DEF Open
  <2>2. sock' = sock /\ conn' = conn
    BY <1>2 DEF Open, relayVars
  <2>3. Serves(c) /\ conn = c
    BY <1>o, <2>2
  <2>4. sock[c].ready = FALSE
    BY <2>1, <2>3, Zenon DEF ReadyOnce
  <2> QED BY <2>3, <2>4 DEF Serves
<1>3. CASE CutOff
  <2>1. conn' = 0
    BY <1>3 DEF CutOff
  <2> QED BY <1>t, <2>1 DEF Serves
<1>4. CASE ReadItem
  <2>1. /\ sock' = sock /\ conn' = conn /\ box' = box /\ items[conn] # <<>>
        /\ held' = Head(items[conn]) \/ StartDelivery(Head(items[conn]))
    BY <1>4 DEF ReadItem, relayVars
  <2>2. Serves(c) /\ conn = c
    BY <1>o, <2>1
  <2>3. PICK e \in MailItem : e = Head(items[c]) /\ e \in Elems(items[c])
    BY <1>t, <2>1, <2>2, ElemsOfTail
  <2>4. e.seq # 0 /\ e # NoItem
    BY <2>3 DEF NoZero, NoItem
  <2>5. answers[c] = <<>> /\ held = NoItem /\ LoopFree /\ Len(items[c]) <= 1
    BY <2>1, <2>2, OneTurn
  <2>6. \A f \in Elems(items[c]) : f = e
    BY <1>t, <2>3, <2>5 DEF Elems
  <2>7. \A n : n # 0 /\ Carries(c, n) => n = e.seq
    BY <2>5, <2>6, ElemsOfEmpty DEF Carries, LoopFree
  <2>8. Carries(c, e.seq)'
    <3>1. CASE held' = e
      BY <2>4, <3>1 DEF Carries
    <3>2. CASE StartDelivery(e)
      BY <2>1, <2>2, <3>2, DeliveryCarries
    <3> QED BY <2>1, <2>2, <2>3, <3>1, <3>2
  <2> QED BY <2>1, <2>2, <2>4, <2>7, <2>8, SoundMoves
<1>5. CASE DeliverHeld
  <2>1. sock' = sock /\ conn' = conn /\ box' = box /\ held # NoItem /\ LoopFree /\ StartDelivery(held)
    BY <1>5 DEF DeliverHeld, relayVars
  <2>2. Serves(c) /\ conn = c
    BY <1>o, <2>1
  <2>3. held \in MailItem /\ held.seq # 0
    BY <2>1 DEF Typed, NoZero
  <2>4. items[c] = <<>> /\ answers[c] = <<>>
    BY <2>1, <2>2, OneTurn
  <2>5. \A n : n # 0 /\ Carries(c, n) => n = held.seq
    BY <2>1, <2>4, ElemsOfEmpty DEF Carries, LoopFree
  <2>6. PICK e \in MailItem : e = held
    BY <2>3
  <2>7. Carries(c, e.seq)'
    BY <2>1, <2>2, <2>6, DeliveryCarries
  <2> QED BY <2>1, <2>2, <2>3, <2>5, <2>6, <2>7, SoundMoves
<1>6. ASSUME NEW e \in looked, Post(e)
      PROVE  Sound(c)'
  <2>1. /\ sock' = sock /\ conn' = conn /\ box' = box /\ items' = items /\ held' = held /\ looked' = looked \ {e}
        /\ e.seq \in Nat
    BY <1>6 DEF Post, relayVars, sessionVars, Typed, MailItem
  <2>2. Serves(c) /\ conn = c
    BY <1>o, <2>1
  <2>3. CASE e.seq = 0
    <3>1. answers' = answers
      BY <1>6, <2>3 DEF Post
    <3>2. \A n : n # 0 /\ Carries(c, n) => Carries(c, n)'
      BY <2>1, <2>3, <3>1 DEF Carries
    <3>3. Busy(c) => Busy(c)'
      BY <2>1, <2>3, <3>1 DEF Busy, LoopFree
    <3> QED BY <2>1, <2>2, <3>2, <3>3, SoundStays
  <2>4. CASE e.seq # 0
    <3>1. Ack(e.seq, TRUE)
      BY <1>6, <2>4 DEF Post
    <3>2. ~LoopFree
      BY <2>4 DEF LoopFree
    <3>3. items[c] = <<>> /\ answers[c] = <<>> /\ held = NoItem
      BY <2>2, <3>2, OneTurn
    <3>4. \A f \in looked : f.seq # 0 => f = e
      BY <2>4 DEF PostsOne
    <3>5. \A n : n # 0 /\ Carries(c, n) => n = e.seq
      BY <3>3, <3>4, ElemsOfEmpty DEF Carries
    <3>6. PICK x : x = [t |-> "ack", seq |-> e.seq, ok |-> TRUE]
      OBVIOUS
    <3>7. x \in Word /\ x.t = "ack" /\ x.seq = e.seq
      BY <2>1, <3>6 DEF Word
    <3>8. answers'[c] = Append(answers[c], x)
      BY <1>t, <2>2, <3>1, <3>6 DEF Ack, Answer
    <3>9. x \in Elems(answers'[c])
      BY <1>t, <3>7, <3>8, ElemsOfAppend
    <3>10. Carries(c, e.seq)'
      BY <2>1, <3>7, <3>9 DEF Carries
    <3> QED BY <2>1, <2>2, <2>4, <3>5, <3>10, SoundMoves
  <2> QED BY <2>3, <2>4
<1>7. CASE Pull \/ \E m \in Message : TakeCall(m)
  <2>1. /\ sock' = sock /\ conn' = conn /\ box' = box /\ items' = items /\ held' = held /\ answers' = answers
        /\ looked \subseteq looked'
    BY <1>7 DEF Pull, TakeCall, relayVars, sessionVars, wires, chatVars
  <2>2. Serves(c)
    BY <1>o, <2>1
  <2>3. \A n : n # 0 /\ Carries(c, n) => Carries(c, n)'
    BY <2>1 DEF Carries
  <2>4. Busy(c) => Busy(c)'
    BY <2>1 DEF Busy, LoopFree
  <2> QED BY <2>1, <2>2, <2>3, <2>4, SoundStays
<1> QED BY <1>1, <1>2, <1>3, <1>4, <1>5, <1>6, <1>7 DEF HostStep, Noticed

\* What waits again, or has aged, was there before.
LEMMA RowsOnly ==
  ASSUME box \subseteq MailRow
  PROVE  /\ \A rows \in SUBSET box : UnderWay(rows) \subseteq UnderWay(box) /\ Waits(rows) \subseteq Waits(box)
         /\ UnderWay(Requeued(box)) = {}
         /\ Waits(Requeued(box)) # {} => Waits(box) # {} \/ UnderWay(box) # {}
         /\ \A r \in box : \A q \in UnderWay((box \ {r}) \cup {[r EXCEPT !.old = TRUE]}) : \E p \in UnderWay(box) : p.seq = q.seq
         /\ \A r \in box : Waits((box \ {r}) \cup {[r EXCEPT !.old = TRUE]}) \subseteq Waits(box)
<1>1. \A rows \in SUBSET box : UnderWay(rows) \subseteq UnderWay(box) /\ Waits(rows) \subseteq Waits(box)
  BY DEF UnderWay, Waits
<1>2. UnderWay(Requeued(box)) = {}
  BY RequeuedNotUnderWay
<1>3. ASSUME NEW q \in Waits(Requeued(box))
      PROVE  Waits(box) # {} \/ UnderWay(box) # {}
  <2>1. PICK r \in box : q = [r EXCEPT !.state = "queued"]
    BY DEF Waits, Requeued
  <2>2. q.old = r.old /\ r.state \in {"queued", "delivering"}
    BY <2>1 DEF MailRow
  <2>3. r \in Waits(box) \/ r \in UnderWay(box)
    BY <2>2 DEF Waits, UnderWay
  <2> QED BY <2>3
<1>4. ASSUME NEW r \in box
      PROVE  /\ \A q \in UnderWay((box \ {r}) \cup {[r EXCEPT !.old = TRUE]}) : \E p \in UnderWay(box) : p.seq = q.seq
             /\ Waits((box \ {r}) \cup {[r EXCEPT !.old = TRUE]}) \subseteq Waits(box)
  <2>1. PICK x : x = [r EXCEPT !.old = TRUE]
    OBVIOUS
  <2>2. x.seq = r.seq /\ x.state = r.state /\ x.old = TRUE
    BY <2>1 DEF MailRow
  <2>3. \A q \in UnderWay((box \ {r}) \cup {x}) : \E p \in UnderWay(box) : p.seq = q.seq
    BY <2>2 DEF UnderWay
  <2>4. Waits((box \ {r}) \cup {x}) \subseteq Waits(box)
    BY <2>2 DEF Waits
  <2> QED BY <2>1, <2>3, <2>4
<1> QED BY <1>1, <1>2, <1>3, <1>4

\* On its way from the relay: the first item once the presence is written, the next with each acknowledgement;
\* and a connection that is taken, or ends, isn't the one that is online.
LEMMA RelayCarries ==
  ASSUME ~Overlaps, Typed, NoZero, AnnouncingOnline, UnderWayAtHost, Turns, OneTaken, ReadyOnce, Carried,
         NEW c \in Conn, Serves(c)',
         \/ RelayStep
         \/ \E d \in Conn : RetireSilent(d)
         \/ \E r \in box : Ages(r)
  PROVE  Sound(c)'
<1>t. /\ answers \in [Conn -> Seq(Word)] /\ answers[c] \in Seq(Word)
      /\ sock \in [Conn -> Socket] /\ box \subseteq MailRow
  BY DEF Typed
<1>w. conn = c /\ held' = held /\ looked' = looked
  <2>1. ASSUME NEW d \in Conn,
               Replace(d) \/ Accept(d) \/ Closed(d) \/ Ignored(d) \/ OnReady(d) \/ Announced(d) \/ OnAck(d) \/ RetireSilent(d)
        PROVE  conn' = conn /\ held' = held /\ looked' = looked
    <3>1. CASE Accept(d) \/ Closed(d)
      BY <3>1 DEF Accept, Closed, sessionVars, chatVars
    <3>5. CASE Replace(d)
      BY <3>5, SetsIs DEF Serves, Attached
    <3>4. CASE Ignored(d) \/ OnReady(d) \/ RetireSilent(d)
      BY <3>4 DEF Ignored, OnReady, RetireSilent, sessionVars, chatVars
    <3>2. CASE Announced(d)
      BY <3>2 DEF Announced, sessionVars, chatVars
    <3>3. CASE OnAck(d)
      BY <3>3 DEF OnAck, sessionVars, chatVars
    <3> QED BY <2>1, <3>1, <3>2, <3>3, <3>4, <3>5
  <2>2. ASSUME (\E r \in box : Expire(r) \/ Ages(r)) \/ OnPut \/ OnCancel \/ OnList
        PROVE  conn' = conn /\ held' = held /\ looked' = looked
    BY <2>2 DEF Expire, Ages, OnPut, OnCancel, OnList, sessionVars, chatVars
  <2>3. conn' = conn /\ held' = held /\ looked' = looked
    BY <2>1, <2>2 DEF RelayStep
  <2> QED BY <2>3 DEF Serves
<1>r. /\ \A rows \in SUBSET box : UnderWay(rows) \subseteq UnderWay(box) /\ Waits(rows) \subseteq Waits(box)
      /\ UnderWay(Requeued(box)) = {}
      /\ Waits(Requeued(box)) # {} => Waits(box) # {} \/ UnderWay(box) # {}
  BY <1>t, RowsOnly
<1>s. ASSUME sock'[c] = sock[c]
      PROVE  Serves(c)
  BY <1>s, <1>w DEF Serves, Attached
<1>k. ASSUME sock'[c] = sock[c], items' = items, answers'[c] = answers[c],
             box' \subseteq box \/ box' = Requeued(box)
      PROVE  Sound(c)'
  <2>1. \A n : n # 0 /\ Carries(c, n) => Carries(c, n)'
    BY <1>k, <1>w DEF Carries
  <2>2. Busy(c) => Busy(c)'
    BY <1>k, <1>w DEF Busy, LoopFree
  <2>3. \A r \in UnderWay(box') : \E q \in UnderWay(box) : q.seq = r.seq
    BY <1>k, <1>r
  <2>4. Waits(box') # {} => Waits(box) # {} \/ UnderWay(box) # {}
    BY <1>k, <1>r
  <2> QED BY <1>s, <1>k, <2>1, <2>2, <2>3, <2>4, SoundStays
\* A connection of which something was heard, and that is attached, is the one that is online.
<1>a. ASSUME NEW d \in Conn, Attached(d), d = c \/ sock'[c] = sock[c]
      PROVE  d = c
  BY <1>a, <1>s DEF OneTaken, Taken, Serves
<1>1. ASSUME NEW d \in Conn, Replace(d)
      PROVE  FALSE
  BY <1>1, SetsIs DEF Serves, Attached
<1>2. ASSUME NEW d \in Conn, Accept(d)
      PROVE  Sound(c)'
  <2>1. items' = items /\ answers' = answers /\ box' = box /\ sock[d].at = "accepting"
    BY <1>2 DEF Accept, wires
  <2>2. d # c
    <3>1. sock[d].ready = FALSE
      BY <2>1 DEF ReadyOnce
    <3> QED BY <1>2, <3>1, SetsIs DEF Sets, Serves
  <2>3. sock'[c] = sock[c]
    BY <1>2, <2>2, SetsIs DEF Sets
  <2> QED BY <1>k, <2>1, <2>3
<1>3. ASSUME NEW d \in Conn, RetireSilent(d) \/ Closed(d)
      PROVE  Sound(c)'
  <2>1. items' = items /\ answers' = answers /\ (box' = box \/ box' = Requeued(box))
    BY <1>3 DEF RetireSilent, Closed, wires
  <2>2. d # c
    BY <1>3, SetsIs DEF Sets, Serves, Attached
  <2>3. sock'[c] = sock[c]
    BY <1>3, <2>2, SetsIs DEF Sets
  <2> QED BY <1>k, <2>1, <2>3
<1>4. ASSUME NEW d \in Conn, Ignored(d)
      PROVE  Sound(c)'
  <2>1. /\ items' = items /\ sock' = sock /\ box' = box /\ sock[d].retired
        /\ answers' = [answers EXCEPT ![d] = Tail(@)]
    BY <1>4 DEF Ignored, relayVars
  <2>2. d # c
    BY <2>1, <1>s DEF Serves, Attached
  <2> QED BY <1>k, <1>t, <2>1, <2>2
<1>5. ASSUME NEW d \in Conn, OnReady(d)
      PROVE  Sound(c)'
  <2>1. Attached(d) /\ answers[d] # <<>> /\ Head(answers[d]).t = "ready" /\ box' = box
    BY <1>5 DEF OnReady
  <2>2. Sets(d, sock[d].at, TRUE, sock[d].retired, TRUE)
    BY <1>5, SetsIs
  <2>3. d = c
    BY <1>a, <2>1, <2>2 DEF Sets
  <2>4. sock[c].ready = FALSE
    <3>1. Head(answers[c]) \in Elems(answers[c])
      BY <1>t, <2>1, <2>3, ElemsOfTail
    <3> QED BY <2>1, <2>3, <3>1 DEF ReadyOnce
  <2>5. ~Online
    BY <2>1, <2>3, <2>4 DEF Online, OneTaken, Taken
  <2>6. UnderWay(box') = {}
    BY <2>1, <2>5 DEF UnderWayAtHost
  <2>7. sock'[c].announcing = TRUE
    BY <2>2, <2>3 DEF Sets
  <2> QED BY <2>6, <2>7 DEF Sound, Busy
<1>6. ASSUME NEW d \in Conn, Announced(d)
      PROVE  Sound(c)'
  <2>1. sock[d].announcing = TRUE
    BY <1>6, Zenon DEF Announced
  <2>2. Attached(d) /\ sock[d].ready = TRUE
    BY <2>1 DEF AnnouncingOnline
  <2>3. Sets(d, sock[d].at, sock[d].ready, sock[d].retired, FALSE)
    BY <1>6, SetsIs
  <2>4. d = c
    BY <1>a, <2>2, <2>3 DEF Sets
  <2>5. items[c] = <<>> /\ answers[c] = <<>> /\ held = NoItem /\ LoopFree
    BY <1>w, <2>1, <2>4, OneTurn
  <2>6. UnderWay(box) = {}
    <3>1. ASSUME NEW r \in UnderWay(box)
          PROVE  FALSE
      <4>1. Carries(c, r.seq) /\ r.seq # 0
        BY <1>w, <2>2, <2>4 DEF Carried, Sound, Serves, NoZero, UnderWay
      <4> QED BY <2>5, <4>1, ElemsOfEmpty DEF Carries, LoopFree
    <3> QED BY <3>1
  <2>7. Deliver(c, box)
    BY <1>6, <2>2, <2>4 DEF Announced
  <2> QED BY <2>2, <2>4, <2>6, <2>7, DeliverCarries DEF Attached
<1>7. ASSUME NEW d \in Conn, OnAck(d)
      PROVE  Sound(c)'
  <2>1. /\ Attached(d) /\ answers[d] # <<>> /\ sock' = sock
    BY <1>7 DEF OnAck
  <2>2. d = c /\ Serves(c)
    BY <1>a, <1>s, <2>1
  <2>3. items[c] = <<>> /\ held = NoItem /\ LoopFree /\ Len(answers[c]) <= 1
    BY <1>w, <2>1, <2>2, OneTurn
  <2>4. \A a \in Elems(answers[c]) : a = Head(answers[c])
    BY <1>t, <2>1, <2>2, <2>3 DEF Elems
  <2> DEFINE done == {r \in UnderWay(box) : r.seq = Head(answers[c]).seq}
  <2>5. done = UnderWay(box)
    <3>1. ASSUME NEW r \in UnderWay(box)
          PROVE  r.seq = Head(answers[c]).seq
      <4>1. Carries(c, r.seq) /\ r.seq # 0
        BY <2>2 DEF Carried, Sound, NoZero, UnderWay
      <4> QED BY <2>3, <2>4, <4>1, ElemsOfEmpty DEF Carries, LoopFree
    <3> QED BY <3>1
  <2>6. Deliver(c, box \ done)
    BY <1>7, <2>2 DEF OnAck, Serves
  <2>7. UnderWay(box \ UnderWay(box)) = {}
    BY DEF UnderWay
  <2> HIDE DEF done
  <2>8. \E rows \in SUBSET box : Deliver(c, rows) /\ UnderWay(rows) = {}
    BY <2>5, <2>6, <2>7
  <2> QED BY <2>2, <2>8, DeliverCarries DEF Serves, Attached
<1>8. ASSUME NEW r \in box, Expire(r)
      PROVE  Sound(c)'
  <2>1. items' = items /\ answers' = answers /\ sock' = sock /\ box' \subseteq box
    BY <1>8 DEF Expire, wires
  <2> QED BY <1>k, <2>1
<1>9. ASSUME NEW r \in box, Ages(r)
      PROVE  Sound(c)'
  <2>1. items' = items /\ answers' = answers /\ sock' = sock /\ box' = (box \ {r}) \cup {[r EXCEPT !.old = TRUE]}
    BY <1>9 DEF Ages, wires
  <2>2. \A n : n # 0 /\ Carries(c, n) => Carries(c, n)'
    BY <1>w, <2>1 DEF Carries
  <2>3. Busy(c) => Busy(c)'
    BY <1>w, <2>1 DEF Busy, LoopFree
  <2>4. \A q \in UnderWay(box') : \E p \in UnderWay(box) : p.seq = q.seq
    BY <1>t, <2>1, RowsOnly
  <2>5. Waits(box') \subseteq Waits(box)
    <3>1. Waits((box \ {r}) \cup {[r EXCEPT !.old = TRUE]}) \subseteq Waits(box)
      BY <1>t, RowsOnly, Zenon
    <3> QED BY <2>1, <3>1, Zenon
  <2> QED BY <1>s, <2>1, <2>2, <2>3, <2>4, <2>5, SoundStays, Zenon
<1>10. CASE OnPut
  <2>1. items' = items /\ answers' = answers /\ sock' = sock /\ (Online => box' = box)
    BY <1>10 DEF OnPut, wires
  <2>2. Online
    BY <1>s, <2>1 DEF Online, Serves
  <2> QED BY <1>k, <2>1, <2>2
<1>11. CASE OnCancel \/ OnList
  <2>1. items' = items /\ answers' = answers /\ sock' = sock /\ box' \subseteq box
    BY <1>11 DEF OnCancel, OnList, wires, relayVars
  <2> QED BY <1>k, <2>1
<1> QED BY <1>1, <1>2, <1>3, <1>4, <1>5, <1>6, <1>7, <1>8, <1>9, <1>10, <1>11 DEF RelayStep

LEMMA CarriedStep ==
  ASSUME ~Overlaps, Typed, NoZero, AnnouncingOnline, UnderWayAtHost, PostsOne, Turns, OneTaken, ReadyOnce, Carried, Next
  PROVE  Carried'
<1> SUFFICES ASSUME NEW c \in Conn, Serves(c)'
             PROVE  Sound(c)'
  BY DEF Carried
<1>1. CASE HostStep
  BY <1>1, HostCarries
<1>2. CASE RelayStep \/ (\E d \in Conn : RetireSilent(d)) \/ (\E r \in box : Ages(r))
  BY <1>2, RelayCarries
<1>3. CASE Cut
  <2>1. conn' = 0 /\ 0 \notin Conn
    BY <1>3 DEF Cut, CutOff, Conn
  <2> QED BY <2>1 DEF Serves
<1>4. CASE \/ PhoneStep
           \/ \E m \in Message : Enqueue(m) \/ SendDirect(m) \/ CancelQueued(m) \/ PutExpires(m) \/ CallFails(m)
           \/ LinkDrops \/ DeleteBot
  <2>1. /\ sock' = sock /\ box' = box /\ conn' = conn /\ held' = held /\ looked' = looked
        /\ items' = items /\ answers' = answers
    BY <1>4 DEF PhoneStep, LinkUp, AskList, CatchUp, Enqueue, SendDirect, CancelQueued, PutExpires, CallFails, LinkDrops, DeleteBot,
                relayVars, wires, sessionVars, chatVars
  <2>2. Serves(c) /\ Sound(c)
    BY <2>1 DEF Carried, Serves, Attached
  <2> QED BY <2>1, <2>2 DEF Sound, Carries, Busy, LoopFree
<1> QED BY <1>1, <1>2, <1>3, <1>4 DEF Next, UserOrFault

LEMMA MoveInit == Init => MoveInv
<1> SUFFICES ASSUME Init
             PROVE  MoveInv
  OBVIOUS
<1>1. PostsOne
  BY DEF Init, PostsOne, LoopFree
<1>2. Turns
  <2>1. \A c \in Conn : Len(items[c]) = 0 /\ Len(answers[c]) = 0 /\ Announcing(c) = 0 /\ Holding(c) = 0
    BY DEF Init, Announcing, Holding, Conn
  <2>2. \A c \in Conn : Turn(c) = 0
    <3>1. ASSUME NEW a \in {0}, NEW b \in {0}, NEW x \in {0}, NEW y \in {0}
          PROVE  a + b + x + y = 0
      OBVIOUS
    <3> QED BY <2>1, <3>1 DEF Turn
  <2> QED BY <2>2 DEF Turns
<1>3. OneTaken
  BY DEF Init, OneTaken, Taken, Attached
<1>4. ReadyOnce
  BY DEF Init, ReadyOnce
<1>5. Carried
  BY DEF Init, Carried, Serves, Attached
<1> QED BY <1>1, <1>2, <1>3, <1>4, <1>5 DEF MoveInv

LEMMA MoveStep ==
  ASSUME ~Overlaps, MailInv, MailInv', NoZero, AnnouncingOnline, UnderWayAtHost, MoveInv, [Next]_vars
  PROVE  MoveInv'
<1>1. CASE Next
  <2>1. Typed /\ Typed'
    BY DEF MailInv
  <2> QED BY <1>1, <2>1, PostsOneStep, TurnsStep, OneTakenStep, ReadyOnceStep, CarriedStep DEF MoveInv
<1>2. CASE UNCHANGED vars
  <2>1. UNCHANGED <<relayVars, wires, sessionVars, chatVars>>
    BY <1>2 DEF vars
  <2>2. UNCHANGED <<box, sock, items, answers, conn, opened, held, looked>>
    BY <2>1 DEF relayVars, wires, sessionVars, chatVars
  <2>3. PostsOne' /\ Turns'
    BY <2>2 DEF MoveInv, PostsOne, LoopFree, Turns, Turn, Announcing, Holding, Kept, Posting, Unused
  <2>4. OneTaken' /\ ReadyOnce'
    BY <2>2 DEF MoveInv, OneTaken, Taken, Attached, ReadyOnce
  <2>5. Carried'
    BY <2>2 DEF MoveInv, Carried, Serves, Attached, Sound, Carries, Busy, LoopFree
  <2> QED BY <2>3, <2>4, <2>5 DEF MoveInv
<1> QED BY <1>1, <1>2

LEMMA MoveInvMoves ==
  ASSUME Typed, NoZero, MoveInv
  PROVE  MailMoves
<1> SUFFICES ASSUME NEW c \in Conn, Attached(c), sock[c].ready, conn = c, Waits(box) # {} \/ UnderWay(box) # {}
             PROVE  items[c] # <<>> \/ answers[c] # <<>> \/ sock[c].announcing \/ held # NoItem \/ ~LoopFree
  BY DEF MailMoves
<1>1. sock[c].ready = TRUE
  BY DEF Typed, Socket
<1>2. Serves(c)
  BY <1>1 DEF Serves
<1>3. Busy(c)
  <2>1. ASSUME NEW r \in UnderWay(box)
        PROVE  Busy(c)
    <3>1. r.seq # 0 /\ Carries(c, r.seq)
      BY <1>2 DEF MoveInv, Carried, Sound, NoZero, UnderWay
    <3> QED BY <3>1, CarriesBusy
  <2> QED BY <1>2, <2>1 DEF MoveInv, Carried, Sound
<1> QED BY <1>3, Zenon DEF Busy

\* No wake-up is lost between the relay and the host (cloud/src/relay.ts, onHost "ready", onAck and deliverNext;
\* host/src/remote/relay.rs, on_message): mail for a host that is online always has something on its way that
\* sends the next of it.
THEOREM NothingForgotten == ~Overlaps => (Spec => []MailMoves)
<1> SUFFICES ASSUME ~Overlaps
             PROVE  Spec => []MailMoves
  OBVIOUS
<1> DEFINE Under == AnnouncingOnline /\ UnderWayAtHost
           All == Bounded /\ Under /\ MoveInv
<1>1. Init => All
  BY BoundedInit, AnnouncingInit, MoveInit
<1>2. ASSUME MailInv, MailInv', All, [Next]_vars
      PROVE  All'
  <2>1. Bounded'
    BY <1>2, BoundedStep
  <2>2. Under'
    <3>1. ASSUME UNCHANGED vars
          PROVE  Under'
      <4>1. sock' = sock /\ box' = box
        BY <3>1 DEF vars, relayVars
      <4> QED BY <1>2, <4>1, SocketsStay
    <3> QED BY <1>2, <3>1, UnderWayStep DEF MailInv
  <2>3. MoveInv'
    BY <1>2, MoveStep DEF Bounded
  <2> QED BY <2>1, <2>2, <2>3
<1>3. MailInv /\ All => MailMoves
  BY MoveInvMoves DEF MailInv, Bounded
<1> QED BY <1>1, <1>2, <1>3, MailInvAlways, PTL DEF Spec
=============================================================================
