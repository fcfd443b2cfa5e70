----------------------------- MODULE OfflineMail -----------------------------
(***************************************************************************)
(* A message sent while the computer is away: the phone that sends, takes  *)
(* back and resends it (apps/ios/Kit: BotStore+Sending, ChannelTransport), *)
(* the relay that holds it (cloud/src/relay.ts), and the host that posts   *)
(* it (host/src/remote/relay.rs, relay/delivery.rs, api/bots.rs "send").   *)
(*                                                                         *)
(* Abstractions.  One phone, one bot; a message is its clientNonce.  What  *)
(* the phone believes of the host's presence may be stale, so each send    *)
(* takes either route, and a message is sent directly once at a time.      *)
(* What the relay, or the host on a channel, tells a connected phone       *)
(* reaches it at once; an answer lost is a link lost before it.  The ACL   *)
(* exchange before `ready` is left out.  `accepted`, `ended` and `log`'s   *)
(* seq are history variables.                                              *)
(***************************************************************************)
EXTENDS Integers, Sequences, FiniteSets

CONSTANTS
  Message,
  PerDevice,   \* MBOX_PER_DEVICE: 50 in the code
  Overlaps,    \* whether the relay handles events while it waits for a presence write
  Exclusive,   \* whether "send" calls look a nonce up and post one at a time
  Expires,     \* whether mail may outlive its 24 hours
  MayDelete,   \* whether the user may delete the bot
  MaxSends,    \* bound: the user's sends and resends
  MaxCancels,  \* bound: messages taken back
  MaxConns,    \* bound: the host's connections; the last one comes after the others and lasts
  MaxLinks     \* bound: the phone's connections; the last one lasts

ASSUME OfflineMailAssumption ==
  /\ PerDevice \in Nat /\ Overlaps \in BOOLEAN /\ Exclusive \in BOOLEAN /\ Expires \in BOOLEAN
  /\ MayDelete \in BOOLEAN
  /\ MaxSends \in Nat /\ MaxCancels \in Nat /\ MaxConns \in Nat \ {0} /\ MaxLinks \in Nat \ {0}

Conn == 1..MaxConns
Seqno == 1..MaxSends
Row == [seq : Seqno, msg : Message, state : {"queued", "delivering"}, old : BOOLEAN]
Item == [seq : Seqno, msg : Message]
NoItem == [seq |-> 0]
Socket == [at : {"none", "knocking", "accepting", "open", "closed"},
           ready : BOOLEAN, retired : BOOLEAN, announcing : BOOLEAN]
FromHost == [t : {"ready"}] \cup [t : {"ack"}, seq : Seqno, ok : BOOLEAN]
Request == [t : {"put", "cancel"}, msg : Message] \cup [t : {"list"}]
Status == {"none", "sending", "waiting", "delivering", "failed", "shown", "discarded"}

VARIABLES
  \* the phone
  phone,    \* phone[m]: the status of its own copy; "shown": the computer's copy replaced it
  puts, cancels,  \* mbox.put and mbox.cancel without an answer yet
  snapshot, listing,  \* reconcileQueued: the waiting messages it asks about, and how far it is
  link,     \* whether the link is up, and how many there were
  up,       \* what the phone has sent on the link
  \* the relay
  box, lastSeq, sock,
  \* the host's connections
  items, answers,
  \* the host
  conn, opened,  \* its connection (0: none), and whether it has sent `ready` on it
  synced, held,  \* whether the account state was pulled, and the item that waits for it
  looked,   \* the "send" calls between the lookup of the nonce and the new entry
  call,     \* call[m]: the phone's direct send
  bot,      \* whether the bot still exists
  log,      \* the chat's messages, with the mailbox item each came from (0: sent directly)
  sends, cancelled, accepted, ended

asking == <<puts, cancels, snapshot, listing>>
phoneVars == <<phone, asking>>
linkVars == <<link, up>>
relayVars == <<box, lastSeq, sock>>
wires == <<items, answers>>
sessionVars == <<conn, opened, synced, held>>
chatVars == <<looked, call, bot, log>>
counts == <<sends, cancelled>>
history == <<accepted, ended>>
vars == <<phoneVars, linkVars, relayVars, wires, sessionVars, chatVars, counts, history>>

-----------------------------------------------------------------------------
(***************************************************************************)
(* The relay.                                                              *)
(***************************************************************************)
Attached(c) == sock[c].at = "open" /\ ~sock[c].retired
\* readyHost: the one definition of "host online".
Online == \E c \in Conn : Attached(c) /\ sock[c].ready
\* While a handler waits for the presence write to D1, the object handles other events.
Free == Overlaps \/ \A c \in Conn : sock[c].at # "accepting" /\ ~sock[c].announcing

Posted == {log[i].msg : i \in 1..Len(log)}
RowsOf(m) == {r \in box : r.msg = m}
Waits(rows) == {r \in rows : r.state = "queued" /\ ~r.old}
\* Fault: the newest goes first.
NextRowM(rows) == CHOOSE r \in Waits(rows) : \A q \in Waits(rows) : q.seq <= r.seq
NextRow(rows) == CHOOSE r \in Waits(rows) : \A q \in Waits(rows) : r.seq <= q.seq
\* Fault: what was under way stays so.
RequeuedNotM(rows) == rows
\* Fault: what was under way counts as delivered.
RequeuedM(rows) == {r \in rows : r.state = "queued"}
\* hostOffline: what was under way waits again, in its place.
Requeued(rows) == {[r EXCEPT !.state = "queued"] : r \in rows}

UnderWay(rows) == {r \in rows : r.state = "delivering"}
\* Fault: the next item doesn't wait for the one under way.
IdleM(rows) == TRUE
\* One item in flight at a time.
Idle(rows) == UnderWay(rows) = {}

\* deliverNext on a socket that was made ready: the next in seq order.
Deliver(c, rows) ==
  IF Idle(rows) /\ Waits(rows) # {}
  THEN LET row == NextRow(rows)
       IN /\ box' = (rows \ {row}) \cup {[row EXCEPT !.state = "delivering"]}
          /\ items' = IF sock[c].at = "open"
                      THEN [items EXCEPT ![c] = Append(@, [seq |-> row.seq, msg |-> row.msg])] ELSE items
  ELSE box' = rows /\ UNCHANGED items

\* markLocal: only a copy of the phone's own is marked.
Mark(st, m, s) == IF st[m] \in {"none", "shown", "discarded"} THEN st ELSE [st EXCEPT ![m] = s]
\* toDevice, applyMailbox: a phone that is connected hears of it.
Hears(m, s) == phone' = IF link.up THEN Mark(phone, m, s) ELSE phone

\* acceptHost: older connections are retired, their mail goes back, then the new one is taken.
Replace(c) ==
  /\ Free /\ sock[c].at = "knocking"
  /\ sock' = [d \in Conn |-> IF d = c THEN [sock[c] EXCEPT !.at = "accepting"]
                             ELSE IF Attached(d) THEN [sock[d] EXCEPT !.ready = FALSE, !.retired = TRUE]
                             ELSE sock[d]]
  /\ box' = IF Online THEN Requeued(box) ELSE box
  /\ UNCHANGED <<phoneVars, linkVars, lastSeq, wires, sessionVars, chatVars, counts, history>>

Accept(c) ==
  /\ sock[c].at = "accepting"
  /\ sock' = [sock EXCEPT ![c].at = "open"]
  /\ UNCHANGED <<phoneVars, linkVars, box, lastSeq, wires, sessionVars, chatVars, counts, history>>

\* The alarm retires a socket that has been silent.
RetireSilent(c) ==
  /\ Free /\ c < MaxConns /\ Attached(c)
  /\ sock' = [sock EXCEPT ![c].ready = FALSE, ![c].retired = TRUE]
  /\ box' = IF sock[c].ready THEN Requeued(box) ELSE box
  /\ UNCHANGED <<phoneVars, linkVars, lastSeq, wires, sessionVars, chatVars, counts, history>>

\* closed: the host's end is gone and what it had sent is handled.
Closed(c) ==
  /\ Free /\ sock[c].at = "open" /\ conn # c /\ answers[c] = <<>>
  /\ sock' = [sock EXCEPT ![c].at = "closed"]
  /\ box' = IF Attached(c) /\ sock[c].ready THEN Requeued(box) ELSE box
  /\ UNCHANGED <<phoneVars, linkVars, lastSeq, wires, sessionVars, chatVars, counts, history>>

\* A retired socket that speaks is closed; what it says is not heard.
Ignored(c) ==
  /\ Free /\ sock[c].at = "open" /\ sock[c].retired /\ answers[c] # <<>>
  /\ answers' = [answers EXCEPT ![c] = Tail(@)]
  /\ UNCHANGED <<phoneVars, linkVars, relayVars, items, sessionVars, chatVars, counts, history>>

\* onHost "ready": the flag is set, then the presence is written.
OnReady(c) ==
  /\ Free /\ Attached(c) /\ answers[c] # <<>> /\ Head(answers[c]).t = "ready"
  /\ answers' = [answers EXCEPT ![c] = Tail(@)]
  /\ sock' = [sock EXCEPT ![c].ready = TRUE, ![c].announcing = TRUE]
  /\ UNCHANGED <<phoneVars, linkVars, box, lastSeq, items, sessionVars, chatVars, counts, history>>

\* ... and with the presence written, the first item goes out.  The attachment still says ready
\* when the socket closed meanwhile.
Announced(c) ==
  /\ sock[c].announcing
  /\ sock' = [sock EXCEPT ![c].announcing = FALSE]
  /\ IF sock[c].ready THEN Deliver(c, box) ELSE UNCHANGED <<box, items>>
  /\ UNCHANGED <<phoneVars, linkVars, lastSeq, answers, sessionVars, chatVars, counts, history>>

\* onAck: the row is deleted if it's the one under way, and the next goes out.
OnAck(c) ==
  /\ Free /\ Attached(c) /\ answers[c] # <<>> /\ Head(answers[c]).t = "ack"
  /\ answers' = [answers EXCEPT ![c] = Tail(@)]
  /\ LET ack == Head(answers[c])
         done == {r \in UnderWay(box) : r.seq = ack.seq}
     IN /\ IF done = {} THEN UNCHANGED <<phone, ended>>
           ELSE LET m == (CHOOSE r \in done : TRUE).msg
                IN /\ Hears(m, IF ack.ok THEN "delivering" ELSE "failed")
                   /\ ended' = IF ack.ok THEN ended ELSE ended \cup {m}
        /\ IF sock[c].ready THEN Deliver(c, box \ done) ELSE box' = box \ done /\ UNCHANGED items
  /\ UNCHANGED <<asking, linkVars, lastSeq, sock, sessionVars, chatVars, counts, accepted>>

\* 24 hours pass for a row; the alarm drops it and tells the phone.
Ages(r) ==
  /\ Expires /\ r \in box /\ ~r.old
  /\ box' = (box \ {r}) \cup {[r EXCEPT !.old = TRUE]}
  /\ UNCHANGED <<phoneVars, linkVars, lastSeq, sock, wires, sessionVars, chatVars, counts, history>>

Expire(r) ==
  /\ Free /\ r \in box /\ r.old
  /\ box' = box \ {r} /\ ended' = ended \cup {r.msg} /\ Hears(r.msg, "failed")
  /\ UNCHANGED <<asking, linkVars, lastSeq, sock, wires, sessionVars, chatVars, counts, accepted>>

-----------------------------------------------------------------------------
(***************************************************************************)
(* The relay, asked by the phone, and the phone's use of the answer.       *)
(***************************************************************************)
Handles(t) == Free /\ up # <<>> /\ Head(up).t = t /\ up' = Tail(up)

\* The answer to a put the phone still waits for.  With the host online, it sends to it instead.
PutAnswered(m, answer) ==
  /\ puts' = puts \ {m}
  /\ IF m \in puts /\ answer # "ok"
     THEN IF answer = "hostOnline" /\ call[m] = "none" /\ phone[m] = "waiting"
          THEN phone' = Mark(phone, m, "sending") /\ call' = [call EXCEPT ![m] = "asked"]
          ELSE phone' = Mark(phone, m, "failed") /\ UNCHANGED call
     ELSE UNCHANGED <<phone, call>>

\* mboxPut: a nonce it holds is answered again; with the host online, or full, it is refused.
OnPut ==
  /\ Handles("put")
  /\ LET m == Head(up).msg
     IN IF RowsOf(m) # {} THEN PutAnswered(m, "ok") /\ UNCHANGED <<box, lastSeq, history>>
        ELSE IF Online THEN PutAnswered(m, "hostOnline") /\ UNCHANGED <<box, lastSeq, history>>
        ELSE IF Cardinality(box) >= PerDevice THEN PutAnswered(m, "full") /\ UNCHANGED <<box, lastSeq, history>>
        ELSE /\ lastSeq' = lastSeq + 1
             /\ box' = box \cup {[seq |-> lastSeq + 1, msg |-> m, state |-> "queued", old |-> FALSE]}
             /\ PutAnswered(m, "ok")
             /\ accepted' = accepted \cup {m} /\ ended' = ended \ {m}
  /\ UNCHANGED <<cancels, snapshot, listing, link, sock, wires, sessionVars, looked, bot, log, counts>>

\* What a cancel takes back.
TakesBack(m) == {r \in RowsOf(m) : r.state = "queued"}
\* mboxCancel; what is gone to the host already shows as being delivered, and what isn't known stays.
OnCancel ==
  /\ Handles("cancel")
  /\ LET m == Head(up).msg
         taken == TakesBack(m)
     IN /\ box' = box \ taken /\ cancels' = cancels \ {m}
        /\ ended' = IF taken # {} THEN ended \cup {m} ELSE ended
        /\ phone' = IF m \notin cancels \/ RowsOf(m) = {} THEN phone
                    ELSE Mark(phone, m, IF taken # {} THEN "discarded" ELSE "delivering")
  /\ UNCHANGED <<puts, snapshot, listing, link, lastSeq, sock, wires, sessionVars, chatVars, counts, accepted>>

\* Fault: what the relay no longer holds stays as it is.
SettledM(m) == IF RowsOf(m) = {} \/ \E r \in RowsOf(m) : r.state = "queued" THEN phone[m] ELSE Mark(phone, m, "delivering")[m]
\* reconcileQueued: what the relay no longer holds counts as failed.
Settled(m) ==
  IF RowsOf(m) = {} THEN Mark(phone, m, "failed")[m]
  ELSE IF \E r \in RowsOf(m) : r.state = "queued" THEN phone[m]
  ELSE Mark(phone, m, "delivering")[m]
\* mboxList, for the messages the phone asked about.
OnList ==
  /\ Handles("list")
  /\ phone' = [m \in Message |-> IF m \in snapshot THEN Settled(m) ELSE phone[m]]
  /\ snapshot' = {} /\ listing' = IF listing = "asked" THEN "done" ELSE listing
  /\ UNCHANGED <<puts, cancels, link, relayVars, wires, sessionVars, chatVars, counts, history>>

-----------------------------------------------------------------------------
(***************************************************************************)
(* The phone.                                                              *)
(***************************************************************************)
CanSend(m) == phone[m] \in {"none", "failed"} /\ sends < MaxSends /\ sends' = sends + 1

\* enqueue: into the mailbox (the computer seems offline).
Enqueue(m) ==
  /\ CanSend(m) /\ link.up /\ m \notin puts
  /\ phone' = [phone EXCEPT ![m] = "waiting"] /\ puts' = puts \cup {m}
  /\ up' = Append(up, [t |-> "put", msg |-> m])
  /\ UNCHANGED <<cancels, snapshot, listing, link, relayVars, wires, sessionVars, chatVars, cancelled, history>>

\* deliver: to the host itself, over a channel.
SendDirect(m) ==
  /\ CanSend(m) /\ call[m] = "none"
  /\ phone' = [phone EXCEPT ![m] = "sending"] /\ call' = [call EXCEPT ![m] = "asked"]
  /\ UNCHANGED <<asking, linkVars, relayVars, wires, sessionVars, looked, bot, log, cancelled, history>>

\* The user takes a waiting message back.
CancelQueued(m) ==
  /\ phone[m] = "waiting" /\ link.up /\ m \notin cancels /\ cancelled < MaxCancels /\ cancelled' = cancelled + 1
  /\ cancels' = cancels \cup {m} /\ up' = Append(up, [t |-> "cancel", msg |-> m])
  /\ UNCHANGED <<phone, puts, snapshot, listing, link, relayVars, wires, sessionVars, chatVars, sends, history>>

\* expirePut: no answer in 15 seconds.
PutExpires(m) ==
  /\ m \in puts /\ puts' = puts \ {m} /\ phone' = Mark(phone, m, "failed")
  /\ UNCHANGED <<cancels, snapshot, listing, linkVars, relayVars, wires, sessionVars, chatVars, counts, history>>

\* reconcileQueued asks what the relay holds when the connection's state changes.
AskList ==
  /\ link.up /\ listing = "no"
  /\ snapshot' = {m \in Message : phone[m] = "waiting"}
  /\ listing' = IF snapshot' = {} THEN "done" ELSE "asked"
  /\ up' = IF snapshot' = {} THEN up ELSE Append(up, [t |-> "list"])
  /\ UNCHANGED <<phone, puts, cancels, link, relayVars, wires, sessionVars, chatVars, counts, history>>

\* The link drops: what is under way fails; what had arrived at the relay is handled all the same.
LinkDrops ==
  /\ link.up /\ link.n < MaxLinks
  /\ link' = [link EXCEPT !.up = FALSE]
  /\ \E n \in 0..Len(up) : up' = SubSeq(up, 1, n)
  /\ phone' = [m \in Message |-> IF m \in puts THEN Mark(phone, m, "failed")[m] ELSE phone[m]]
  /\ puts' = {} /\ cancels' = {} /\ snapshot' = {} /\ listing' = "no"
  /\ UNCHANGED <<relayVars, wires, sessionVars, chatVars, counts, history>>

LinkUp ==
  /\ ~link.up /\ up = <<>> /\ link' = [up |-> TRUE, n |-> link.n + 1]
  /\ UNCHANGED <<phoneVars, up, relayVars, wires, sessionVars, chatVars, counts, history>>

\* The events stream brings the computer's copy, which replaces the phone's.
CatchUp(m) ==
  /\ m \in Posted /\ phone[m] \in {"sending", "waiting", "delivering", "failed"}
  /\ phone' = [phone EXCEPT ![m] = "shown"]
  /\ UNCHANGED <<asking, linkVars, relayVars, wires, sessionVars, chatVars, counts, history>>

-----------------------------------------------------------------------------
(***************************************************************************)
(* The host.                                                               *)
(***************************************************************************)
Answer(msg) == answers' = [answers EXCEPT ![conn] = Append(@, msg)]
Ack(seq, ok) == Answer([t |-> "ack", seq |-> seq, ok |-> ok])
\* A mailbox item is handled in the session's own loop.
LoopFree == \A e \in looked : e.seq = 0

Connect(c) ==
  /\ conn = 0 /\ sock[c].at = "none" /\ \A d \in Conn : d < c => sock[d].at # "none"
  /\ c = MaxConns => \A d \in Conn : sock[d].at \notin {"knocking", "accepting"}
  /\ conn' = c /\ opened' = FALSE /\ synced' = FALSE /\ held' = NoItem
  /\ sock' = [sock EXCEPT ![c].at = "knocking"]
  /\ UNCHANGED <<phoneVars, linkVars, box, lastSeq, wires, chatVars, counts, history>>

\* session: the first state pull succeeds or takes too long, then the host is ready.
Open(pulled) ==
  /\ conn # 0 /\ ~opened /\ sock[conn].at = "open"
  /\ opened' = TRUE /\ synced' = pulled /\ Answer([t |-> "ready"])
  /\ UNCHANGED <<conn, held, phoneVars, linkVars, relayVars, items, chatVars, counts, history>>

Pull ==
  /\ opened /\ ~synced /\ synced' = TRUE
  /\ UNCHANGED <<conn, opened, held, phoneVars, linkVars, relayVars, wires, chatVars, counts, history>>

\* Fault: "send" doesn't look the nonce up.
KnownM(m) == FALSE
\* find_by_nonce
Known(m) == m \in Posted

Entry(m, seq) == log' = Append(log, [msg |-> m, seq |-> seq])
\* Fault: only what is posted is acknowledged.
StartDeliveryM(item) ==
  IF bot /\ ~Known(item.msg) THEN Entry(item.msg, item.seq) /\ Ack(item.seq, TRUE) /\ UNCHANGED looked
  ELSE UNCHANGED <<answers, looked, log>>
\* deliver: refused without its bot, answered when the nonce is known, else posted after the lookup.
StartDelivery(item) ==
  \/ ~bot /\ Ack(item.seq, FALSE) /\ UNCHANGED <<looked, log>>
  \/ bot /\ Known(item.msg) /\ Ack(item.seq, TRUE) /\ UNCHANGED <<looked, log>>
  \/ bot /\ ~Known(item.msg) /\ Exclusive /\ Entry(item.msg, item.seq) /\ Ack(item.seq, TRUE) /\ UNCHANGED looked
  \/ bot /\ ~Known(item.msg) /\ ~Exclusive /\ looked' = looked \cup {item} /\ UNCHANGED <<answers, log>>

\* on_message "mbox.item": until the account state is pulled the item is held, and not answered.
ReadItem ==
  /\ opened /\ LoopFree /\ items[conn] # <<>>
  /\ items' = [items EXCEPT ![conn] = Tail(@)]
  /\ IF synced THEN StartDelivery(Head(items[conn])) /\ UNCHANGED held
     ELSE held' = Head(items[conn]) /\ UNCHANGED <<answers, looked, log>>
  /\ UNCHANGED <<conn, opened, synced, phoneVars, linkVars, relayVars, call, bot, counts, history>>

DeliverHeld ==
  /\ opened /\ LoopFree /\ synced /\ held # NoItem
  /\ held' = NoItem /\ StartDelivery(held)
  /\ UNCHANGED <<conn, opened, synced, phoneVars, linkVars, relayVars, items, call, bot, counts, history>>

\* deliver's answer to the phone, unless it gave up.
Returns(m, s) ==
  /\ call' = [call EXCEPT ![m] = "none"]
  /\ phone' = IF phone[m] = "sending" THEN Mark(phone, m, s) ELSE phone
\* A direct "send" of the phone's.
TakeCall(m) ==
  /\ call[m] = "asked"
  /\ \/ Known(m) /\ Returns(m, "shown") /\ UNCHANGED <<looked, log>>
     \/ ~Known(m) /\ ~bot /\ Returns(m, "failed") /\ UNCHANGED <<looked, log>>
     \/ ~Known(m) /\ bot /\ Exclusive /\ Entry(m, 0) /\ Returns(m, "shown") /\ UNCHANGED looked
     \/ /\ ~Known(m) /\ bot /\ ~Exclusive /\ call' = [call EXCEPT ![m] = "taken"]
        /\ looked' = looked \cup {[seq |-> 0, msg |-> m]} /\ UNCHANGED <<phone, log>>
  /\ UNCHANGED <<asking, linkVars, relayVars, wires, sessionVars, bot, counts, history>>

\* messages::post for a "send" that looked the nonce up before.
Post(e) ==
  /\ e \in looked /\ looked' = looked \ {e} /\ Entry(e.msg, e.seq)
  /\ IF e.seq = 0 THEN Returns(e.msg, "shown") /\ UNCHANGED answers
     ELSE Ack(e.seq, TRUE) /\ UNCHANGED <<call, phone>>
  /\ UNCHANGED <<asking, linkVars, relayVars, items, sessionVars, bot, counts, history>>

\* The phone gives up on its call, which may never have arrived.
CallFails(m) ==
  /\ phone[m] = "sending" /\ call[m] # "none" /\ phone' = Mark(phone, m, "failed")
  /\ \/ UNCHANGED call
     \/ call[m] = "asked" /\ call' = [call EXCEPT ![m] = "none"]
  /\ UNCHANGED <<asking, linkVars, relayVars, wires, sessionVars, looked, bot, log, counts, history>>

\* The connection ends at the host (or the host dies): a part of what it sent still arrives.
CutOff ==
  /\ conn' = 0 /\ opened' = FALSE /\ synced' = FALSE /\ held' = NoItem
  /\ looked' = {e \in looked : e.seq = 0}
  /\ items' = [items EXCEPT ![conn] = <<>>]
  /\ \E n \in 0..Len(answers[conn]) : answers' = [answers EXCEPT ![conn] = SubSeq(@, 1, n)]
  /\ UNCHANGED <<phoneVars, linkVars, relayVars, call, bot, log, counts, history>>
Cut == conn \in 1..(MaxConns - 1) /\ CutOff
\* The relay closes a socket it retired.
Noticed == conn # 0 /\ sock[conn].retired /\ CutOff

DeleteBot ==
  /\ MayDelete /\ bot /\ bot' = FALSE
  /\ UNCHANGED <<phoneVars, linkVars, relayVars, wires, sessionVars, looked, call, log, counts, history>>

-----------------------------------------------------------------------------
Init ==
  /\ phone = [m \in Message |-> "none"] /\ puts = {} /\ cancels = {} /\ snapshot = {} /\ listing = "no"
  /\ link = [up |-> FALSE, n |-> 0] /\ up = <<>>
  /\ box = {} /\ lastSeq = 0
  /\ sock = [c \in Conn |-> [at |-> "none", ready |-> FALSE, retired |-> FALSE, announcing |-> FALSE]]
  /\ items = [c \in Conn |-> <<>>] /\ answers = [c \in Conn |-> <<>>]
  /\ conn = 0 /\ opened = FALSE /\ synced = FALSE /\ held = NoItem
  /\ looked = {} /\ call = [m \in Message |-> "none"] /\ bot = TRUE /\ log = <<>>
  /\ sends = 0 /\ cancelled = 0 /\ accepted = {} /\ ended = {}

RelayStep ==
  \/ \E c \in Conn : Replace(c) \/ Accept(c) \/ Closed(c) \/ Ignored(c) \/ OnReady(c) \/ Announced(c) \/ OnAck(c)
  \/ \E r \in box : Expire(r)
  \/ OnPut \/ OnCancel \/ OnList
PhoneStep ==
  \/ LinkUp \/ AskList
  \/ \E m \in Message : CatchUp(m)
HostStep ==
  \/ \E c \in Conn : Connect(c)
  \/ \E pulled \in BOOLEAN : Open(pulled)
  \/ Pull \/ ReadItem \/ DeliverHeld \/ Noticed
  \/ \E m \in Message : TakeCall(m)
  \/ \E e \in looked : Post(e)
UserOrFault ==
  \/ \E m \in Message : Enqueue(m) \/ SendDirect(m) \/ CancelQueued(m) \/ PutExpires(m) \/ CallFails(m)
  \/ \E c \in Conn : RetireSilent(c)
  \/ \E r \in box : Ages(r)
  \/ LinkDrops \/ Cut \/ DeleteBot
Next == RelayStep \/ PhoneStep \/ HostStep \/ UserOrFault
Spec == Init /\ [][Next]_vars

\* Tasks, sockets and the alarm go on; users, failures and the clock are free.
Fairness == WF_vars(RelayStep) /\ WF_vars(PhoneStep) /\ WF_vars(HostStep)
FairSpec == Spec /\ Fairness

-----------------------------------------------------------------------------
TypeOK ==
  /\ phone \in [Message -> Status] /\ puts \subseteq Message /\ cancels \subseteq Message
  /\ snapshot \subseteq Message /\ listing \in {"no", "asked", "done"}
  /\ link \in [up : BOOLEAN, n : 0..MaxLinks] /\ up \in Seq(Request)
  /\ box \subseteq Row /\ Cardinality(UnderWay(box)) <= 1 /\ lastSeq \in 0..MaxSends /\ sock \in [Conn -> Socket]
  /\ items \in [Conn -> Seq(Item)] /\ answers \in [Conn -> Seq(FromHost)]
  /\ conn \in 0..MaxConns /\ opened \in BOOLEAN /\ synced \in BOOLEAN /\ held \in Item \cup {NoItem}
  /\ looked \subseteq [seq : 0..MaxSends, msg : Message]
  /\ call \in [Message -> {"none", "asked", "taken"}] /\ bot \in BOOLEAN
  /\ log \in Seq([msg : Message, seq : 0..MaxSends])
  /\ sends \in 0..MaxSends /\ cancelled \in 0..MaxCancels /\ accepted \subseteq Message /\ ended \subseteq Message

\* However often a message is put, resent and delivered again, the chat has it once.
PostedOnce == \A i, j \in 1..Len(log) : log[i].msg = log[j].msg => i = j

\* A message the relay accepted is still there, or posted, unless it was taken back, refused or expired.
NeverLost == \A m \in accepted : RowsOf(m) # {} \/ m \in Posted \/ m \in ended

\* What comes out of the mailbox comes in the order it went in, however often connections end.
MailInOrder == \A i, j \in 1..Len(log) : i < j /\ log[i].seq # 0 /\ log[j].seq # 0 => log[i].seq < log[j].seq

\* Mail under way is at a host that is online.
UnderWayAtHost == UnderWay(box) # {} => Online

\* No wake-up is lost: mail waits for the host, online on the connection it holds, only while something there
\* goes on that ends with the next item going out: an item on its way, held or about to be posted, an answer on
\* its way, or the presence being written.  Nothing else would ever send it.
MailMoves ==
  \A c \in Conn : Attached(c) /\ sock[c].ready /\ conn = c /\ (Waits(box) # {} \/ UnderWay(box) # {}) =>
    items[c] # <<>> \/ answers[c] # <<>> \/ sock[c].announcing \/ held # NoItem \/ ~LoopFree

\* A message taken back is one the computer doesn't have.
TakenBackUnposted == \A m \in Message : phone[m] = "discarded" => m \notin Posted

\* What the relay holds leaves it.
MailSettles == \A s \in Seqno : (\E r \in box : r.seq = s) ~> (\A r \in box : r.seq # s)

\* A message that waits in the relay doesn't show as waiting forever; nor as being delivered.
WaitingSettles == \A m \in Message : phone[m] = "waiting" ~> phone[m] # "waiting"
DeliveringSettles == \A m \in Message : phone[m] = "delivering" ~> phone[m] # "delivering"
=============================================================================
