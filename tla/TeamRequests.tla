---------------------------- MODULE TeamRequests ----------------------------
(***************************************************************************)
(* Requests between the bots of one computer: message_bot and the request  *)
(* it admits (host/src/chat/team.rs, team/requests.rs), the recipient's    *)
(* turn and the reply turn in the sender's chat (host/src/agent/bot/       *)
(* queue.rs, turn.rs), Stop, deletion (hub/bots.rs) and restart            *)
(* (store/entries.rs: expire_pending, agent/bot/mod.rs: spawn).            *)
(*                                                                         *)
(* Abstractions.  A request is its number, its text is left out; bots have *)
(* one agent each and no rooms, calls or routines: a "user" turn stands    *)
(* for any turn that starts a chain.  A lifetime's end (both notices, the  *)
(* reply, the slot) is one step.  Updates of a saved notice never fail,    *)
(* saving one may.  `depth`, `replied` and `lost` are history variables.   *)
(***************************************************************************)
EXTENDS Integers, Sequences, FiniteSets

CONSTANTS
  Bot,
  MAX_REQUEST_HOPS,                \* 8 in the code
  MAX_PENDING_MESSAGES,            \* 64
  MAX_PENDING_MESSAGES_PER_SENDER, \* 16
  StoreFails,    \* whether saving a notice may fail
  MaxRequests,   \* bound: requests ever admitted
  MaxUserTurns,  \* bound: messages the user ever writes
  MaxTouches,    \* bound: Stop and delete requests
  MaxCrashes     \* bound: restarts of the host process

ASSUME TeamAssumption ==
  /\ Bot # {}
  /\ MAX_REQUEST_HOPS \in Nat /\ MAX_PENDING_MESSAGES \in Nat /\ MAX_PENDING_MESSAGES_PER_SENDER \in Nat
  /\ StoreFails \in BOOLEAN
  /\ MaxRequests \in Nat /\ MaxUserTurns \in Nat /\ MaxTouches \in Nat /\ MaxCrashes \in Nat

Request == 1..MaxRequests
Hops == 0..MAX_REQUEST_HOPS
Depth == Nat
Notice == {"none", "queued", "sent", "completed", "failed", "cancelled"}

\* Where a request is: reserved, with one notice or both saved, with the recipient's
\* actor, in its turn, or over.  Its lifetime holds a slot until it is over.
Live == {"reserved", "noticed", "saved", "waiting", "running"}
Stage == Live \cup {"none", "over"}
Record == [source : Bot, target : Bot, hops : Hops]

\* A running turn, as bot messages see it (requests.rs: Turn), or none.
Active == [kind : {"none", "request"}, hops : {0}] \cup [kind : {"chat"}, hops : Hops]
Item == [cmd : {"user"}, id : {0}] \cup [cmd : {"request", "reply"}, id : Request]
Command == Item \cup [cmd : {"stop", "shutdown"}, id : {0}]
Turn == [kind : {"idle", "user", "request", "reply"}, id : {0} \cup Request, running : BOOLEAN,
         stop : BOOLEAN, depth : Depth]

VARIABLES
  stage,     \* stage[r]
  req,       \* req[r]: who sent it to whom, and the chain's handoffs so far
  notice,    \* notice[r]: the exchange's saved notices in the sender's and in the recipient's chat
  messages,  \* slots in use (RequestState)
  messages_by_sender,
  active,    \* bots in a turn
  mailbox, queue, turn,  \* the bots' actors
  marked,    \* the kv marks turn.inflight
  handle,    \* bots that have an actor
  userTurns, touches, crashes,
  depth,     \* history: depth[r], the handoffs that led to request r
  replied,   \* history: replied[r], how often its reply came to be a turn of the sender's
  lost       \* history: bots whose queue was dropped (Stop, deletion, restart)

slots == <<messages, messages_by_sender>>
actors == <<mailbox, queue, turn, marked, handle>>
bounds == <<userTurns, touches, crashes>>
vars == <<stage, req, notice, messages, messages_by_sender, active, mailbox, queue, turn, marked, handle,
          userTurns, touches, crashes, depth, replied, lost>>

\* A turn that begins: its session is not open yet.
Begun(kind, id, d) == [kind |-> kind, id |-> id, running |-> FALSE, stop |-> FALSE, depth |-> d]
Idle == Begun("idle", 0, 0)
NoTurn == [kind |-> "none", hops |-> 0]
Chat(h) == [kind |-> "chat", hops |-> h]
LiveRequests == {r \in Request : stage[r] \in Live}
Tell(b, cmd, id) == mailbox' = [mailbox EXCEPT ![b] = Append(@, [cmd |-> cmd, id |-> id])]

\* Fault: they are forgotten, not dropped.
RequestsInM(items) == {}
\* The requests among a queue's or a mailbox's items.
RequestsIn(items) == {items[i].id : i \in {k \in 1..Len(items) : items[k].cmd = "request"}}
Highest(S) == CHOOSE n \in S : \A k \in S : k <= n

-----------------------------------------------------------------------------
(***************************************************************************)
(* A request's lifetime.                                                   *)
(***************************************************************************)
\* finish: the notices saved by now.
Ended(r, status) == [side \in {"source", "target"} |-> IF notice[r][side] = "none" THEN "none" ELSE status]

\* Fault: one slot goes back, however many requests were dropped.
ReleasedM(S) ==
  /\ messages' = messages - (IF S = {} THEN 0 ELSE 1)
  /\ messages_by_sender' = [b \in Bot |-> messages_by_sender[b] - (IF \E r \in S : req[r].source = b THEN 1 ELSE 0)]
\* release_message, for each of the requests S.
Released(S) ==
  /\ messages' = messages - Cardinality(S)
  /\ messages_by_sender' = [b \in Bot |-> messages_by_sender[b] - Cardinality({r \in S : req[r].source = b})]

\* The requests S end with these notices and give their slots back (Drop).
Over(S, status) ==
  /\ stage' = [r \in Request |-> IF r \in S THEN "over" ELSE stage[r]]
  /\ notice' = [r \in Request |-> IF r \in S THEN Ended(r, status) ELSE notice[r]]
  /\ Released(S)

Room(b) == messages < MAX_PENDING_MESSAGES /\ messages_by_sender[b] < MAX_PENDING_MESSAGES_PER_SENDER

\* reserve_message, in message_bot: only a bot in a turn of its own sends, within the
\* limits.  The call may reach the host after the turn it was made in.
Reserve(b, target, r) ==
  /\ handle[b] /\ handle[target] /\ b # target
  /\ stage[r] = "none" /\ \A k \in Request : k < r => stage[k] # "none"
  /\ active[b].kind = "chat" /\ active[b].hops < MAX_REQUEST_HOPS
  /\ Room(b)
  /\ messages' = messages + 1
  /\ messages_by_sender' = [messages_by_sender EXCEPT ![b] = @ + 1]
  /\ stage' = [stage EXCEPT ![r] = "reserved"]
  /\ req' = [req EXCEPT ![r] = [source |-> b, target |-> target, hops |-> active[b].hops + 1]]
  /\ depth' = [depth EXCEPT ![r] = turn[b].depth + 1]
  /\ UNCHANGED <<notice, active, actors, bounds, replied, lost>>

\* The sender's notice, then the recipient's; one that can't be saved drops the request.
SaveNotice(r) ==
  /\ \/ stage[r] = "reserved" /\ stage' = [stage EXCEPT ![r] = "noticed"]
                              /\ notice' = [notice EXCEPT ![r].source = "queued"]
     \/ stage[r] = "noticed" /\ stage' = [stage EXCEPT ![r] = "saved"]
                             /\ notice' = [notice EXCEPT ![r].target = "queued"]
  /\ UNCHANGED <<req, slots, active, actors, bounds, depth, replied, lost>>

NoticeFails(r) ==
  /\ StoreFails /\ stage[r] \in {"reserved", "noticed"}
  /\ Over({r}, "cancelled")
  /\ UNCHANGED <<req, active, actors, bounds, depth, replied, lost>>

\* deliver: to the recipient's actor, unless the bot was deleted meanwhile.
Deliver(r) ==
  /\ stage[r] = "saved" /\ handle[req[r].target]
  /\ Tell(req[r].target, "request", r)
  /\ stage' = [stage EXCEPT ![r] = "waiting"]
  /\ UNCHANGED <<req, notice, slots, active, queue, turn, marked, handle, bounds, depth, replied, lost>>

DeliverFails(r) ==
  /\ stage[r] = "saved" /\ ~handle[req[r].target]
  /\ Over({r}, "cancelled")
  /\ UNCHANGED <<req, active, actors, bounds, depth, replied, lost>>

-----------------------------------------------------------------------------
(***************************************************************************)
(* The user.                                                               *)
(***************************************************************************)
UserWrites(b) ==
  /\ handle[b] /\ userTurns < MaxUserTurns /\ userTurns' = userTurns + 1
  /\ Tell(b, "user", 0)
  /\ UNCHANGED <<stage, req, notice, slots, active, queue, turn, marked, handle, touches, crashes, depth, replied, lost>>

UserStops(b) ==
  /\ handle[b] /\ touches < MaxTouches /\ touches' = touches + 1
  /\ Tell(b, "stop", 0)
  /\ UNCHANGED <<stage, req, notice, slots, active, queue, turn, marked, handle, userTurns, crashes, depth, replied, lost>>

DeleteBot(b) ==
  /\ handle[b] /\ touches < MaxTouches /\ touches' = touches + 1
  /\ active' = [active EXCEPT ![b] = NoTurn]
  /\ handle' = [handle EXCEPT ![b] = FALSE]
  /\ Tell(b, "shutdown", 0)
  /\ UNCHANGED <<stage, req, notice, slots, queue, turn, marked, userTurns, crashes, depth, replied, lost>>

-----------------------------------------------------------------------------
(***************************************************************************)
(* A bot's actor.  It takes a command only between handlers: not while a   *)
(* turn starts, and not before it started what is queued.                  *)
(***************************************************************************)
AtSelect(b) == turn[b].running \/ (turn[b].kind = "idle" /\ queue[b] = <<>>)
Take(b, cmd) ==
  /\ AtSelect(b) /\ mailbox[b] # <<>> /\ Head(mailbox[b]).cmd = cmd

Enqueue(b) ==
  /\ AtSelect(b) /\ mailbox[b] # <<>> /\ Head(mailbox[b]).cmd \in {"user", "request", "reply"}
  /\ mailbox' = [mailbox EXCEPT ![b] = Tail(@)]
  /\ queue' = [queue EXCEPT ![b] = Append(@, Head(mailbox[b]))]
  /\ UNCHANGED <<stage, req, notice, slots, active, turn, marked, handle, bounds, depth, replied, lost>>

\* stop: what is queued is dropped, a running turn told to end.
HandleStop(b) ==
  /\ Take(b, "stop")
  /\ mailbox' = [mailbox EXCEPT ![b] = Tail(@)]
  /\ active' = [active EXCEPT ![b] = NoTurn]
  /\ queue' = [queue EXCEPT ![b] = <<>>]
  /\ Over(RequestsIn(queue[b]), "cancelled")
  /\ turn' = [turn EXCEPT ![b].stop = turn[b].kind # "idle"]
  /\ lost' = lost \cup {b}
  /\ UNCHANGED <<req, marked, handle, bounds, depth, replied>>

\* The end of run: the turn's request is cancelled, and so is what is queued or still
\* in the mailbox when the actor is dropped.
HandleShutdown(b) ==
  /\ Take(b, "shutdown")
  /\ mailbox' = [mailbox EXCEPT ![b] = <<>>]
  /\ queue' = [queue EXCEPT ![b] = <<>>]
  /\ turn' = [turn EXCEPT ![b] = Idle]
  /\ active' = [active EXCEPT ![b] = NoTurn]
  /\ Over(RequestsIn(queue[b]) \cup RequestsIn(Tail(mailbox[b])) \cup ({turn[b].id} \ {0}), "cancelled")
  /\ lost' = lost \cup {b}
  /\ UNCHANGED <<req, marked, handle, bounds, depth, replied>>

\* How many of the queue's first items are one turn: a request is one of its own, the
\* user's messages in a row are one, and so are replies in a row.
Batch(b) ==
  IF Head(queue[b]).cmd = "request" THEN 1
  ELSE CHOOSE k \in 1..Len(queue[b]) :
         /\ \A i \in 1..k : queue[b][i].cmd = Head(queue[b]).cmd
         /\ k = Len(queue[b]) \/ queue[b][k + 1].cmd # Head(queue[b]).cmd
FirstIds(b) == {queue[b][i].id : i \in 1..Batch(b)}

StartUserTurn(b) ==
  /\ turn[b].kind = "idle" /\ queue[b] # <<>> /\ Head(queue[b]).cmd = "user"
  /\ active' = [active EXCEPT ![b] = Chat(0)]
  /\ turn' = [turn EXCEPT ![b] = Begun("user", 0, 0)]
  /\ queue' = [queue EXCEPT ![b] = SubSeq(@, Batch(b) + 1, Len(@))]
  /\ marked' = [marked EXCEPT ![b] = TRUE]
  /\ UNCHANGED <<stage, req, notice, slots, mailbox, handle, bounds, depth, replied, lost>>

\* mark_started, then start_turn.
StartRequestTurn(b) ==
  /\ turn[b].kind = "idle" /\ queue[b] # <<>> /\ Head(queue[b]).cmd = "request"
  /\ LET r == Head(queue[b]).id
     IN /\ stage' = [stage EXCEPT ![r] = "running"]
        /\ notice' = [notice EXCEPT ![r] = Ended(r, "sent")]
        /\ turn' = [turn EXCEPT ![b] = Begun("request", r, depth[r])]
  /\ active' = [active EXCEPT ![b] = [kind |-> "request", hops |-> 0]]
  /\ queue' = [queue EXCEPT ![b] = Tail(@)]
  /\ marked' = [marked EXCEPT ![b] = FALSE]
  /\ UNCHANGED <<req, slots, mailbox, handle, bounds, depth, replied, lost>>

\* Fault: a reply's turn starts a chain of its own.
ReplyHopsNone(b) == 0
\* The reply turn's place in the chain: its furthest reply's.
ReplyHops(b) == Highest({req[r].hops : r \in FirstIds(b)})
StartReplyTurn(b) ==
  /\ turn[b].kind = "idle" /\ queue[b] # <<>> /\ Head(queue[b]).cmd = "reply"
  /\ active' = [active EXCEPT ![b] = Chat(ReplyHops(b))]
  /\ turn' = [turn EXCEPT ![b] = Begun("reply", 0, Highest({depth[r] : r \in FirstIds(b)}))]
  /\ queue' = [queue EXCEPT ![b] = SubSeq(@, Batch(b) + 1, Len(@))]
  /\ marked' = [marked EXCEPT ![b] = TRUE]
  /\ replied' = [r \in Request |-> replied[r] + Cardinality({i \in 1..Batch(b) : queue[b][i].id = r})]
  /\ UNCHANGED <<stage, req, notice, slots, mailbox, handle, bounds, depth, lost>>

Prompted(b) ==
  /\ turn[b].kind # "idle" /\ ~turn[b].running
  /\ turn' = [turn EXCEPT ![b].running = TRUE]
  /\ UNCHANGED <<stage, req, notice, slots, active, mailbox, queue, marked, handle, bounds, depth, replied, lost>>

\* Faults: a stopped request's outcome goes back like any other; a failure wakes nobody.
AnswersM(status) == TRUE
AnswersCompleted(status) == status = "completed"
\* complete: a request that was stopped wakes nobody.
Answers(status) == status # "cancelled"

\* complete_request and the rest of a turn's end: the outcome goes to the sender, if it
\* still has an actor.
EndOf(b, status) ==
  /\ LET r == turn[b].id
         back == req[r].source
     IN IF turn[b].kind = "request"
        THEN /\ Over({r}, status)
             /\ IF Answers(status) /\ handle[back] THEN Tell(back, "reply", r) ELSE UNCHANGED mailbox
        ELSE UNCHANGED <<stage, notice, slots, mailbox>>
  /\ turn' = [turn EXCEPT ![b] = Idle]
  /\ active' = [active EXCEPT ![b] = NoTurn]
  /\ marked' = [marked EXCEPT ![b] = FALSE]
  /\ UNCHANGED <<req, queue, handle, bounds, depth, replied, lost>>

StartFails(b) ==
  /\ turn[b].kind # "idle" /\ ~turn[b].running
  /\ EndOf(b, "failed")

\* finish_turn: stopped (by the user, or by the agent's own word), done, or not.
TurnEnds(b, status) ==
  /\ turn[b].running
  /\ turn[b].stop => status = "cancelled"
  /\ EndOf(b, status)

-----------------------------------------------------------------------------
\* expire_pending.
Expired(status) == IF status \in {"queued", "sent"} THEN "failed" ELSE status

\* The host dies and starts again: requests, slots and queues lived in memory.  A marked
\* turn is resumed in its session, when there is one and the turn is not stale, as a
\* turn of the bot's own chat.
Restart(resumed) ==
  /\ crashes < MaxCrashes /\ crashes' = crashes + 1
  /\ stage' = [r \in Request |-> IF stage[r] = "none" THEN "none" ELSE "over"]
  /\ notice' = [r \in Request |-> [side \in {"source", "target"} |-> Expired(notice[r][side])]]
  /\ messages' = 0 /\ messages_by_sender' = [b \in Bot |-> 0]
  /\ mailbox' = [b \in Bot |-> <<>>] /\ queue' = [b \in Bot |-> <<>>]
  /\ active' = [b \in Bot |-> IF b \in resumed THEN Chat(0) ELSE NoTurn]
  /\ turn' = [b \in Bot |-> IF b \in resumed THEN Begun("user", 0, turn[b].depth) ELSE Idle]
  /\ marked' = [b \in Bot |-> b \in resumed]
  /\ lost' = Bot
  /\ UNCHANGED <<req, handle, userTurns, touches, depth, replied>>

-----------------------------------------------------------------------------
Init ==
  /\ stage = [r \in Request |-> "none"]
  /\ LET any == CHOOSE b \in Bot : TRUE
     IN req = [r \in Request |-> [source |-> any, target |-> any, hops |-> 0]]
  /\ notice = [r \in Request |-> [side \in {"source", "target"} |-> "none"]]
  /\ messages = 0 /\ messages_by_sender = [b \in Bot |-> 0]
  /\ active = [b \in Bot |-> NoTurn]
  /\ mailbox = [b \in Bot |-> <<>>] /\ queue = [b \in Bot |-> <<>>] /\ turn = [b \in Bot |-> Idle]
  /\ marked = [b \in Bot |-> FALSE] /\ handle = [b \in Bot |-> TRUE]
  /\ userTurns = 0 /\ touches = 0 /\ crashes = 0
  /\ depth = [r \in Request |-> 0] /\ replied = [r \in Request |-> 0] /\ lost = {}

ActorStep(b) ==
  \/ Enqueue(b) \/ HandleStop(b) \/ HandleShutdown(b)
  \/ StartUserTurn(b) \/ StartRequestTurn(b) \/ StartReplyTurn(b) \/ Prompted(b) \/ StartFails(b)

Next ==
  \/ \E r \in Request : SaveNotice(r) \/ NoticeFails(r) \/ Deliver(r) \/ DeliverFails(r)
  \/ \E b, target \in Bot, r \in Request : Reserve(b, target, r)
  \/ \E b \in Bot : UserWrites(b) \/ UserStops(b) \/ DeleteBot(b) \/ ActorStep(b)
  \/ \E b \in Bot, status \in {"completed", "failed", "cancelled"} : TurnEnds(b, status)
  \/ \E resumed \in SUBSET {b \in Bot : marked[b] /\ handle[b]} : Restart(resumed)

Spec == Init /\ [][Next]_vars

\* message_bot and the actors' loops go on, a session opens or fails (its requests have
\* a time limit), and the agents' turns end.
Fairness ==
  /\ \A r \in Request : WF_vars(SaveNotice(r)) /\ WF_vars(Deliver(r)) /\ WF_vars(DeliverFails(r))
  /\ \A b \in Bot : WF_vars(ActorStep(b)) /\ WF_vars(\E s \in {"completed", "failed", "cancelled"} : TurnEnds(b, s))

FairSpec == Spec /\ Fairness

-----------------------------------------------------------------------------
(***************************************************************************)
(* Properties.                                                             *)
(***************************************************************************)
TypeOK ==
  /\ stage \in [Request -> Stage] /\ req \in [Request -> Record]
  /\ notice \in [Request -> [{"source", "target"} -> Notice]]
  /\ messages \in Nat /\ messages_by_sender \in [Bot -> Nat]
  /\ active \in [Bot -> Active]
  /\ mailbox \in [Bot -> Seq(Command)] /\ queue \in [Bot -> Seq(Item)] /\ turn \in [Bot -> Turn]
  /\ marked \in [Bot -> BOOLEAN] /\ handle \in [Bot -> BOOLEAN]
  /\ userTurns \in 0..MaxUserTurns /\ touches \in 0..MaxTouches /\ crashes \in 0..MaxCrashes
  /\ depth \in [Request -> Depth] /\ replied \in [Request -> Nat] /\ lost \subseteq Bot

\* A slot is taken exactly as long as its request is pending: none leaks, none is given
\* back twice, however the request ends.
SlotsExact ==
  /\ messages = Cardinality(LiveRequests)
  /\ \A b \in Bot : messages_by_sender[b] = Cardinality({r \in LiveRequests : req[r].source = b})

\* Never more requests are pending than the limits allow.
WithinLimits ==
  /\ Cardinality(LiveRequests) <= MAX_PENDING_MESSAGES
  /\ \A b \in Bot : Cardinality({r \in LiveRequests : req[r].source = b}) <= MAX_PENDING_MESSAGES_PER_SENDER

\* "Bot request chains can make at most eight handoffs", counted along the turns and
\* replies that led to a request.
ChainsBounded == \A r \in Request : depth[r] <= MAX_REQUEST_HOPS

\* A request's reply wakes its sender at most once, and not when the recipient was stopped.
RepliesOnce ==
  \A r \in Request : replied[r] <= (IF "cancelled" \in {notice[r].source, notice[r].target} THEN 0 ELSE 1)

\* A finished exchange is never changed: not by a late start, a Stop, the recipient's
\* deletion or a restart.
FinishedStays ==
  [][\A r \in Request : \A side \in {"source", "target"} :
       notice[r][side] \in {"completed", "failed", "cancelled"} => notice'[r][side] = notice[r][side]]_vars

\* Nobody waits on another bot: a request that was admitted comes to an end.
RequestsEnd == \A r \in Request : stage[r] \in Live ~> stage[r] = "over"

\* An outcome reaches the sender in a turn of its own, unless its queue was dropped.
RepliesArrive ==
  \A r \in Request :
    {notice[r].source, notice[r].target} \subseteq {"completed", "failed"} ~> replied[r] = 1 \/ req[r].source \in lost
=============================================================================
