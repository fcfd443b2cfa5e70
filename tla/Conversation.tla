---------------------------- MODULE Conversation ----------------------------
(***************************************************************************)
(* The user's messages in a bot's own chat: posted by clients              *)
(* (host/src/chat/messages.rs), queued and folded into turns by the bot's  *)
(* actor (host/src/agent/bot/queue.rs, turn.rs), handed to the agent in    *)
(* the middle of its turn or taken back (steer.rs), dropped by Stop, and   *)
(* given up by a restart of the host (store/entries.rs: expire_pending).   *)
(*                                                                         *)
(* Abstractions.  A message is its number in the order of posting.  The    *)
(* turns that are not the user's are of two kinds: a "request" took its    *)
(* turn number when it was queued (a bot request's notice, saved in one    *)
(* step), a "reply" gets one when it starts (bot replies, a call's         *)
(* opening, or a routine run, which writes at once).  The bot has one      *)
(* agent, no fallbacks, and the chat one lane.  `took`, `steered`, `told`  *)
(* and `shown` are history variables.                                      *)
(***************************************************************************)
EXTENDS Integers, Sequences, FiniteSets

CONSTANTS
  Sender,       \* clients that post messages at the same time
  CanSteer,     \* whether the agent has _session/steering
  AnswersLost,  \* whether the agent's answer to a steer may miss STEER_ANSWER
  Other,        \* the kinds of other turns that arrive: a subset of {"request", "reply"}
  MaxMessages,  \* bound: messages ever posted
  MaxOthers,    \* bound: other turns ever queued
  MaxTouches,   \* bound: Send now, Remove and Stop requests
  MaxCrashes    \* bound: restarts of the host process

ASSUME ConversationAssumption ==
  /\ Sender # {} /\ CanSteer \in BOOLEAN /\ AnswersLost \in BOOLEAN
  /\ Other \subseteq {"request", "reply"}
  /\ MaxMessages \in Nat \ {0} /\ MaxOthers \in Nat /\ MaxTouches \in Nat /\ MaxCrashes \in Nat

Message == 1..MaxMessages
Number == 0..(MaxMessages + MaxOthers)
\* A post read the turn number n it will save its message with, or saved message n.
Progress == [step : {"none"}, n : {0}] \cup [step : {"read"}, n : Number] \cup [step : {"saved"}, n : Message]

Entry == [status : {"none", "queued", "sent", "cancelled", "failed"}, turn : Number, removed : BOOLEAN]
Item == [kind : {"user"}, id : Message] \cup [kind : {"request"}, id : Number] \cup [kind : {"reply"}, id : {0}]
Outcome == {"joined", "next", "failed"}
Command == [cmd : {"queue"}, item : Item] \cup [cmd : {"steer", "unqueue"}, id : Message]
             \cup [cmd : {"steered"}, id : Message, outcome : Outcome] \cup [cmd : {"stop"}]
Turn == [phase : {"idle", "starting", "running"}, number : Number, user : BOOLEAN,
         batch : Seq(Message), stop : BOOLEAN]

VARIABLES
  entry,     \* entry[m]: the saved message
  posted,    \* how many messages were ever posted
  written,   \* the turn numbers of the saved entries that are not the user's messages
  sending,   \* sending[s]: how far client s is with a post
  mailbox,   \* commands sent to the actor, oldest first
  queue,     \* the actor's queued turns
  turn,      \* the turn the actor runs
  inflight,  \* inflight[m]: "no", "yes" with the agent (steers_in_flight), or "back": taken back meanwhile
  held,      \* how the turn ended, while a steer's answer is awaited (held_done)
  done,      \* the agent's answer to session/prompt, on its way to the actor
  offered,   \* steer requests the agent has not handled
  awaited,   \* steers whose answer the host still waits for
  marked,    \* the kv mark turn.inflight
  others, touches, crashes,
  took,      \* history: the messages the agent was given, in order, each with its turn's number
              \* and whether it joined that turn
  steered,   \* history: messages that were ever steered
  told,      \* history: messages whose turn could not start, which the chat says
  shown      \* history: the highest number of a turn that ran

chatVars == <<entry, posted, written, sending>>
agentVars == <<done, offered, awaited>>
actorVars == <<queue, turn, inflight, held, marked>>
bounds == <<others, touches, crashes>>
history == <<took, steered, told, shown>>
vars == <<entry, posted, written, sending, mailbox, queue, turn, inflight, held, done, offered,
          awaited, marked, others, touches, crashes, took, steered, told, shown>>

Idle == [phase |-> "idle", number |-> 0, user |-> FALSE, batch |-> <<>>, stop |-> FALSE]
UserItem(m) == [kind |-> "user", id |-> m]
ItemsOf(q) == {q[i] : i \in 1..Len(q)}
Queued(q, m) == UserItem(m) \in ItemsOf(q)
WaitingIn(q) == {m \in Message : Queued(q, m)}
QueuedAt(q, m) == CHOOSE i \in 1..Len(q) : q[i] = UserItem(m)
RemovedAt(q, at) == SubSeq(q, 1, at - 1) \o SubSeq(q, at + 1, Len(q))
Without(q, m) == RemovedAt(q, QueuedAt(q, m))
Tell(cmd) == mailbox' = Append(mailbox, cmd)

\* max_turn: the highest turn number in the chat.
max_turn ==
  LET numbers == {0} \cup written \cup {entry[m].turn : m \in Message}
  IN CHOOSE n \in numbers : \A k \in numbers : k <= n
NotPosting == [step |-> "none", n |-> 0]

-----------------------------------------------------------------------------
(***************************************************************************)
(* Clients and the other sources of turns.                                 *)
(***************************************************************************)
NextTurn(n) == n + 1

\* post: it reads the chat's highest turn number, saves the message as the turn after
\* it, and hands it to the bot's actor; another client's post may come in between.
PostReads(s) ==
  /\ sending[s] = NotPosting
  /\ posted + Cardinality({t \in Sender : sending[t].step = "read"}) < MaxMessages
  /\ sending' = [sending EXCEPT ![s] = [step |-> "read", n |-> NextTurn(max_turn)]]
  /\ UNCHANGED <<entry, posted, written, mailbox, actorVars, agentVars, bounds, history>>

PostSaves(s) ==
  /\ sending[s].step = "read"
  /\ posted' = posted + 1
  /\ entry' = [entry EXCEPT ![posted + 1] = [status |-> "queued", turn |-> sending[s].n, removed |-> FALSE]]
  /\ sending' = [sending EXCEPT ![s] = [step |-> "saved", n |-> posted + 1]]
  /\ UNCHANGED <<written, mailbox, actorVars, agentVars, bounds, history>>

Send(s) ==
  /\ sending[s].step = "saved"
  /\ Tell([cmd |-> "queue", item |-> UserItem(sending[s].n)])
  /\ sending' = [sending EXCEPT ![s] = NotPosting]
  /\ UNCHANGED <<entry, posted, written, actorVars, agentVars, bounds, history>>

OtherArrives(kind) ==
  /\ others < MaxOthers /\ others' = others + 1
  /\ written' = IF kind = "request" THEN written \cup {max_turn + 1} ELSE written
  /\ Tell([cmd |-> "queue", item |-> [kind |-> kind, id |-> IF kind = "request" THEN max_turn + 1 ELSE 0]])
  /\ UNCHANGED <<entry, posted, sending, actorVars, agentVars, touches, crashes, history>>

\* The API's steer and unqueue: refused once the message no longer waits.
Touch(cmd, m) ==
  /\ touches < MaxTouches /\ touches' = touches + 1
  /\ entry[m].status = "queued"
  /\ Tell([cmd |-> cmd, id |-> m])
  /\ UNCHANGED <<chatVars, actorVars, agentVars, others, crashes, history>>

Stop ==
  /\ touches < MaxTouches /\ touches' = touches + 1
  /\ Tell([cmd |-> "stop"])
  /\ UNCHANGED <<chatVars, actorVars, agentVars, others, crashes, history>>

-----------------------------------------------------------------------------
(***************************************************************************)
(* The actor.  It takes a command or the agent's answer between handlers;  *)
(* while a turn starts (its session may take minutes) it takes none.       *)
(***************************************************************************)
AtSelect == turn.phase = "running" \/ (turn.phase = "idle" /\ queue = <<>>)
InFlight(m) == inflight[m] # "no"

\* Fault: a message the agent has is treated as one that waits.
WithAgentM(m) == FALSE
\* steer and unqueue: the message is already with the agent.
WithAgent(m) == InFlight(m)

MoveFirst(q, m) == <<UserItem(m)>> \o Without(q, m)

\* Faults: the messages keep their numbers, or get new ones.
RenumberedM(q) == entry
RenumberedAnew(q) ==
  [m \in Message |-> IF Queued(q, m) THEN [entry[m] EXCEPT !.turn = max_turn + 1 + Cardinality({k \in WaitingIn(q) : k < m})] ELSE entry[m]]
AheadOf(q, m) == {k \in WaitingIn(q) : \E i, j \in 1..Len(q) : i < j /\ q[i] = UserItem(k) /\ q[j] = UserItem(m)}
Dealt(q, m) ==
  CHOOSE n \in {entry[k].turn : k \in WaitingIn(q)} :
    /\ Cardinality({k \in WaitingIn(q) : entry[k].turn < n}) <= Cardinality(AheadOf(q, m))
    /\ Cardinality(AheadOf(q, m)) < Cardinality({k \in WaitingIn(q) : entry[k].turn <= n})
\* renumber_waiting: the waiting messages' numbers, dealt out again in their order.
Renumbered(q) ==
  [m \in Message |-> IF Queued(q, m) THEN [entry[m] EXCEPT !.turn = Dealt(q, m)] ELSE entry[m]]

Cancelled(S, gone) ==
  [m \in Message |-> IF m \in S THEN [entry[m] EXCEPT !.status = "cancelled", !.removed = gone] ELSE entry[m]]

EndTurn == turn' = Idle /\ marked' = FALSE /\ held' = "none"

\* Fault: the newest goes first.
PushedM(item) == <<item>> \o queue
Pushed(item) == Append(queue, item)
OnQueue(item) ==
  /\ queue' = Pushed(item)
  /\ UNCHANGED <<entry, turn, inflight, held, marked, offered, awaited, steered>>

\* steer: a message with the agent, or no longer waiting, stays as it is; the user's
\* own turn takes it in, or stops for it; behind any other turn it goes first.
Own == turn.phase = "running" /\ turn.user /\ ~turn.stop
OnSteer(m) ==
  \/ /\ WithAgent(m) \/ ~Queued(queue, m)
     /\ UNCHANGED <<entry, actorVars, offered, awaited, steered>>
  \/ /\ ~WithAgent(m) /\ Queued(queue, m) /\ Own /\ CanSteer
     /\ inflight' = [inflight EXCEPT ![m] = "yes"]
     /\ offered' = offered \cup {m} /\ awaited' = awaited \cup {m} /\ steered' = steered \cup {m}
     /\ UNCHANGED <<entry, queue, turn, held, marked>>
  \/ /\ ~WithAgent(m) /\ Queued(queue, m) /\ ~(Own /\ CanSteer)
     /\ queue' = MoveFirst(queue, m)
     /\ entry' = Renumbered(queue')
     /\ turn' = [turn EXCEPT !.stop = @ \/ Own]
     /\ steered' = steered \cup {m}
     /\ UNCHANGED <<inflight, held, marked, offered, awaited>>

\* unqueue: what the agent makes of a message it has decides.
OnUnqueue(m) ==
  /\ \/ /\ WithAgent(m)
        /\ inflight' = [inflight EXCEPT ![m] = "back"]
        /\ UNCHANGED <<entry, queue>>
     \/ /\ ~WithAgent(m) /\ Queued(queue, m)
        /\ queue' = Without(queue, m)
        /\ entry' = Cancelled({m}, TRUE)
        /\ UNCHANGED inflight
     \/ /\ ~WithAgent(m) /\ ~Queued(queue, m)
        /\ UNCHANGED <<entry, queue, inflight>>
  /\ UNCHANGED <<turn, held, marked, offered, awaited, steered>>

\* A message the agent took is the running turn's.
Joined(m) == [entry EXCEPT ![m].status = "sent", ![m].turn = turn.number]

\* steered: what became of the message; one Stop dropped meanwhile stays dropped.
Settled(m, outcome) ==
  \/ /\ ~InFlight(m) \/ ~Queued(queue, m)
     /\ UNCHANGED <<entry, queue>>
  \/ /\ InFlight(m) /\ Queued(queue, m) /\ outcome = "joined"
     /\ queue' = Without(queue, m)
     /\ entry' = Joined(m)
  \/ /\ inflight[m] = "back" /\ Queued(queue, m) /\ outcome # "joined"
     /\ queue' = Without(queue, m)
     /\ entry' = Cancelled({m}, TRUE)
  \/ /\ inflight[m] = "yes" /\ Queued(queue, m) /\ outcome = "next"
     /\ queue' = MoveFirst(queue, m)
     /\ entry' = Renumbered(queue')
  \/ /\ inflight[m] = "yes" /\ Queued(queue, m) /\ outcome = "failed"
     /\ UNCHANGED <<entry, queue>>

\* Fault: only a message that joined lets the turn end.
LastAnswerM(outcome) == outcome = "joined" /\ held # "none" /\ \A k \in Message : inflight'[k] = "no"
LastAnswer(outcome) == held # "none" /\ \A k \in Message : inflight'[k] = "no"

\* steer_answered: the last answer lets a held turn end (on_turn_done).
OnSteered(m, outcome) ==
  /\ Settled(m, outcome)
  /\ inflight' = [inflight EXCEPT ![m] = "no"]
  /\ IF LastAnswer(outcome)
     THEN EndTurn
     ELSE /\ turn' = IF entry'[m].status = "sent" /\ entry[m].status = "queued"
                     THEN [turn EXCEPT !.batch = Append(@, m)] ELSE turn
          /\ UNCHANGED <<held, marked>>
  /\ UNCHANGED <<offered, awaited, steered>>

\* stop: the queue is dropped, its messages cancelled, and the turn told to end.
OnStop ==
  /\ queue' = <<>>
  /\ entry' = Cancelled(WaitingIn(queue), FALSE)
  /\ turn' = [turn EXCEPT !.stop = turn.phase # "idle"]
  /\ UNCHANGED <<inflight, held, marked, offered, awaited, steered>>

HandleCommand ==
  /\ AtSelect /\ mailbox # <<>>
  /\ mailbox' = Tail(mailbox)
  /\ LET c == Head(mailbox)
     IN \/ c.cmd = "queue" /\ OnQueue(c.item)
        \/ c.cmd = "steer" /\ OnSteer(c.id)
        \/ c.cmd = "unqueue" /\ OnUnqueue(c.id)
        \/ c.cmd = "steered" /\ OnSteered(c.id, c.outcome)
        \/ c.cmd = "stop" /\ OnStop
  /\ UNCHANGED <<posted, written, sending, done, bounds, took, told, shown>>

\* How many of the queue's first items are of one kind: they are one turn.
Run(kind) ==
  CHOOSE k \in 1..Len(queue) :
    /\ \A i \in 1..k : queue[i].kind = kind
    /\ k = Len(queue) \/ queue[k + 1].kind # kind
AfterFirst(k) == SubSeq(queue, k + 1, Len(queue))
Higher(n) == IF n > shown THEN n ELSE shown

\* next_in_queue and start_turn up to the session: the user's messages waiting in a
\* row go together, as the last one's turn, and are marked sent.
StartUserTurn ==
  /\ turn.phase = "idle" /\ queue # <<>> /\ Head(queue).kind = "user"
  /\ LET k == Run("user")
         batch == [i \in 1..k |-> queue[i].id]
         number == entry[batch[k]].turn
     IN /\ queue' = AfterFirst(k)
        /\ entry' = [m \in Message |-> IF \E i \in 1..k : batch[i] = m
                                       THEN [entry[m] EXCEPT !.status = "sent"] ELSE entry[m]]
        /\ turn' = [phase |-> "starting", number |-> number, user |-> TRUE, batch |-> batch, stop |-> FALSE]
        /\ shown' = Higher(number)
  /\ marked' = TRUE
  /\ UNCHANGED <<posted, written, sending, mailbox, inflight, held, agentVars, bounds, took, steered, told>>

\* A bot request runs alone, as its notice's turn; replies in a row as a new one.
StartOtherTurn ==
  /\ turn.phase = "idle" /\ queue # <<>> /\ Head(queue).kind # "user"
  /\ LET kind == Head(queue).kind
         number == IF kind = "request" THEN Head(queue).id ELSE max_turn + 1
     IN /\ queue' = AfterFirst(IF kind = "request" THEN 1 ELSE Run("reply"))
        /\ turn' = [Idle EXCEPT !.phase = "starting", !.number = number]
        /\ marked' = (kind # "request")
        /\ shown' = Higher(number)
  /\ UNCHANGED <<chatVars, mailbox, inflight, held, agentVars, bounds, took, steered, told>>

\* session/prompt reaches the agent (a resumed turn carries no message).
Prompted ==
  /\ turn.phase = "starting"
  /\ turn' = [turn EXCEPT !.phase = "running"]
  /\ took' = took \o [i \in 1..Len(turn.batch) |-> [id |-> turn.batch[i], turn |-> turn.number, joined |-> FALSE]]
  /\ UNCHANGED <<chatVars, mailbox, queue, inflight, held, marked, agentVars, bounds, steered, told, shown>>

\* start_failed, which says so in the chat; a resumed turn whose session is gone just ends.
StartFails ==
  /\ turn.phase = "starting"
  /\ EndTurn
  /\ told' = told \cup {turn.batch[i] : i \in 1..Len(turn.batch)}
  /\ UNCHANGED <<chatVars, mailbox, queue, inflight, agentVars, bounds, took, steered, shown>>

\* Fault: the turn ends at once.
TurnEndedM == FALSE
\* turn_ended: the end waits for every steer's answer.
TurnEnded == \E m \in Message : InFlight(m)
TakeDone ==
  /\ turn.phase = "running" /\ done # "none"
  /\ done' = "none"
  /\ IF TurnEnded THEN held' = done /\ UNCHANGED <<turn, marked>> ELSE EndTurn
  /\ UNCHANGED <<chatVars, mailbox, queue, inflight, offered, awaited, bounds, history>>

-----------------------------------------------------------------------------
(***************************************************************************)
(* The agent and the task that waits for its answer to a steer.            *)
(***************************************************************************)
Working == turn.phase = "running" /\ done = "none" /\ held = "none"
AgentFrame == UNCHANGED <<chatVars, actorVars, bounds, steered, told, shown>>

\* The turn's first saved entry, when its number is not in the chat yet.
AgentWrites ==
  /\ Working /\ turn.number > max_turn
  /\ written' = written \cup {turn.number}
  /\ UNCHANGED <<entry, posted, sending, mailbox, actorVars, agentVars, bounds, history>>

AgentEnds(d) ==
  /\ Working
  /\ done' = d
  /\ UNCHANGED <<mailbox, offered, awaited, took>> /\ AgentFrame

Answer(m, outcome) ==
  /\ awaited' = awaited \ {m}
  /\ IF m \in awaited THEN Tell([cmd |-> "steered", id |-> m, outcome |-> outcome]) ELSE UNCHANGED mailbox

AgentTakes(m) ==
  /\ m \in offered /\ Working
  /\ offered' = offered \ {m}
  /\ took' = Append(took, [id |-> m, turn |-> turn.number, joined |-> TRUE])
  /\ Answer(m, "joined")
  /\ UNCHANGED done /\ AgentFrame

AgentRefuses(m, outcome) ==
  /\ m \in offered
  /\ offered' = offered \ {m}
  /\ Answer(m, outcome)
  /\ UNCHANGED <<done, took>> /\ AgentFrame

\* The answer misses STEER_ANSWER; the request is still with the agent.
SteerLost(m) ==
  /\ AnswersLost /\ m \in awaited
  /\ Answer(m, "failed")
  /\ UNCHANGED <<done, offered, took>> /\ AgentFrame

\* The agent's process ends: whatever it was asked is answered by an error.
AgentDies ==
  /\ Working \/ offered # {}
  /\ done' = IF Working THEN "err" ELSE done
  /\ offered' = {}
  /\ UNCHANGED <<mailbox, awaited, took>> /\ AgentFrame
AnswerFails(m) ==
  /\ m \in awaited \ offered
  /\ Answer(m, "failed")
  /\ UNCHANGED <<done, offered, took>> /\ AgentFrame

\* The grace of a stopped turn has passed: the actor ends the agent's process.
KillAgent == AtSelect /\ turn.phase = "running" /\ turn.stop /\ AgentDies

-----------------------------------------------------------------------------
\* Fault: they stay queued, in a queue that is gone.
RestartedM == entry
\* expire_pending: messages still queued are given up.
Restarted == [m \in Message |-> IF entry[m].status = "queued" THEN [entry[m] EXCEPT !.status = "failed"] ELSE entry[m]]

\* The host dies and starts again.  A marked turn is resumed in its session, when
\* there is one and the turn is not stale.
Restart(resume) ==
  /\ crashes < MaxCrashes /\ crashes' = crashes + 1
  /\ entry' = Restarted
  /\ sending' = [s \in Sender |-> NotPosting]
  /\ mailbox' = <<>> /\ queue' = <<>>
  /\ inflight' = [m \in Message |-> "no"]
  /\ held' = "none" /\ done' = "none" /\ offered' = {} /\ awaited' = {}
  /\ turn' = IF marked /\ resume THEN [Idle EXCEPT !.phase = "starting", !.number = max_turn, !.user = TRUE] ELSE Idle
  /\ marked' = (marked /\ resume)
  /\ shown' = IF marked /\ resume THEN Higher(max_turn) ELSE shown
  /\ UNCHANGED <<posted, written, others, touches, took, steered, told>>

-----------------------------------------------------------------------------
Init ==
  /\ entry = [m \in Message |-> [status |-> "none", turn |-> 0, removed |-> FALSE]]
  /\ posted = 0 /\ written = {} /\ sending = [s \in Sender |-> NotPosting]
  /\ mailbox = <<>> /\ queue = <<>> /\ turn = Idle
  /\ inflight = [m \in Message |-> "no"]
  /\ held = "none" /\ done = "none" /\ offered = {} /\ awaited = {} /\ marked = FALSE
  /\ others = 0 /\ touches = 0 /\ crashes = 0
  /\ took = <<>> /\ steered = {} /\ told = {} /\ shown = 0

AgentStep ==
  \/ AgentWrites \/ AgentEnds("ok") \/ AgentEnds("err") \/ AgentDies
  \/ \E m \in Message : \/ AgentTakes(m) \/ AgentRefuses(m, "next") \/ AgentRefuses(m, "failed")
                        \/ SteerLost(m) \/ AnswerFails(m)

Next ==
  \/ \E s \in Sender : PostReads(s) \/ PostSaves(s) \/ Send(s)
  \/ \E kind \in Other : OtherArrives(kind)
  \/ \E m \in Message : Touch("steer", m) \/ Touch("unqueue", m)
  \/ Stop
  \/ HandleCommand \/ StartUserTurn \/ StartOtherTurn \/ Prompted \/ StartFails \/ TakeDone \/ KillAgent
  \/ AgentStep
  \/ \E resume \in BOOLEAN : Restart(resume)

Spec == Init /\ [][Next]_vars

\* A client's post and the actor's loop go on, a session opens or fails (its requests
\* have a time limit), a stopped turn's agent is killed in the end, and a steer is
\* answered or runs into STEER_ANSWER.  Nothing is assumed of the agent.
Fairness ==
  /\ \A s \in Sender : WF_vars(PostSaves(s)) /\ WF_vars(Send(s))
  /\ WF_vars(HandleCommand) /\ WF_vars(StartUserTurn) /\ WF_vars(StartOtherTurn)
  /\ WF_vars(Prompted \/ StartFails) /\ WF_vars(TakeDone) /\ WF_vars(KillAgent)
  /\ \A m \in Message : WF_vars(SteerLost(m)) /\ WF_vars(AnswerFails(m))

FairSpec == Spec /\ Fairness

-----------------------------------------------------------------------------
(***************************************************************************)
(* Properties.                                                             *)
(***************************************************************************)
TypeOK ==
  /\ entry \in [Message -> Entry] /\ posted \in 0..MaxMessages /\ written \subseteq Number
  /\ sending \in [Sender -> Progress]
  /\ mailbox \in Seq(Command) /\ queue \in Seq(Item) /\ turn \in Turn
  /\ inflight \in [Message -> {"no", "yes", "back"}]
  /\ held \in {"none", "ok", "err"} /\ done \in {"none", "ok", "err"}
  /\ offered \subseteq Message /\ awaited \subseteq Message /\ marked \in BOOLEAN
  /\ others \in 0..MaxOthers /\ touches \in 0..MaxTouches /\ crashes \in 0..MaxCrashes
  /\ took \in Seq([id : Message, turn : Number, joined : BOOLEAN])
  /\ steered \subseteq Message /\ told \subseteq Message /\ shown \in Number

TookIds == {took[i].id : i \in 1..Len(took)}

\* A message is given to the agent at most once, however it was steered, taken back,
\* stopped or cut off by a restart.
HandedOnce == \A i, j \in 1..Len(took) : took[i].id = took[j].id => i = j

\* "Remove takes it back: it never goes out": a message the chat no longer shows was
\* never given to the agent.
RemovedNeverOut == \A m \in Message : entry[m].removed => m \notin TookIds

\* A message that joined a turn carries that turn's number, although the turn's end
\* and the answer to the steer travel apart; one that opened a turn has at most its number.
InItsTurn ==
  \A i \in 1..Len(took) : LET m == took[i].id IN
    entry[m].status = "sent" => IF took[i].joined THEN entry[m].turn = took[i].turn ELSE entry[m].turn <= took[i].turn

\* Messages nobody steered go out in the order they were posted.
OrderKept ==
  \A i, j \in 1..Len(took) :
    i < j /\ {took[i].id, took[j].id} \cap steered = {} => took[i].id < took[j].id

\* The numbers of the messages waiting in the queue rise along it, so that a batch,
\* which runs as its last message's turn, runs as its highest.
WaitingInOrder ==
  \A i, j \in 1..Len(queue) :
    i < j /\ queue[i].kind = "user" /\ queue[j].kind = "user"
      => entry[queue[i].id].turn < entry[queue[j].id].turn

\* "A queued message already holds the next turn": while a turn runs, no waiting
\* message has its number or a lower one.
QueuedHoldsNext ==
  turn.phase = "running" => \A m \in WaitingIn(queue) : entry[m].turn > turn.number

\* The clients take the highest number that is not a queued message's for the running
\* turn: while a turn runs (and is not being stopped) no such number is higher.
RunningIsNewest ==
  turn.phase = "running" /\ ~turn.stop =>
    /\ shown <= turn.number
    /\ \A m \in Message : entry[m].status \notin {"none", "queued"} /\ ~entry[m].removed
                            => entry[m].turn <= turn.number

\* A turn that has ended waits for the agent's answers only while one is to come: each message with
\* the agent is one the task of its steer still waits for, or whose answer is on its way to the actor
\* (host/src/agent/bot/steer.rs, steer_answered; turn.rs, turn_ended).
AnswerOwed ==
  /\ \A m \in Message : InFlight(m) =>
       m \in awaited \/ \E i \in 1..Len(mailbox) : mailbox[i].cmd = "steered" /\ mailbox[i].id = m
  /\ held # "none" => turn.phase = "running" /\ \E m \in Message : InFlight(m)

\* A message shown as sent has reached the agent, is about to with its turn, or the
\* chat says that its turn could not start.
SentReaches ==
  \A m \in Message : entry[m].status = "sent" =>
    \/ m \in TookIds \cup told
    \/ turn.phase = "starting" /\ \E i \in 1..Len(turn.batch) : turn.batch[i] = m

\* A stopped turn ends, whatever its agent does and however long a steer's answer takes.
StopEnds == turn.stop ~> ~turn.stop

\* If the agent never works forever, every message is sent, taken back or dropped.
MessagesSettle == ([]<>~Working) => \A m \in Message : (entry[m].status = "queued") ~> (entry[m].status # "queued")
=============================================================================
