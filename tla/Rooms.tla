-------------------------------- MODULE Rooms --------------------------------
(***************************************************************************)
(* A group chat: the room turns the user's messages start (host/src/chat/  *)
(* group.rs) and the turns its members take in them, each on the member's  *)
(* own actor beside its other work (host/src/agent/bot/queue.rs, turn.rs). *)
(*                                                                         *)
(* Abstractions.  A message is who wrote it and whom it @-mentions (a      *)
(* reply's author and @all included).  The members stay the same.  A       *)
(* member's work outside the room is "own" turns.  A room turn is known by *)
(* its epoch.  `told`, `overdue` and `cancelled` are history variables.    *)
(***************************************************************************)
EXTENDS Integers, Sequences, FiniteSets

CONSTANTS
  Members,       \* the group's members in their order
  User,
  MAX_ROUNDS,    \* 3 in the code
  MAX_REPLIES,   \* 10
  CutShort,      \* whether a reply may be cut short (a limit, a refusal)
  Overdue,       \* whether a member's turn may take longer than MEMBER_TIMEOUT
  MaxEpochs,     \* bound: the user's messages in the room and Stops of it
  MaxOwn,        \* bound: turns outside the room
  MaxStops,      \* bound: Stops in a member's own chat
  MaxCrashes     \* bound: restarts of the host process

Member == {Members[i] : i \in 1..Len(Members)}

ASSUME RoomsAssumption ==
  /\ Members \in Seq(Member) /\ Members # <<>> /\ Cardinality(Member) = Len(Members) /\ User \notin Member
  /\ MAX_ROUNDS \in Nat \ {0} /\ MAX_REPLIES \in Nat /\ CutShort \in BOOLEAN /\ Overdue \in BOOLEAN
  /\ MaxEpochs \in Nat /\ MaxOwn \in Nat /\ MaxStops \in Nat /\ MaxCrashes \in Nat

Epoch == 1..MaxEpochs
Round == 0..(MAX_ROUNDS - 1)
Message == [author : Member \cup {User}, names : SUBSET Member]

\* A room turn: between speakers ("round", "check"), about to send a member its turn,
\* waiting for its answer, or over.
Run == [at : {"none", "round", "check", "send", "wait", "over"}, round : Round, left : Seq(Member),
        spoke : BOOLEAN, replies : 0..MAX_REPLIES, later : SUBSET Member, asked : [Member -> Nat],
        busy : BOOLEAN, alerted : BOOLEAN]
GroupTurn == [epoch : Epoch, round : Round, late : BOOLEAN]
Item == [cmd : {"own"}] \cup [cmd : {"group"}, turn : GroupTurn]
Command == Item \cup [cmd : {"stop"}] \cup [cmd : {"cancel"}, epoch : Epoch]

VARIABLES
  log,       \* the room's messages
  epoch,     \* Rooms: the room's latest epoch
  run,       \* run[e]: the room turn of that epoch
  mailbox, queue, turn,  \* the members' actors
  owns, stops, crashes,
  told,      \* history: members the room said will answer later, and have not yet
  overdue,   \* history: members whose turn the room stopped waiting for
  cancelled  \* history: the room's latest epoch when it was stopped, as member m handled it

actors == <<mailbox, queue, turn>>
bounds == <<owns, stops, crashes>>
history == <<told, overdue, cancelled>>
vars == <<log, epoch, run, mailbox, queue, turn, owns, stops, crashes, told, overdue, cancelled>>

NoTurn == [epoch |-> 0, round |-> 0, late |-> FALSE]
Idle == [kind |-> "idle", turn |-> NoTurn, running |-> FALSE, stop |-> FALSE]
Turn == [kind : {"idle", "own", "group"}, turn : GroupTurn \cup {NoTurn}, running : BOOLEAN, stop : BOOLEAN]
NewRun == [at |-> "none", round |-> 0, left |-> <<>>, spoke |-> FALSE, replies |-> 0, later |-> {},
           asked |-> [m \in Member |-> 0], busy |-> FALSE, alerted |-> FALSE]
Tell(m, cmd) == mailbox' = [mailbox EXCEPT ![m] = Append(@, cmd)]

-----------------------------------------------------------------------------
(***************************************************************************)
(* Who speaks.                                                             *)
(***************************************************************************)
\* since_last_user_message, as positions in the log.
SinceUser == {i \in 1..Len(log) : \A k \in (i + 1)..Len(log) : log[k].author # User}
\* responders: the members named since the user's message, or everyone.
Responders ==
  LET named == UNION {log[i].names : i \in SinceUser}
  IN IF named = {} THEN Member ELSE named

\* The newest message a member answered or was shown when asked.
Seen(m, asked, i) == log[i].author = m \/ i <= asked[m]

\* cited: the members another member named since, who have not spoken or been asked after.
Cited(asked) ==
  {m \in Member : \E i \in SinceUser :
     /\ log[i].author \notin {User, m} /\ m \in log[i].names
     /\ \A k \in SinceUser : k >= i => ~Seen(m, asked, k)}

\* The items at the places K of a list, in its order: Vec::retain and filter.
Picked(q, K) ==
  [n \in 1..Cardinality(K) |-> q[CHOOSE k \in K : Cardinality({j \in K : j < k}) = n - 1]]
InOrder(S) == Picked(Members, {i \in 1..Len(Members) : Members[i] \in S})
\* Each round starts one member later.
Rotated(seq, n) == [i \in 1..Len(seq) |-> seq[((i - 1 + n) % Len(seq)) + 1]]

-----------------------------------------------------------------------------
(***************************************************************************)
(* The room turn (run).                                                    *)
(***************************************************************************)
\* The user writes: the message is saved and a room turn starts.
UserWrites(names) ==
  /\ epoch < MaxEpochs /\ epoch' = epoch + 1
  /\ log' = Append(log, [author |-> User, names |-> names])
  /\ run' = [run EXCEPT ![epoch + 1].at = "round"]
  /\ UNCHANGED <<actors, bounds, history>>

\* Rooms::stop: the running room turn is over before its next speaker, the members
\* drop or stop their turns in the room.
GroupStop ==
  /\ 0 < epoch /\ epoch < MaxEpochs /\ epoch' = epoch + 1 \* CancelGroup carries the epoch for `cancelled` only
  /\ mailbox' = [m \in Member |-> Append(mailbox[m], [cmd |-> "cancel", epoch |-> epoch])]
  /\ UNCHANGED <<log, run, queue, turn, bounds, history>>

StartRound(e) ==
  /\ run[e].at = "round"
  /\ LET speakers == InOrder(IF run[e].round = 0 THEN Responders ELSE Cited(run[e].asked))
     IN run' = [run EXCEPT ![e].at = "check", ![e].left = Rotated(speakers, run[e].round), ![e].spoke = FALSE]
  /\ UNCHANGED <<log, epoch, actors, bounds, history>>

\* The room turn is done: its last reply is pushed.
Finished(r) == [r EXCEPT !.at = "over", !.left = <<>>, !.alerted = r.replies > 0]

NextRound(r) == [r EXCEPT !.at = "round", !.round = @ + 1]
EndRound(e) ==
  /\ run[e].at = "check" /\ run[e].left = <<>>
  /\ run' = [run EXCEPT ![e] = IF @.spoke /\ @.round + 1 < MAX_ROUNDS
                               THEN NextRound(@) ELSE Finished(@)]
  /\ UNCHANGED <<log, epoch, actors, bounds, history>>

\* Fault: a newer message or a Stop is not noticed.
CurrentM(e) == TRUE
Current(e) == epoch = e
Full(r) == r.replies >= MAX_REPLIES
BusyElsewhere(m) == turn[m].kind = "own"

Skipped(r) == [r EXCEPT !.left = Tail(@)]
\* Before each speaker: is the room turn still the newest, is it full, does the member
\* answer later anyway, and is it busy elsewhere?
Check(e) ==
  /\ run[e].at = "check" /\ run[e].left # <<>>
  /\ LET m == Head(run[e].left)
     IN run' = [run EXCEPT ![e] =
                  IF ~Current(e) THEN [@ EXCEPT !.at = "over", !.left = <<>>]
                  ELSE IF Full(@) THEN Finished(@)
                  ELSE IF m \in @.later THEN Skipped(@)
                  ELSE [@ EXCEPT !.at = "send", !.asked[m] = Len(log), !.busy = BusyElsewhere(m)]]
  /\ UNCHANGED <<log, epoch, actors, bounds, history>>

AnswersLater(r) == [r EXCEPT !.at = "check", !.left = Tail(@), !.later = @ \cup {Head(r.left)}]
\* The member's turn goes to its actor; one that is busy elsewhere answers on its own.
SendTurn(e) ==
  /\ run[e].at = "send"
  /\ LET m == Head(run[e].left)
         late == run[e].busy
     IN /\ Tell(m, [cmd |-> "group", turn |-> [epoch |-> e, round |-> run[e].round, late |-> late]])
        /\ run' = [run EXCEPT ![e] = IF late THEN AnswersLater(@) ELSE [@ EXCEPT !.at = "wait"]]
        /\ told' = IF late THEN told \cup {m} ELSE told
  /\ UNCHANGED <<log, epoch, queue, turn, bounds, overdue, cancelled>>

\* The room turn still waits for this answer of m's.
Awaits(t, m) ==
  ~t.late /\ run[t.epoch].at = "wait" /\ run[t.epoch].round = t.round /\ Head(run[t.epoch].left) = m

\* Fault: only a reply lets the room go on.
AnsweredM(m, T, spoke) ==
  run' = [e \in Epoch |->
            IF spoke /\ \E t \in T : t.epoch = e /\ Awaits(t, m)
            THEN [run[e] EXCEPT !.at = "check", !.left = Tail(@), !.spoke = TRUE, !.replies = @ + 1] ELSE run[e]]
\* The answer, or the loss, of the turns T of m: what the room turns make of it.
Answered(m, T, spoke) ==
  run' = [e \in Epoch |->
            IF \E t \in T : t.epoch = e /\ Awaits(t, m)
            THEN [run[e] EXCEPT !.at = "check", !.left = Tail(@), !.spoke = @ \/ spoke,
                                !.replies = IF spoke THEN @ + 1 ELSE @]
            ELSE run[e]]

\* Fault: the member is asked again.
TimedOutM(r) == [r EXCEPT !.at = "send"]
TimedOut(r) == [r EXCEPT !.at = "check", !.left = Tail(@)]
\* MEMBER_TIMEOUT.
TimeOut(e) ==
  /\ Overdue /\ run[e].at = "wait"
  /\ run' = [run EXCEPT ![e] = TimedOut(@)]
  /\ overdue' = overdue \cup {Head(run[e].left)}
  /\ UNCHANGED <<log, epoch, actors, bounds, told, cancelled>>

-----------------------------------------------------------------------------
(***************************************************************************)
(* A member's actor.                                                       *)
(***************************************************************************)
OwnTurnArrives(m) ==
  /\ owns < MaxOwn /\ owns' = owns + 1
  /\ Tell(m, [cmd |-> "own"])
  /\ UNCHANGED <<log, epoch, run, queue, turn, stops, crashes, history>>

OwnStop(m) ==
  /\ stops < MaxStops /\ stops' = stops + 1
  /\ Tell(m, [cmd |-> "stop"])
  /\ UNCHANGED <<log, epoch, run, queue, turn, owns, crashes, history>>

AtSelect(m) == turn[m].running \/ (turn[m].kind = "idle" /\ queue[m] = <<>>)
Take(m, cmd) ==
  /\ AtSelect(m) /\ mailbox[m] # <<>> /\ Head(mailbox[m]).cmd = cmd
  /\ mailbox' = [mailbox EXCEPT ![m] = Tail(@)]
GroupAt(q) == {i \in 1..Len(q) : q[i].cmd = "group"}
TurnsIn(q) == {q[i].turn : i \in GroupAt(q)}
WithoutGroup(q) == Picked(q, (1..Len(q)) \ GroupAt(q))

HandleOwn(m) ==
  /\ Take(m, "own")
  /\ queue' = [queue EXCEPT ![m] = Append(@, [cmd |-> "own"])]
  /\ UNCHANGED <<log, epoch, run, turn, bounds, history>>

\* The room asks (again): this turn answers for any still waiting there.
HandleGroup(m) ==
  /\ Take(m, "group")
  /\ LET item == Head(mailbox[m])
     IN /\ queue' = [queue EXCEPT ![m] = Append(WithoutGroup(@), item)]
        /\ Answered(m, TurnsIn(queue[m]), FALSE)
        /\ told' = IF TurnsIn(queue[m]) # {} /\ ~item.turn.late THEN told \ {m} ELSE told
  /\ UNCHANGED <<log, epoch, turn, bounds, overdue, cancelled>>

\* CancelGroup.
HandleCancel(m) ==
  /\ Take(m, "cancel")
  /\ queue' = [queue EXCEPT ![m] = WithoutGroup(@)]
  /\ Answered(m, TurnsIn(queue[m]), FALSE)
  /\ turn' = [turn EXCEPT ![m].stop = @ \/ turn[m].kind = "group"]
  /\ told' = told \ {m}
  /\ cancelled' = [cancelled EXCEPT ![m] = Head(mailbox[m]).epoch]
  /\ UNCHANGED <<log, epoch, bounds, overdue>>

\* Fault: everything that is queued is dropped.
KeptM(item) == FALSE
\* A room's late turn stays.
Kept(item) == item.cmd = "group" /\ item.turn.late
KeptAt(q) == {i \in 1..Len(q) : Kept(q[i])}
\* Fault: the room is told of the running turn's end before it ended.
AnsweredByStopM(m) ==
  {queue[m][i].turn : i \in GroupAt(queue[m]) \ KeptAt(queue[m])} \cup (IF turn[m].kind = "group" THEN {turn[m].turn} ELSE {})
\* The turns a Stop in the member's chat drops.
AnsweredByStop(m) == {queue[m][i].turn : i \in GroupAt(queue[m]) \ KeptAt(queue[m])}
HandleStop(m) ==
  /\ Take(m, "stop")
  /\ Answered(m, AnsweredByStop(m), FALSE)
  /\ queue' = [queue EXCEPT ![m] = Picked(@, KeptAt(@))]
  /\ turn' = [turn EXCEPT ![m].stop = turn[m].kind # "idle"]
  /\ UNCHANGED <<log, epoch, bounds, history>>

StartOwn(m) ==
  /\ turn[m].kind = "idle" /\ queue[m] # <<>> /\ Head(queue[m]).cmd = "own"
  /\ queue' = [queue EXCEPT ![m] = Tail(@)]
  /\ turn' = [turn EXCEPT ![m] = [Idle EXCEPT !.kind = "own"]]
  /\ UNCHANGED <<log, epoch, run, mailbox, bounds, history>>

Starts(t, m) == t.late \/ (Awaits(t, m) /\ Current(t.epoch))
\* A turn nobody waits for any more, or of a room turn that is not the newest, is skipped.
StartGroup(m) ==
  /\ turn[m].kind = "idle" /\ queue[m] # <<>> /\ Head(queue[m]).cmd = "group"
  /\ queue' = [queue EXCEPT ![m] = Tail(@)]
  /\ LET t == Head(queue[m]).turn
     IN \/ /\ Starts(t, m)
           /\ turn' = [turn EXCEPT ![m] = [Idle EXCEPT !.kind = "group", !.turn = t]]
           /\ UNCHANGED <<run, overdue>>
        \/ /\ ~Starts(t, m)
           /\ Answered(m, {t}, FALSE)
           /\ overdue' = overdue \ {m}
           /\ UNCHANGED turn
  /\ UNCHANGED <<log, epoch, mailbox, bounds, told, cancelled>>

Prompted(m) ==
  /\ turn[m].kind # "idle" /\ ~turn[m].running
  /\ turn' = [turn EXCEPT ![m].running = TRUE]
  /\ UNCHANGED <<log, epoch, run, mailbox, queue, bounds, history>>

\* complete_group and the rest of the turn's end.
EndOf(m, spoke) ==
  /\ turn' = [turn EXCEPT ![m] = Idle]
  /\ IF turn[m].kind = "group" THEN Answered(m, {turn[m].turn}, spoke) ELSE UNCHANGED run
  /\ told' = IF turn[m].turn.late THEN told \ {m} ELSE told
  /\ overdue' = IF turn[m].kind = "group" THEN overdue \ {m} ELSE overdue
  /\ UNCHANGED <<epoch, mailbox, queue, bounds, cancelled>>

\* The member's reply, which the room sees; one cut short counts as a pass all the same.
Replies(m, names, whole) ==
  /\ turn[m].running /\ turn[m].kind = "group" /\ ~turn[m].stop
  /\ log' = Append(log, [author |-> m, names |-> names])
  /\ (whole \/ CutShort) /\ EndOf(m, whole)

\* A pass, a failure or a stop, also of a turn that could not start; or the end of work
\* outside the room.
EndsSilently(m) ==
  /\ turn[m].kind # "idle"
  /\ EndOf(m, FALSE)
  /\ UNCHANGED log

-----------------------------------------------------------------------------
\* The host dies and starts again: room turns and queues lived in memory, and a member's
\* turn in a room is not resumed.  Epochs go on here, to tell the room turns apart.
Restart ==
  /\ crashes < MaxCrashes /\ crashes' = crashes + 1
  /\ run' = [e \in Epoch |-> IF run[e].at = "none" THEN run[e] ELSE [run[e] EXCEPT !.at = "over", !.left = <<>>]]
  /\ mailbox' = [m \in Member |-> <<>>] /\ queue' = [m \in Member |-> <<>>]
  /\ turn' = [m \in Member |-> Idle]
  /\ overdue' = {}
  /\ UNCHANGED <<log, epoch, owns, stops, told, cancelled>>

Init ==
  /\ log = <<>> /\ epoch = 0 /\ run = [e \in Epoch |-> NewRun]
  /\ mailbox = [m \in Member |-> <<>>] /\ queue = [m \in Member |-> <<>>] /\ turn = [m \in Member |-> Idle]
  /\ owns = 0 /\ stops = 0 /\ crashes = 0
  /\ told = {} /\ overdue = {} /\ cancelled = [m \in Member |-> 0]

RoomStep(e) == StartRound(e) \/ EndRound(e) \/ Check(e) \/ SendTurn(e)
ActorStep(m) ==
  \/ HandleOwn(m) \/ HandleGroup(m) \/ HandleCancel(m) \/ HandleStop(m)
  \/ StartOwn(m) \/ StartGroup(m) \/ Prompted(m)

Next ==
  \/ \E names \in SUBSET Member : UserWrites(names)
  \/ GroupStop
  \/ \E e \in Epoch : RoomStep(e) \/ TimeOut(e)
  \/ \E m \in Member :
       \/ OwnTurnArrives(m) \/ OwnStop(m) \/ ActorStep(m) \/ EndsSilently(m)
       \/ \E names \in SUBSET (Member \ {m}), whole \in BOOLEAN : Replies(m, names, whole)
  \/ Restart

Spec == Init /\ [][Next]_vars

\* Room turns and actors go on, and a member's turn ends.
Fairness ==
  /\ \A e \in Epoch : WF_vars(RoomStep(e))
  /\ \A m \in Member : WF_vars(ActorStep(m)) /\ WF_vars(EndsSilently(m))

FairSpec == Spec /\ Fairness

\* With the room's time limit instead: a member's turn need not end.
TimeoutSpec ==
  /\ Spec
  /\ \A e \in Epoch : WF_vars(RoomStep(e)) /\ WF_vars(TimeOut(e))
  /\ \A m \in Member : WF_vars(ActorStep(m))

-----------------------------------------------------------------------------
(***************************************************************************)
(* Properties.                                                             *)
(***************************************************************************)
TypeOK ==
  /\ log \in Seq(Message) /\ epoch \in 0..MaxEpochs /\ run \in [Epoch -> Run]
  /\ mailbox \in [Member -> Seq(Command)] /\ queue \in [Member -> Seq(Item)] /\ turn \in [Member -> Turn]
  /\ owns \in 0..MaxOwn /\ stops \in 0..MaxStops /\ crashes \in 0..MaxCrashes
  /\ told \subseteq Member /\ overdue \subseteq Member /\ cancelled \in [Member -> 0..MaxEpochs]

Speaks(m, e) == turn[m].kind = "group" /\ turn[m].turn.epoch = e /\ ~turn[m].turn.late

\* "Members speak one at a time": of a room turn's members, those that answer later and
\* those the room stopped waiting for apart, one runs its turn.
OneSpeaks == \A e \in Epoch : \A m, k \in Member \ overdue : Speaks(m, e) /\ Speaks(k, e) => m = k

\* The same as it reads, of all members but those that answer later.
OneTurn == \A e \in Epoch : \A m, k \in Member : Speaks(m, e) /\ Speaks(k, e) => m = k

\* Once a member handled the group's Stop, no turn the room had asked of it before goes
\* on there, but one that is being stopped; late turns apart.
StopEndsTurns ==
  \A m \in Member : turn[m].kind = "group" /\ ~turn[m].turn.late /\ turn[m].turn.epoch <= cancelled[m] => turn[m].stop

\* "The group's Stop … drops it": the same of late turns.
StopDropsLate ==
  \A m \in Member : turn[m].kind = "group" /\ turn[m].turn.late /\ turn[m].turn.epoch <= cancelled[m] => turn[m].stop

\* "A member busy with a turn outside the room isn't waited for."
NotWaitedFor ==
  \A e \in Epoch : run[e].at = "wait" => turn[Head(run[e].left)].kind # "own"

\* A member that passed or answered is not asked again before the room said something
\* it has not seen: two asks of a room turn never show it the same room.
AskedForNews ==
  [][\A e \in Epoch, m \in Member :
       run'[e].at = "send" /\ run[e].at = "check" /\ Head(run[e].left) = m /\ run[e].asked[m] > 0
         => run[e].asked[m] < Len(log)]_vars

\* Every room turn ends.
RoomTurnsEnd == \A e \in Epoch : run[e].at = "round" ~> run[e].at = "over"

\* "Will answer here when it's done": the member's late turn comes, unless the group was
\* stopped or the room asked it again.
LateAnswers == \A m \in Member : m \in told ~> m \notin told
=============================================================================
