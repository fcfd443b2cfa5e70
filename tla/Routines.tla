------------------------------ MODULE Routines ------------------------------
(***************************************************************************)
(* Durable bot routines (host/src/routines/) and the slice of the bot      *)
(* actor (host/src/agent/bot/) that executes them: the run log kept under  *)
(* the kv key routines.v1, the scheduler that dispatches due runs, the     *)
(* per-bot reservation `active`, and the actor that claims a run when it   *)
(* reaches the front of its queue.                                         *)
(*                                                                         *)
(* Abstractions.  A run's id is its position in the order of creation; the *)
(* event is its source; the clock is the nondeterministic arrival of the   *)
(* instants the code compares with `now`; texts, names and keys are left   *)
(* out.  A user message is an item of the actor's queue that keeps the bot *)
(* busy.  `hist` and `used` are history variables: nothing reads them.     *)
(***************************************************************************)
EXTENDS Integers, Sequences, FiniteSets

CONSTANTS
  Bot,          \* agent bots
  Routine,      \* routine ids
  OwnerOf,      \* OwnerOf[r] is the bot that owns routine r
  OneShot,      \* routines whose only schedule is a `once` trigger
  CheckIn,      \* the lead bot's check-in routine, which may wait (lead::check_in_waits)
  Delivery,     \* delivery ids of webhook calls
  MaxRetries,   \* number of automatic retries (the length of DELAYS)
  MaxFinished,  \* finished runs kept (MAX_FINISHED_RUNS)
  MaxAgents,    \* agents in a bot's fallback chain
  SqliteFails,  \* whether writing the log may fail for a while
  MaxRuns,      \* bound: runs ever created
  MaxMail,      \* bound: commands and queued items of one actor
  MaxRequests,  \* bound: requests of clients, bots and webhook callers
  MaxCrashes    \* bound: restarts of the host process

ASSUME RoutinesAssumption ==
  /\ Routine # {} /\ OwnerOf \in [Routine -> Bot]
  /\ OneShot \subseteq Routine /\ CheckIn \subseteq Routine
  /\ MaxRetries \in Nat /\ MaxFinished \in Nat /\ MaxAgents \in Nat \ {0}
  /\ SqliteFails \in BOOLEAN
  /\ MaxRuns \in Nat /\ MaxMail \in Nat
  /\ MaxRequests \in Nat /\ MaxCrashes \in Nat

RunId == 1..MaxRuns
\* Fault: a cancelled run counts as active.
ActiveM == {"pending", "starting", "running", "recovering", "cancelled"}
Active == {"pending", "starting", "running", "recovering"}
Executing == {"starting", "running", "recovering"}
Finished == {"succeeded", "failed", "interrupted", "cancelled"}
Failure == {"failed", "interrupted"}
Event == {"schedule", "hook", "test", "null"}
NoDelivery == "none"

Run == [routine: Routine, status: Active \cup Finished \cup {"none"}, event: Event,
        delivery: Delivery \cup {NoDelivery}, attempt: 0..MaxRetries, later: BOOLEAN,
        retryAt: BOOLEAN, retryable: BOOLEAN, report: BOOLEAN]

Definition == [state : {"absent", "live", "deleted"}, enabled : BOOLEAN, wake : {"none", "later", "now"}]
Command == [cmd : {"routine", "send", "stop", "shutdown"}, run : 0..MaxRuns]
Turn == [phase : {"idle", "starting", "marked", "prompted"}, run : 0..MaxRuns, hidden : BOOLEAN,
         inflight : BOOLEAN, done : {"none", "ok", "err"}, stop : BOOLEAN, late : BOOLEAN, agent : 1..MaxAgents]
Completion == [run : 0..MaxRuns, status : Finished \cup {"none"}, late : BOOLEAN]

VARIABLES
  routines,   \* [Routine -> Definition]: the saved definitions
  runs,       \* [RunId -> Run]: the saved run log
  created,    \* how many runs were ever created
  acted,      \* runs whose turn holds a stored tool entry that may change something
  active,     \* bots reserved by a dispatched run (memory only)
  due,        \* what the scheduler's tick has left to dispatch (a snapshot)
  stopping,   \* the host is shutting down
  gone,       \* deleted bots
  mailbox,    \* mailbox[b]: commands sent to b's actor, oldest first
  queue,      \* queue[b]: the actor's queued turns
  turn,       \* turn[b]: the turn the actor runs
  completion, \* completion[b]: a run's outcome the actor has not saved yet
  requests,   \* requests so far
  crashes,    \* restarts so far
  used,       \* history: runs whose agent used a tool that may change something
  hist        \* history: per run, the agents given its instruction, whether one was twice, runs it redoes

logVars == <<routines, runs, created, acted>>
hostVars == <<active, due, stopping, gone>>
actorVars == <<mailbox, queue, turn, completion>>
vars == <<routines, runs, created, acted, active, due, stopping, gone,
          mailbox, queue, turn, completion, requests, crashes, used, hist>>

Idle == [phase |-> "idle", run |-> 0, hidden |-> FALSE, inflight |-> FALSE,
         done |-> "none", stop |-> FALSE, late |-> FALSE, agent |-> 1]
NoCompletion == [run |-> 0, status |-> "none", late |-> FALSE]

(***************************************************************************)
(* The run log.                                                            *)
(***************************************************************************)
AnyRoutine == CHOOSE r \in Routine : TRUE
NoRun == [routine |-> AnyRoutine, status |-> "none", event |-> "null", delivery |-> NoDelivery,
          attempt |-> 0, later |-> FALSE, retryAt |-> FALSE, retryable |-> FALSE, report |-> FALSE]

NewRun(r, event, delivery) ==
  [NoRun EXCEPT !.routine = r, !.status = "pending", !.event = event, !.delivery = delivery]

BotOf(run) == OwnerOf[run.routine]
IsActive(run) == run.status \in Active
Live(r) == routines[r].state = "live"

\* Run::waiting: a retry whose time has not come holds nothing up.
Waiting(run) == run.status = "pending" /\ run.later
Ready(run) == run.status = "pending" /\ ~Waiting(run)

Busy(log, r) == \E i \in RunId : log[i].routine = r /\ IsActive(log[i]) /\ ~Waiting(log[i])
MayRun(r, event) == routines[r].enabled \/ event = "test"

Cancelled(run) == [run EXCEPT !.status = "cancelled", !.event = "null"]
CancelWhere(log, S) == [i \in RunId |-> IF i \in S THEN Cancelled(log[i]) ELSE log[i]]
PendingOf(log, r) == {i \in RunId : log[i].routine = r /\ log[i].status = "pending"}

\* retry::forget: a failed run stops offering a retry and drops its event.
Forgotten(run) == [run EXCEPT !.retryable = FALSE, !.event = "null"]
Forget(log, S) ==
  [i \in RunId |-> IF i \in S /\ log[i].retryable THEN Forgotten(log[i]) ELSE log[i]]

\* Routines::change: what every update leaves of the log.  Active, unpublished
\* and retryable runs stay, and the newest MaxFinished of the others.  (A pruned
\* run's routine only names its bot to whoever still holds the run's id.)
Kept(run) == IsActive(run) \/ run.report \/ run.retryable
Prune(log) ==
  [i \in RunId |->
     IF Kept(log[i]) \/ Cardinality({j \in RunId : j > i /\ log[j].status # "none" /\ ~Kept(log[j])})
                        < MaxFinished
     THEN log[i] ELSE [NoRun EXCEPT !.routine = log[i].routine]]

\* The oldest run of S, the first the code's search of the log meets.
Oldest(i, S) == i \in S /\ \A j \in S : i <= j

Save(log) == runs' = Prune(log)

\* Saves the log with `run` pushed as its newest.
SavePushed(log, run) ==
  /\ created < MaxRuns
  /\ created' = created + 1
  /\ Save([log EXCEPT ![created + 1] = run])

\* Whether after_failure has a delay left for the run.
MayTryAgain(run) == Live(run.routine) /\ MayRun(run.routine, run.event) /\ run.attempt < MaxRetries

(***************************************************************************)
(* Routines::complete with retry::after_failure.  `seen` is what the store *)
(* holds of the tools the runs used.                                       *)
(***************************************************************************)
RecordOutcome(i, status, late, seen) ==
  LET run == runs[i]
      r == run.routine
      again == status \in Failure /\ ~late /\ i \notin seen /\ MayTryAgain(run)
      \* The outcome; a reply that is a pass leaves nothing to report.
      Ended(report) == [runs EXCEPT ![i].status = status, ![i].report = report, ![i].event = "null"]
      Retried == [Ended(TRUE) EXCEPT ![i].retryAt = TRUE]
      wakes == {j \in PendingOf(runs, r) \ {i} : run.event = "schedule" /\ runs[j].event = "schedule"}
  IN \/ /\ run.status # "none" /\ ~IsActive(run)
        /\ Save(runs)
        /\ UNCHANGED <<created, hist>>
     \/ /\ IsActive(run) /\ (status \notin Failure \/ ~Live(r))
        /\ \E report \in BOOLEAN :
             /\ status \in Failure => report
             /\ status = "cancelled" => ~report
             /\ Save(Ended(report))
        /\ UNCHANGED <<created, hist>>
     \/ /\ IsActive(run) /\ again
        /\ \E wake \in wakes :
             /\ Oldest(wake, wakes)
             /\ Save([Retried EXCEPT ![wake].attempt = run.attempt + 1])
             /\ hist' = [hist EXCEPT ![wake].redoes = @ \cup {i}]
        /\ UNCHANGED created
     \/ /\ IsActive(run) /\ again /\ wakes = {}
        /\ SavePushed(Retried, [NewRun(r, run.event, NoDelivery)
                                  EXCEPT !.attempt = run.attempt + 1, !.later = TRUE])
        /\ hist' = [hist EXCEPT ![created + 1].redoes = @ \cup {i}]
     \/ /\ IsActive(run) /\ status \in Failure /\ Live(r) /\ ~again
        /\ Save([Forget(Ended(TRUE), {j \in RunId : runs[j].routine = r})
                   EXCEPT ![i].retryable = TRUE, ![i].event = run.event])
        /\ UNCHANGED <<created, hist>>

(***************************************************************************)
(* Requests of clients and of the routines MCP server, webhook deliveries. *)
(***************************************************************************)
ARequest == requests < MaxRequests /\ requests' = requests + 1
LogFrame == UNCHANGED <<acted, hostVars, actorVars, crashes, used, hist>>
RequestFrame == ARequest /\ LogFrame

\* A trigger's next occurrence after now: none for a one-time trigger that passed.
NextWake(r) == IF r \in OneShot THEN {"later", "none"} ELSE {"later"}

\* Routines::save, creating (on) or updating routine r.
SaveRoutine(r, on, wake) ==
  /\ RequestFrame
  /\ routines[r].state # "deleted" /\ OwnerOf[r] \notin gone
  /\ routines[r].state = "absent" => on
  /\ wake \in NextWake(r) \cup (IF Live(r) /\ (~on \/ routines[r].enabled) THEN {routines[r].wake} ELSE {})
  /\ routines' = [routines EXCEPT ![r] = [state |-> "live", enabled |-> on, wake |-> wake]]
  /\ Save(IF on THEN runs ELSE CancelWhere(runs, PendingOf(runs, r)))
  /\ UNCHANGED created

SetEnabled(r, on, wake) ==
  /\ RequestFrame
  /\ Live(r)
  /\ wake \in (IF on /\ ~routines[r].enabled THEN NextWake(r) ELSE {routines[r].wake})
  /\ routines' = [routines EXCEPT ![r].enabled = on, ![r].wake = wake]
  /\ Save(IF on THEN runs ELSE CancelWhere(runs, PendingOf(runs, r)))
  /\ UNCHANGED created

Remove(r) ==
  /\ RequestFrame
  /\ Live(r)
  /\ routines' = [routines EXCEPT ![r].state = "deleted", ![r].enabled = FALSE]
  /\ Save(Forget(CancelWhere(runs, PendingOf(runs, r)), {i \in RunId : runs[i].routine = r}))
  /\ UNCHANGED created

\* Routines::enqueue for a test: a waiting retry runs now, else a new run.
RunNow(r) ==
  /\ RequestFrame
  /\ Live(r)
  /\ LET waiting == {i \in PendingOf(runs, r) : runs[i].later}
     IN \/ /\ \E i \in waiting : Oldest(i, waiting) /\ Save([runs EXCEPT ![i].later = FALSE])
           /\ UNCHANGED created
        \/ /\ waiting = {} /\ ~Busy(runs, r)
           /\ SavePushed(runs, NewRun(r, "test", NoDelivery))
  /\ UNCHANGED routines

\* Routines::receive and enqueue: a delivery the log knows changes nothing.
Receive(r, d) ==
  /\ RequestFrame
  /\ Live(r) /\ routines[r].enabled
  /\ \A i \in RunId : runs[i].routine = r => runs[i].delivery # d
  /\ ~Busy(runs, r)
  /\ SavePushed(runs, NewRun(r, "hook", d))
  /\ UNCHANGED routines

\* Routines::retry, the user's retry of a failed run.
Retry(i) ==
  LET r == runs[i].routine
  IN /\ RequestFrame
     /\ runs[i].retryable /\ Live(r) /\ MayRun(r, runs[i].event) /\ ~Busy(runs, r)
     /\ SavePushed([runs EXCEPT ![i] = Forgotten(@)], NewRun(r, runs[i].event, NoDelivery))
     /\ UNCHANGED routines

Room(b) == Len(mailbox[b]) + Len(queue[b]) < MaxMail
SendTo(b, cmd, i) == mailbox' = [mailbox EXCEPT ![b] = Append(@, [cmd |-> cmd, run |-> i])]

\* A user message or the bot's Stop.
UserSends(b, cmd) ==
  /\ ARequest
  /\ b \notin gone /\ Room(b)
  /\ SendTo(b, cmd, 0)
  /\ UNCHANGED <<logVars, hostVars, queue, turn, completion, crashes, used, hist>>

\* Routines::disable_bot.
DisableBot(b) ==
  /\ routines' = [r \in Routine |-> IF OwnerOf[r] = b
                    THEN [state |-> "deleted", enabled |-> FALSE, wake |-> routines[r].wake]
                    ELSE routines[r]]
  /\ LET mine == {i \in RunId : runs[i].status # "none" /\ BotOf(runs[i]) = b}
     IN Save(Forget(CancelWhere(runs, {i \in mine : IsActive(runs[i])}), mine))
  /\ active' = active \ {b}
  /\ UNCHANGED created

\* Hub::delete_bot.
DeleteBot(b) ==
  /\ ARequest
  /\ b \notin gone
  /\ DisableBot(b)
  /\ gone' = gone \cup {b}
  /\ SendTo(b, "shutdown", 0)
  /\ UNCHANGED <<acted, due, stopping, queue, turn, completion, crashes, used, hist>>

(***************************************************************************)
(* The scheduler (runner.rs: tick).                                        *)
(***************************************************************************)
\* The clock reaches a routine's next occurrence, or a retry's time.
WakeArrives(r) ==
  /\ routines[r].wake = "later"
  /\ routines' = [routines EXCEPT ![r].wake = "now"]
  /\ UNCHANGED <<runs, created, acted, hostVars, actorVars, requests, crashes, used, hist>>

RetryTimeArrives(i) ==
  /\ Waiting(runs[i])
  /\ runs' = [runs EXCEPT ![i].later = FALSE]
  /\ UNCHANGED <<routines, created, acted, hostVars, actorVars, requests, crashes, used, hist>>

\* schedule_due for routine r (one whose time comes with r's fires at the next
\* step): its pending run is the wake, else a new one.
ScheduleDue(r) ==
  /\ ~stopping /\ Live(r) /\ routines[r].enabled /\ routines[r].wake = "now"
  /\ routines' = [routines EXCEPT ![r].wake = IF r \in OneShot THEN "none" ELSE "later"]
  /\ LET pending == PendingOf(runs, r)
     IN \/ /\ \E i \in pending : Oldest(i, pending) /\ Save([runs EXCEPT ![i].later = FALSE])
           /\ UNCHANGED created
        \/ /\ pending = {}
           /\ SavePushed(runs, NewRun(r, "schedule", NoDelivery))
  /\ LogFrame /\ UNCHANGED requests

\* schedule_due when the trigger has no valid next occurrence.
ScheduleInvalid(r) ==
  /\ ~stopping /\ Live(r) /\ routines[r].enabled /\ routines[r].wake = "now"
  /\ routines' = [routines EXCEPT ![r].enabled = FALSE]
  /\ Save(runs)
  /\ UNCHANGED created /\ LogFrame /\ UNCHANGED requests

\* The queued runs to start now, read once for the tick's loop.
Snapshot ==
  /\ ~stopping /\ due = {}
  /\ due' = {i \in RunId : Ready(runs[i])}
  /\ due' # {}
  /\ UNCHANGED <<logVars, active, stopping, gone, actorVars, requests, crashes, used, hist>>

\* One round of the loop: the bot is reserved, and its actor is told.
Dispatch ==
  /\ ~stopping
  /\ \E i \in due : LET b == BotOf(runs[i]) IN
        /\ Oldest(i, due)
        /\ due' = due \ {i}
        /\ \/ /\ b \in gone
              /\ DisableBot(b)
              /\ UNCHANGED mailbox
           \/ /\ b \notin gone /\ b \notin active /\ Room(b)
              /\ active' = active \cup {b}
              /\ SendTo(b, "routine", i)
              /\ UNCHANGED <<routines, runs, created>>
           \/ /\ b \notin gone /\ b \in active
              /\ UNCHANGED <<routines, runs, created, active, mailbox>>
  /\ UNCHANGED <<acted, stopping, gone, queue, turn, completion, requests, crashes, used, hist>>

\* Routines::stop, when the host shuts down (within the bound on restarts).
StopScheduler ==
  /\ ~stopping /\ crashes < MaxCrashes
  /\ stopping' = TRUE /\ due' = {}
  /\ UNCHANGED <<logVars, active, gone, actorVars, requests, crashes, used, hist>>

(***************************************************************************)
(* The bot's actor.  It handles one thing at a time: a handler that awaits *)
(* (a turn starting) or loops (next_in_queue) is the phases "starting" and *)
(* "marked", or a free actor with a queue, and takes no command meanwhile. *)
(***************************************************************************)
Free(b) == turn[b] = Idle /\ completion[b] = NoCompletion
RunsRoutine(b) == turn[b].run # 0
AtSelect(b) == turn[b].phase \in {"idle", "prompted"} /\ ~(Free(b) /\ queue[b] # <<>>)

\* Fault: the reservation stays.
ReleasedM(b) == active
\* Routines::release.
Released(b) == active \ {b}

\* The bot's Stop frees the bot unless a run of it is under way.
AfterStop(b) == IF RunsRoutine(b) THEN active ELSE Released(b)

\* Fault: what came before the answer is not applied.
DrainedM(b) == acted
\* The tools the store knows of once what the agent sent before its answer is applied.
Drained(b) == IF turn[b].inflight THEN acted \cup {turn[b].run} ELSE acted

\* finish_routine: the outcome is saved, or kept when SQLite fails.
FinishRun(b, i, status, late, seen) ==
  \/ /\ RecordOutcome(i, status, late, seen)
     /\ active' = Released(b)
     /\ completion' = [completion EXCEPT ![b] = NoCompletion]
  \/ /\ SqliteFails
     /\ completion' = [completion EXCEPT ![b] = [run |-> i, status |-> status, late |-> late]]
     /\ UNCHANGED <<runs, created, active, hist>>

ActorFrame == UNCHANGED <<routines, due, stopping, gone, requests, crashes>>

\* on_cmd: routine and send queue an item, stop drops the queue and ends the turn.
HandleCommand(b) ==
  /\ AtSelect(b) /\ mailbox[b] # <<>>
  /\ LET cmd == Head(mailbox[b])
         queued == {i \in RunId : Ready(runs[i]) /\ BotOf(runs[i]) = b}
     IN /\ mailbox' = [mailbox EXCEPT ![b] = IF cmd.cmd = "shutdown" THEN <<>> ELSE Tail(@)]
        /\ \/ /\ cmd.cmd \in {"routine", "send"}
              /\ queue' = [queue EXCEPT ![b] = Append(@, cmd.run)]
              /\ UNCHANGED <<runs, active, turn, completion>>
           \/ /\ cmd.cmd = "stop"
              /\ Save(CancelWhere(runs, queued)) \/ (SqliteFails /\ UNCHANGED runs)
              /\ active' = AfterStop(b)
              /\ queue' = [queue EXCEPT ![b] = <<>>]
              /\ turn' = [turn EXCEPT ![b].stop = turn[b].phase # "idle"]
              /\ UNCHANGED completion
           \/ /\ cmd.cmd = "shutdown"
              /\ queue' = [queue EXCEPT ![b] = <<>>]
              /\ turn' = [turn EXCEPT ![b] = Idle]
              /\ completion' = [completion EXCEPT ![b] = NoCompletion]
              /\ UNCHANGED <<runs, active>>
  /\ UNCHANGED <<created, acted, used, hist>> /\ ActorFrame

NextIsRoutine(b) == Free(b) /\ queue[b] # <<>> /\ Head(queue[b]) # 0
PopQueue(b) == queue' = [queue EXCEPT ![b] = Tail(@)]

\* next_in_queue, a user message: its turn is prompted.
BeginUserTurn(b) ==
  /\ Free(b) /\ queue[b] # <<>> /\ Head(queue[b]) = 0
  /\ PopQueue(b)
  /\ turn' = [turn EXCEPT ![b] = [Idle EXCEPT !.phase = "prompted"]]
  /\ UNCHANGED <<runs, created, acted, active, mailbox, completion, used, hist>> /\ ActorFrame

\* next_in_queue, a routine: Routines::begin claims the run and the turn starts.
BeginRun(b) ==
  LET i == Head(queue[b])
  IN /\ NextIsRoutine(b) /\ ~stopping
     /\ runs[i].status = "pending" /\ BotOf(runs[i]) = b
     /\ Live(runs[i].routine) /\ MayRun(runs[i].routine, runs[i].event)
     /\ Save([runs EXCEPT ![i].status = "starting"])
     /\ turn' = [turn EXCEPT ![b] = [Idle EXCEPT !.phase = "starting", !.run = i]]
     /\ PopQueue(b)
     /\ UNCHANGED <<created, acted, active, mailbox, completion, used, hist>> /\ ActorFrame

\* A stopping host, a run no longer pending, or one whose routine was deleted or
\* paused (or whose check-in waits: lead::check_in_waits) never reaches the agent.
DropRun(b) ==
  LET i == Head(queue[b])
      run == runs[i]
  IN /\ NextIsRoutine(b)
     /\ \/ /\ stopping
           /\ UNCHANGED runs
        \/ /\ ~stopping /\ (run.status # "pending" \/ BotOf(run) # b)
           /\ Save(runs)
        \/ /\ ~stopping /\ run.status = "pending" /\ BotOf(run) = b
           /\ \/ ~Live(run.routine) \/ ~MayRun(run.routine, run.event)
              \/ run.event = "schedule" /\ run.routine \in CheckIn
           /\ Save(CancelWhere(runs, {i}))
     /\ active' = Released(b)
     /\ PopQueue(b)
     /\ UNCHANGED <<created, acted, mailbox, turn, completion, used, hist>> /\ ActorFrame

\* begin failed: the log could not be written, or the run's notice after it.
BeginFails(b) ==
  LET i == Head(queue[b])
  IN /\ NextIsRoutine(b) /\ ~stopping /\ SqliteFails
     /\ PopQueue(b)
     /\ \/ FinishRun(b, i, "failed", FALSE, acted)
        \/ /\ runs[i].status = "pending" /\ BotOf(runs[i]) = b /\ Live(runs[i].routine) /\ MayRun(runs[i].routine, runs[i].event)
           /\ Save([runs EXCEPT ![i].status = "starting"])
           /\ completion' = [completion EXCEPT ![b] = [run |-> i, status |-> "failed", late |-> FALSE]]
           /\ UNCHANGED <<created, active, hist>>
     /\ UNCHANGED <<acted, mailbox, turn, used>> /\ ActorFrame

\* start_turn got its session; mark_started saves that the run is running.
MarkStarted(b) ==
  LET i == turn[b].run
  IN /\ turn[b].phase = "starting"
     /\ runs[i].status \in Executing
     /\ Save([runs EXCEPT ![i].status = "running"])
     /\ turn' = [turn EXCEPT ![b].phase = "marked"]
     /\ UNCHANGED <<created, acted, active, mailbox, queue, completion, used, hist>> /\ ActorFrame

\* session/prompt: the run's instruction, or for a resumed run the word to go on.
Prompt(b) ==
  LET i == turn[b].run
  IN /\ turn[b].phase = "marked"
     /\ turn' = [turn EXCEPT ![b].phase = "prompted"]
     /\ hist' = IF turn[b].hidden THEN hist
                ELSE [hist EXCEPT ![i].instructed = @ \cup {turn[b].agent},
                                  ![i].again = @ \/ turn[b].agent \in hist[i].instructed]
     /\ UNCHANGED <<runs, created, acted, active, mailbox, queue, completion, used>> /\ ActorFrame

\* fall_back: the turn starts again on the chain's next agent.
MovesOn(b) ==
  /\ ~turn[b].hidden /\ ~turn[b].stop /\ ~turn[b].late /\ turn[b].agent < MaxAgents
  /\ turn' = [turn EXCEPT ![b] = [Idle EXCEPT !.phase = "starting", !.run = turn[b].run,
                                              !.agent = turn[b].agent + 1]]

\* start_error: the turn could not start (its run may not be runnable anymore).
StartFails(b) ==
  /\ turn[b].phase \in {"starting", "marked"}
  /\ \/ /\ MovesOn(b)
        /\ UNCHANGED <<runs, created, active, completion, hist>>
     \/ /\ \E late \in BOOLEAN : FinishRun(b, turn[b].run, "failed", late, acted)
        /\ turn' = [turn EXCEPT ![b] = Idle]
  /\ UNCHANGED <<acted, mailbox, queue, used>> /\ ActorFrame

\* A resumed run whose agent has no saved session or cannot load it.
SessionLost(b) ==
  /\ turn[b].phase = "starting" /\ turn[b].hidden
  /\ \E late \in BOOLEAN : FinishRun(b, turn[b].run, "interrupted", late, acted)
  /\ turn' = [turn EXCEPT ![b] = Idle]
  /\ UNCHANGED <<acted, mailbox, queue, used>> /\ ActorFrame

\* The agent uses a tool that may change something: its update is on its way.
AgentActs(b) ==
  /\ turn[b].phase = "prompted" /\ RunsRoutine(b) /\ turn[b].done = "none"
  /\ turn' = [turn EXCEPT ![b].inflight = TRUE]
  /\ used' = used \cup {turn[b].run}
  /\ UNCHANGED <<runs, created, acted, active, mailbox, queue, completion, hist>> /\ ActorFrame

\* on_incoming: the tool call is stored in the run's turn.
TakeUpdate(b) ==
  /\ AtSelect(b) /\ turn[b].inflight
  /\ turn' = [turn EXCEPT ![b].inflight = FALSE]
  /\ acted' = acted \cup {turn[b].run}
  /\ UNCHANGED <<runs, created, active, mailbox, queue, completion, used, hist>> /\ ActorFrame

\* The agent answers session/prompt.
AgentEnds(b, done) ==
  /\ turn[b].phase = "prompted" /\ turn[b].done = "none"
  /\ turn' = [turn EXCEPT ![b].done = done]
  /\ UNCHANGED <<runs, created, acted, active, mailbox, queue, completion, used, hist>> /\ ActorFrame

\* The run's time limit, or a stopped turn's grace, passed: the agent is killed,
\* and with its connection go the updates not taken yet.
KillAgent(b) ==
  /\ AtSelect(b) /\ turn[b].phase = "prompted"
  /\ \E late \in BOOLEAN :
       /\ IF late THEN RunsRoutine(b) /\ ~turn[b].late ELSE turn[b].stop
       /\ turn' = [turn EXCEPT ![b].late = @ \/ late, ![b].stop = TRUE, ![b].inflight = FALSE,
                               ![b].done = IF @ = "none" THEN "err" ELSE @]
  /\ UNCHANGED <<runs, created, acted, active, mailbox, queue, completion, used, hist>> /\ ActorFrame

\* on_turn_done: what the agent sent before its answer is applied first; then the
\* turn moves on to the next agent or finishes (finish_turn).
TurnDone(b) ==
  LET t == turn[b]
      seen == Drained(b)
      Outcomes == IF t.late THEN {"failed"}
                  ELSE IF t.stop THEN {"cancelled"}
                  ELSE IF t.done = "err" THEN {"failed"}
                  ELSE {"succeeded", "failed", "cancelled"}
  IN /\ AtSelect(b) /\ t.done # "none"
     /\ acted' = seen
     /\ \/ /\ t.run = 0
           /\ turn' = [turn EXCEPT ![b] = Idle]
           /\ UNCHANGED <<runs, created, active, completion, hist>>
        \/ /\ t.run # 0 /\ t.done = "err" /\ MovesOn(b)
           /\ UNCHANGED <<runs, created, active, completion, hist>>
        \/ /\ t.run # 0
           /\ \E status \in Outcomes : FinishRun(b, t.run, status, t.late, seen)
           /\ turn' = [turn EXCEPT ![b] = Idle]
     /\ UNCHANGED <<mailbox, queue, used>> /\ ActorFrame

\* The flush tick saves a kept outcome.
RetryCompletion(b) ==
  LET c == completion[b]
  IN /\ AtSelect(b) /\ c # NoCompletion
     /\ RecordOutcome(c.run, c.status, c.late, acted)
     /\ active' = Released(b)
     /\ completion' = [completion EXCEPT ![b] = NoCompletion]
     /\ UNCHANGED <<acted, mailbox, queue, turn, used>> /\ ActorFrame

(***************************************************************************)
(* The host process dies (or stops) and starts again: Routines::restore,   *)
(* then each actor resumes its bot's recovering run; `back` are the bots   *)
(* whose own chat turn is resumed.                                         *)
(***************************************************************************)
\* Fault: a claimed run stays claimed.
RestoredM(run) == IF run.status = "running" THEN [run EXCEPT !.status = "recovering"] ELSE run
\* Fault: a run under way is queued again.
RestoredTwice(run) == IF run.status \in {"starting", "running"} THEN [run EXCEPT !.status = "pending"] ELSE run

Restored(run) ==
  [run EXCEPT !.status = IF @ = "starting" THEN "pending" ELSE IF @ = "running" THEN "recovering" ELSE @]

Restart(back) ==
  LET log == [i \in RunId |-> Restored(runs[i])]
      recovering(b) == {i \in RunId : log[i].status = "recovering" /\ BotOf(log[i]) = b}
  IN /\ crashes < MaxCrashes
     /\ crashes' = crashes + 1
     /\ runs' = log
     /\ active' = {b \in Bot : recovering(b) # {}}
     /\ mailbox' = [b \in Bot |-> <<>>]
     /\ queue' = [b \in Bot |-> <<>>]
     /\ turn' = [b \in Bot |->
          IF b \notin gone /\ recovering(b) # {}
          THEN [Idle EXCEPT !.phase = "starting", !.run = CHOOSE i \in recovering(b) : Oldest(i, recovering(b)), !.hidden = TRUE]
          ELSE IF b \in back THEN [Idle EXCEPT !.phase = "prompted"] ELSE Idle]
     /\ completion' = [b \in Bot |-> NoCompletion]
     /\ due' = {} /\ stopping' = FALSE
     /\ UNCHANGED <<routines, created, acted, gone, requests, used, hist>>

-----------------------------------------------------------------------------
Init ==
  /\ routines \in [Routine -> {[state |-> "absent", enabled |-> FALSE, wake |-> "none"],
                               [state |-> "live", enabled |-> TRUE, wake |-> "later"]}]
  /\ runs = [i \in RunId |-> NoRun]
  /\ created = 0 /\ acted = {}
  /\ active = {} /\ due = {} /\ stopping = FALSE /\ gone = {}
  /\ mailbox = [b \in Bot |-> <<>>] /\ queue = [b \in Bot |-> <<>>]
  /\ turn = [b \in Bot |-> Idle]
  /\ completion = [b \in Bot |-> NoCompletion]
  /\ requests = 0 /\ crashes = 0 /\ used = {}
  /\ hist = [i \in RunId |-> [instructed |-> {}, again |-> FALSE, redoes |-> {}]]

Request ==
  \/ \E r \in Routine : \E on \in BOOLEAN, wake \in {"none", "later", "now"} :
       SaveRoutine(r, on, wake) \/ SetEnabled(r, on, wake)
  \/ \E r \in Routine : Remove(r) \/ RunNow(r)
  \/ \E r \in Routine, d \in Delivery : Receive(r, d)
  \/ \E i \in RunId : Retry(i)
  \/ \E b \in Bot : UserSends(b, "send") \/ UserSends(b, "stop") \/ DeleteBot(b)

Clock == (\E r \in Routine : WakeArrives(r)) \/ (\E i \in RunId : RetryTimeArrives(i))

Tick == (\E r \in Routine : ScheduleDue(r) \/ ScheduleInvalid(r)) \/ Snapshot \/ Dispatch

ActorStep(b) ==
  \/ HandleCommand(b) \/ BeginUserTurn(b) \/ BeginRun(b) \/ DropRun(b) \/ BeginFails(b)
  \/ MarkStarted(b) \/ Prompt(b) \/ StartFails(b) \/ SessionLost(b)
  \/ TakeUpdate(b) \/ KillAgent(b) \/ TurnDone(b) \/ RetryCompletion(b)

AgentStep(b) == AgentActs(b) \/ AgentEnds(b, "ok") \/ AgentEnds(b, "err")

Next ==
  \/ Request \/ Clock \/ Tick \/ StopScheduler
  \/ \E b \in Bot : ActorStep(b) \/ AgentStep(b)
  \/ \E back \in SUBSET {b \in Bot : turn[b].phase = "prompted" /\ turn[b].run = 0} : Restart(back)

Spec == Init /\ [][Next]_vars

\* The scheduler ticks every second, an actor's loop handles what is there, and
\* every turn ends: the agent answers, or its run's time limit kills it.
Fairness ==
  /\ WF_vars(Snapshot) /\ WF_vars(Dispatch)
  /\ \A r \in Routine : WF_vars(WakeArrives(r)) /\ WF_vars(ScheduleDue(r))
  /\ \A i \in RunId : WF_vars(RetryTimeArrives(i))
  /\ \A b \in Bot :
       /\ WF_vars(HandleCommand(b)) /\ WF_vars(BeginUserTurn(b))
       /\ WF_vars(BeginRun(b) \/ DropRun(b) \/ BeginFails(b))
       /\ WF_vars(MarkStarted(b) \/ StartFails(b) \/ SessionLost(b)) /\ WF_vars(Prompt(b))
       /\ WF_vars(AgentEnds(b, "ok") \/ AgentEnds(b, "err")) /\ WF_vars(TurnDone(b))
       /\ WF_vars(RetryCompletion(b))

FairSpec == Spec /\ Fairness

(***************************************************************************)
(* Properties.                                                             *)
(***************************************************************************)
TypeOK ==
  /\ routines \in [Routine -> Definition]
  /\ runs \in [RunId -> Run]
  /\ created \in 0..MaxRuns /\ acted \subseteq RunId /\ used \subseteq RunId
  /\ active \subseteq Bot /\ due \subseteq RunId /\ stopping \in BOOLEAN /\ gone \subseteq Bot
  /\ mailbox \in [Bot -> Seq(Command)] /\ queue \in [Bot -> Seq(0..MaxRuns)]
  /\ turn \in [Bot -> Turn] /\ completion \in [Bot -> Completion]
  /\ requests \in 0..MaxRequests /\ crashes \in 0..MaxCrashes
  /\ hist \in [RunId -> [instructed : SUBSET (1..MaxAgents), again : BOOLEAN, redoes : SUBSET RunId]]

Holds(b, i) == turn[b].run = i \/ completion[b].run = i

\* A run under way (claimed, running or recovering) is in its own bot's actor's
\* hands, whatever was dispatched, stopped or restarted meanwhile: as its turn,
\* or as the outcome the actor has yet to save.
ExecutingIsHeld ==
  \A i \in RunId : runs[i].status \in Executing => Holds(BotOf(runs[i]), i)

\* "Bot actors serialize routine work": no bot has two runs under way.
OneAtATime ==
  \A i, j \in RunId : runs[i].status \in Executing /\ runs[j].status \in Executing
                        /\ BotOf(runs[i]) = BotOf(runs[j]) => i = j

\* What each actor keeps to: one run at a time, its own, and a kept outcome is saved
\* before anything else starts.
ActorsInOrder ==
  \A b \in Bot :
    /\ turn[b].phase = "idle" => turn[b] = Idle
    /\ turn[b].phase # "idle" => completion[b] = NoCompletion
    /\ turn[b].phase \in {"starting", "marked"} \/ turn[b].inflight => turn[b].run # 0
    /\ IF completion[b].run = 0 THEN completion[b] = NoCompletion ELSE completion[b].status \in Finished

\* A run an actor was told of, or that the tick is about to tell it of, exists and
\* is of that bot; ids beyond `created` are unused.
Addressed ==
  /\ due \subseteq 1..created
  /\ \A i \in RunId : i > created => runs[i].status = "none"
  /\ \A b \in Bot : \A i \in RunId :
       \/ Holds(b, i)
       \/ \E k \in 1..Len(mailbox[b]) : mailbox[b][k].run = i
       \/ \E k \in 1..Len(queue[b]) : queue[b][k] = i
       => i <= created /\ BotOf(runs[i]) = b

\* A deleted bot has no routine left and no run under way or queued, and only a
\* deleted bot's actor is told to shut down.
GoneIsEmpty ==
  /\ \A b \in gone : /\ \A r \in Routine : OwnerOf[r] = b => routines[r].state = "deleted"
                     /\ \A i \in RunId : BotOf(runs[i]) = b => ~IsActive(runs[i])
  /\ \A b \in Bot : \A k \in 1..Len(mailbox[b]) : mailbox[b][k].cmd = "shutdown" => b \in gone

\* The inductive invariant: the four together are kept by every action.
IInv == TypeOK /\ ActorsInOrder /\ Addressed /\ GoneIsEmpty /\ ExecutingIsHeld

\* A reservation is never leaked: a reserved bot has something on the way whose
\* handling releases it, so no routine waits forever for a bot that is free.
ReservationsReturn ==
  \A b \in active :
    \/ \E k \in 1..Len(mailbox[b]) : mailbox[b][k].cmd = "routine"
    \/ \E k \in 1..Len(queue[b]) : queue[b][k] # 0
    \/ RunsRoutine(b) \/ completion[b] # NoCompletion

\* A restart resumes a run in its session; no agent is ever given the same run's
\* instruction a second time.
InstructedOnce == \A i \in RunId : ~hist[i].again

\* An automatic retry never repeats work: a run it redoes used no tool that may
\* change something.
NothingDoneTwice == \A i \in RunId : hist[i].redoes \cap used = {}

\* "Only a routine's latest such failure keeps its event": at most one finished
\* run per routine can be retried by hand, and every other one has dropped its event.
OneRetryOffer ==
  /\ \A i, j \in RunId : runs[i].retryable /\ runs[j].retryable
                           /\ runs[i].routine = runs[j].routine => i = j
  /\ \A i \in RunId : runs[i].status \in Finished =>
       (runs[i].event # "null" <=> runs[i].retryable)

\* An outcome is final: a run stopped, cancelled with its bot or finished is never
\* run again nor given another outcome by whoever still held it.
OutcomesAreFinal ==
  [][\A i \in RunId : runs[i].status \in Finished =>
       runs'[i].status \in {runs[i].status, "none"}]_vars

\* Every queued run, and every retry once its time comes, is run or dropped, and
\* every run ends, whatever Stops, edits and user messages come in between: no
\* reservation, kept outcome or stale command holds the bot forever.
RunsEnd == \A i \in RunId : IsActive(runs[i]) ~> ~IsActive(runs[i])

\* "Only one routine per bot is dispatched at a time" (docs/features/routines.md):
\* of a bot's runs at most one is on its way to the actor or in its hands.
Dispatched(b) ==
  {i \in RunId : /\ IsActive(runs[i]) /\ BotOf(runs[i]) = b
                 /\ \/ runs[i].status \in Executing
                    \/ \E k \in 1..Len(mailbox[b]) : mailbox[b][k] = [cmd |-> "routine", run |-> i]
                    \/ \E k \in 1..Len(queue[b]) : queue[b][k] = i}
OneDispatched == \A b \in Bot : \A i, j \in Dispatched(b) : i = j

\* The log and the actors implement RunLedger.  A run is executing once its start
\* is saved (mark_started), until its outcome is; one claimed but not started is
\* still queued, as a restart puts it back.
Place(exists, status) ==
  IF ~exists THEN "new"
  ELSE IF status \in {"pending", "starting"} THEN "queued"
  ELSE IF status \in {"running", "recovering"} THEN "executing"
  ELSE "done"
Ledger == INSTANCE RunLedger WITH
  ledger <- [i \in RunId |-> Place(i <= created, runs[i].status)],
  bot <- [i \in RunId |-> BotOf(runs[i])]
ImplementsLedger == Ledger!Spec
=============================================================================
