--------------------------- MODULE RoutinesProofs ---------------------------
(***************************************************************************)
(* Proofs about Routines, for any bots, routines and bounds: its inductive *)
(* invariant, what follows from it, and that the log implements RunLedger. *)
(*                                                                         *)
(* The argument has two halves.  A log update only ever SETTLES the runs   *)
(* that exist: it may end an active run, and an ended one stays ended or   *)
(* is pruned (LogStep); only BeginRun, BeginFails, MarkStarted and Restart *)
(* move a run forward, and each of them does it with the run in its own    *)
(* actor's hands.                                                          *)
(*                                                                         *)
(* Four properties need more than that invariant, each a part of its own   *)
(* at the end: what turns and outcomes know of a run (ToldInv, OnceInv),   *)
(* of a reservation (ReservedInv), and what the log keeps of an offer      *)
(* (Offers).                                                               *)
(***************************************************************************)
EXTENDS Routines, TLAPS

-----------------------------------------------------------------------------
(* Runs and logs. *)

Status == Active \cup Finished \cup {"none"}

LEMMA NoRunType == NoRun \in Run
  BY RoutinesAssumption DEF NoRun, Run, RunId, NoDelivery, Event, AnyRoutine

LEMMA RunUpdates ==
  ASSUME NEW run \in Run
  PROVE  /\ \A s \in Status : [run EXCEPT !.status = s] \in Run
         /\ \A e \in Event : [run EXCEPT !.event = e] \in Run
         /\ \A n \in 0..MaxRetries : [run EXCEPT !.attempt = n] \in Run
         /\ \A x \in BOOLEAN : /\ [run EXCEPT !.later = x] \in Run
                               /\ [run EXCEPT !.retryAt = x] \in Run
                               /\ [run EXCEPT !.retryable = x] \in Run
                               /\ [run EXCEPT !.report = x] \in Run
         /\ \A r \in Routine : [run EXCEPT !.routine = r] \in Run
  BY DEF Run, Status

\* What an update that starts nothing may make of a run.
Follows(old, new) ==
  /\ new \in Run
  /\ new.routine = old.routine
  /\ IsActive(new) => new.status = old.status
  /\ ~IsActive(old) => new.status \in {old.status, "none"}

Settles(log) == log \in [RunId -> Run] /\ \A i \in RunId : Follows(runs[i], log[i])

\* A whole step of the log: the existing runs settle, and at most one is pushed.
LogStep ==
  /\ runs' \in [RunId -> Run]
  /\ created' \in {created, created + 1} /\ created' <= MaxRuns
  /\ \A i \in RunId : i <= created => Follows(runs[i], runs'[i])
  /\ \A i \in RunId : i > created' => runs'[i].status = "none"
  /\ \A i \in RunId : i > created /\ i <= created' => runs'[i].status = "pending" /\ Live(runs'[i].routine)

LEMMA PruneKeeps ==
  ASSUME NEW log \in [RunId -> Run]
  PROVE  /\ Prune(log) \in [RunId -> Run]
         /\ \A i \in RunId : /\ Prune(log)[i].routine = log[i].routine
                             /\ Prune(log)[i] = log[i] \/ Prune(log)[i].status = "none"
                             /\ IsActive(log[i]) => Prune(log)[i] = log[i]
<1> DEFINE Blank(i) == [NoRun EXCEPT !.routine = log[i].routine]
<1>1. \A i \in RunId : Blank(i) \in Run
  BY NoRunType DEF Run
<1>2. \A i \in RunId : /\ Prune(log)[i] = log[i] \/ Prune(log)[i] = Blank(i)
                       /\ Kept(log[i]) => Prune(log)[i] = log[i]
  BY DEF Prune
<1>3. \A i \in RunId : Blank(i).routine = log[i].routine /\ Blank(i).status = "none"
  BY DEF NoRun
<1>4. Prune(log) \in [RunId -> Run]
  BY <1>1, <1>2 DEF Prune
<1> QED
  BY <1>2, <1>3, <1>4 DEF Kept

LEMMA SaveSettles ==
  ASSUME TypeOK, Addressed, NEW log, Settles(log), Save(log), created' = created
  PROVE  LogStep /\ \A i \in RunId : ~IsActive(log[i]) => ~IsActive(runs'[i])
<1>1. log \in [RunId -> Run] /\ runs' = Prune(log)
  BY DEF Settles, Save
<1>2. \A i \in RunId : Follows(runs[i], runs'[i])
  BY <1>1, PruneKeeps DEF Settles, Follows, IsActive, Active
<1>3. \A i \in RunId : i > created => runs'[i].status = "none"
  BY <1>2 DEF Addressed, Follows, IsActive, Active
<1>4. \A i \in RunId : ~IsActive(log[i]) => ~IsActive(runs'[i])
  BY <1>1, PruneKeeps DEF IsActive, Active
<1>5. LogStep
  BY <1>1, <1>2, <1>3, PruneKeeps, RoutinesAssumption DEF LogStep, TypeOK, RunId
<1> QED
  BY <1>4, <1>5

LEMMA SavePushedSettles ==
  ASSUME TypeOK, Addressed, NEW log, Settles(log), NEW run \in Run,
         run.status = "pending", Live(run.routine), SavePushed(log, run)
  PROVE  LogStep /\ \A i \in RunId : i <= created /\ ~IsActive(log[i]) => ~IsActive(runs'[i])
<1> DEFINE pushed == [log EXCEPT ![created + 1] = run]
<1>0. created \in Nat /\ MaxRuns \in Nat /\ \A i \in RunId : i \in Nat
  BY RoutinesAssumption DEF TypeOK, RunId
<1>1. /\ log \in [RunId -> Run] /\ created + 1 \in RunId /\ created + 1 <= MaxRuns
      /\ created' = created + 1 /\ runs' = Prune(pushed)
  BY RoutinesAssumption DEF Settles, SavePushed, Save, TypeOK, RunId
<1>2. pushed \in [RunId -> Run]
  BY <1>1
<1>2a. \A i \in RunId : i # created + 1 => pushed[i] = log[i] /\ Follows(runs[i], pushed[i])
  BY <1>1 DEF Settles
<1>3. \A i \in RunId : i # created + 1 => Follows(runs[i], runs'[i])
  <2> HIDE DEF pushed
  <2> QED BY <1>1, <1>2, <1>2a, PruneKeeps DEF Follows, IsActive, Active
<1>4. runs'[created + 1] = run
  BY <1>1, <1>2, PruneKeeps DEF IsActive, Active
<1>5. ASSUME NEW i \in RunId, i > created'
      PROVE  runs'[i].status = "none"
  <2>1. i > created /\ i # created + 1
    BY <1>0, <1>1, <1>5
  <2>2. runs[i].status = "none"
    BY <2>1 DEF Addressed
  <2> QED
    BY <1>3, <2>1, <2>2 DEF Follows, IsActive, Active
<1>6. runs' \in [RunId -> Run]
  BY <1>1, <1>2, PruneKeeps
<1>7. ASSUME NEW i \in RunId
      PROVE  /\ i <= created => i # created + 1
             /\ i > created /\ i <= created' => i = created + 1
  BY <1>0, <1>1
<1>8. LogStep
  BY <1>0, <1>1, <1>3, <1>4, <1>5, <1>6, <1>7 DEF LogStep, Live
<1>9. ASSUME NEW i \in RunId, i <= created, ~IsActive(log[i])
      PROVE  ~IsActive(runs'[i])
  <2>1. pushed[i] = log[i]
    BY <1>2a, <1>7, <1>9
  <2> HIDE DEF pushed
  <2> QED
    BY <1>1, <1>2, <1>9, <2>1, PruneKeeps DEF IsActive, Active
<1> QED
  BY <1>8, <1>9

LEMMA SettlesSame == ASSUME TypeOK PROVE Settles(runs)
<1>1. runs \in [RunId -> Run]
  BY DEF TypeOK
<1> QED
  BY <1>1 DEF Settles, Follows

LEMMA SettlesCancel ==
  ASSUME TypeOK, NEW S, \A i \in S \cap RunId : IsActive(runs[i])
  PROVE  Settles(CancelWhere(runs, S))
<1>1. runs \in [RunId -> Run]
  BY DEF TypeOK
<1>2. \A i \in RunId : /\ Cancelled(runs[i]) \in Run
                       /\ Cancelled(runs[i]).status = "cancelled"
                       /\ Cancelled(runs[i]).routine = runs[i].routine
  BY <1>1 DEF Cancelled, Run, Finished, Event
<1> QED
  BY <1>1, <1>2 DEF CancelWhere, Settles, Follows, IsActive, Active

LEMMA SettlesForget ==
  ASSUME NEW log, Settles(log), NEW S
  PROVE  Settles(Forget(log, S)) /\ \A i \in RunId : Forget(log, S)[i].status = log[i].status
<1>1. \A i \in RunId : /\ Forgotten(log[i]) \in Run
                       /\ Forgotten(log[i]).status = log[i].status
                       /\ Forgotten(log[i]).routine = log[i].routine
  BY DEF Forgotten, Settles, Run, Event
<1> QED
  BY <1>1 DEF Forget, Settles, Follows, IsActive

\* A change of one run that is neither its status nor its routine.
LEMMA SettlesField ==
  ASSUME NEW log, Settles(log), NEW i \in RunId, NEW new \in Run,
         new.status = log[i].status, new.routine = log[i].routine
  PROVE  Settles([log EXCEPT ![i] = new])
  BY DEF Settles, Follows, IsActive

LEMMA NewRunType ==
  ASSUME NEW r \in Routine, NEW e \in Event, NEW d \in Delivery \cup {NoDelivery}
  PROVE  /\ NewRun(r, e, d) \in Run
         /\ NewRun(r, e, d).status = "pending" /\ NewRun(r, e, d).routine = r
         /\ NewRun(r, e, d).event = e
  BY NoRunType DEF NewRun, NoRun, Run, Active

HistOK == hist \in [RunId -> [instructed : SUBSET (1..MaxAgents), again : BOOLEAN, redoes : SUBSET RunId]]

\* The log of an active run that ended, whatever else the code notes of it.
LEMMA SettlesEnd ==
  ASSUME TypeOK, NEW i \in RunId, IsActive(runs[i]), NEW status \in Finished, NEW report \in BOOLEAN
  PROVE  LET log == [runs EXCEPT ![i].status = status, ![i].report = report, ![i].event = "null"]
         IN Settles(log) /\ log[i].status = status
<1> DEFINE new == [runs[i] EXCEPT !.status = status, !.report = report, !.event = "null"]
           log == [runs EXCEPT ![i].status = status, ![i].report = report, ![i].event = "null"]
<1>1. runs \in [RunId -> Run]
  BY DEF TypeOK
<1>2. new \in Run /\ new.status = status /\ new.routine = runs[i].routine
  BY <1>1 DEF Run, Event
<1>3. log = [runs EXCEPT ![i] = new]
  BY <1>1
<1> HIDE DEF new
<1>4. log \in [RunId -> Run] /\ log[i] = new /\ \A j \in RunId : j # i => log[j] = runs[j]
  BY <1>1, <1>2, <1>3
<1>5. \A j \in RunId : Follows(runs[j], log[j])
  <2> HIDE DEF log
  <2> QED BY <1>1, <1>2, <1>4 DEF Follows, IsActive, Active, Finished
<1> QED
  BY <1>2, <1>4, <1>5 DEF Settles

LEMMA RecordOutcomeSettles ==
  ASSUME TypeOK, Addressed, NEW i \in RunId, i <= created, NEW status \in Finished, NEW late, NEW seen,
         RecordOutcome(i, status, late, seen)
  PROVE  LogStep /\ ~IsActive(runs'[i]) /\ HistOK'
<1> DEFINE run == runs[i]
           r == run.routine
           again == status \in Failure /\ ~late /\ i \notin seen /\ MayTryAgain(run)
           Ended(report) == [runs EXCEPT ![i].status = status, ![i].report = report, ![i].event = "null"]
           Retried == [Ended(TRUE) EXCEPT ![i].retryAt = TRUE]
           wakes == {j \in PendingOf(runs, r) \ {i} : run.event = "schedule" /\ runs[j].event = "schedule"}
           next == [NewRun(r, run.event, NoDelivery) EXCEPT !.attempt = run.attempt + 1, !.later = TRUE]
<1>1. HistOK /\ runs \in [RunId -> Run] /\ run \in Run /\ r \in Routine /\ created \in 0..MaxRuns
  BY DEF TypeOK, HistOK, Run
<1>2. ASSUME IsActive(run), NEW report \in BOOLEAN
      PROVE  Settles(Ended(report)) /\ ~IsActive(Ended(report)[i])
  BY <1>2, SettlesEnd DEF IsActive, Active, Finished
<1>3. IsActive(run) => Settles(Retried) /\ ~IsActive(Retried[i])
  <2> SUFFICES ASSUME IsActive(run) PROVE Settles(Retried) /\ ~IsActive(Retried[i])
    OBVIOUS
  <2>1. Settles(Ended(TRUE)) /\ ~IsActive(Ended(TRUE)[i])
    BY <1>2
  <2>2. PICK log : log = Ended(TRUE)
    OBVIOUS
  <2>3. Retried = [log EXCEPT ![i] = [log[i] EXCEPT !.retryAt = TRUE]]
    BY <2>2
  <2> HIDE DEF Ended, Retried
  <2>4. log[i] \in Run /\ log \in [RunId -> Run]
    BY <2>1, <2>2 DEF Settles
  <2>5. /\ [log[i] EXCEPT !.retryAt = TRUE] \in Run
        /\ [log[i] EXCEPT !.retryAt = TRUE].status = log[i].status
        /\ [log[i] EXCEPT !.retryAt = TRUE].routine = log[i].routine
    BY <2>4 DEF Run
  <2> QED
    BY <2>1, <2>2, <2>3, <2>4, <2>5, SettlesField DEF IsActive
<1>4. CASE run.status # "none" /\ ~IsActive(run) /\ Save(runs) /\ UNCHANGED <<created, hist>>
  BY <1>1, <1>4, SettlesSame, SaveSettles DEF HistOK
<1>5. CASE /\ IsActive(run)
           /\ \E report \in BOOLEAN : Save(Ended(report))
           /\ UNCHANGED <<created, hist>>
  <2>1. PICK report \in BOOLEAN : Save(Ended(report))
    BY <1>5
  <2> HIDE DEF Ended
  <2> QED
    BY <1>1, <1>2, <1>5, <2>1, SaveSettles DEF HistOK
<1>6. CASE /\ IsActive(run) /\ again
           /\ \E wake \in wakes : /\ Save([Retried EXCEPT ![wake].attempt = run.attempt + 1])
                                  /\ hist' = [hist EXCEPT ![wake].redoes = @ \cup {i}]
           /\ UNCHANGED created
  <2>1. PICK wake \in wakes : /\ Save([Retried EXCEPT ![wake].attempt = run.attempt + 1])
                              /\ hist' = [hist EXCEPT ![wake].redoes = @ \cup {i}]
    BY <1>6
  <2>2. wake \in RunId /\ wake # i
    BY DEF PendingOf
  <2>3. run.attempt + 1 \in 0..MaxRetries
    BY <1>1, <1>6, RoutinesAssumption DEF MayTryAgain, Run
  <2>4. PICK log : log = Retried
    OBVIOUS
  <2> DEFINE new == [log[wake] EXCEPT !.attempt = run.attempt + 1]
             all == [log EXCEPT ![wake] = new]
  <2>5. Save(all)
    BY <2>1, <2>4
  <2> HIDE DEF Retried
  <2>6. Settles(log) /\ ~IsActive(log[i]) /\ log \in [RunId -> Run] /\ log[wake] \in Run
    BY <1>3, <1>6, <2>2, <2>4 DEF Settles
  <2>7. new \in Run /\ new.status = log[wake].status /\ new.routine = log[wake].routine
    BY <2>3, <2>6 DEF Run
  <2> HIDE DEF new
  <2>8. Settles(all)
    BY <2>2, <2>6, <2>7, SettlesField
  <2>9. ~IsActive(all[i])
    BY <2>2, <2>6
  <2>10. HistOK'
    BY <1>1, <2>1, <2>2 DEF HistOK
  <2> HIDE DEF all
  <2> QED
    BY <1>6, <2>5, <2>8, <2>9, <2>10, SaveSettles
<1>7. CASE /\ IsActive(run) /\ again
           /\ SavePushed(Retried, next)
           /\ hist' = [hist EXCEPT ![created + 1].redoes = @ \cup {i}]
  <2>1. run.attempt + 1 \in 0..MaxRetries /\ Live(r)
    BY <1>1, <1>7, RoutinesAssumption DEF MayTryAgain, Run
  <2>2. NewRun(r, run.event, NoDelivery) \in Run /\ NewRun(r, run.event, NoDelivery).status = "pending"
        /\ NewRun(r, run.event, NoDelivery).routine = r
    <3>1. run.event \in Event
      BY <1>1 DEF Run
    <3> QED
      BY <1>1, <3>1, NewRunType
  <2>3. next \in Run /\ next.status = "pending" /\ next.routine = r
    BY <2>1, <2>2 DEF Run
  <2>4. created + 1 \in RunId
    BY <1>1, <1>7, RoutinesAssumption DEF SavePushed, RunId
  <2>5. HistOK'
    BY <1>1, <1>7, <2>4 DEF HistOK
  <2> HIDE DEF Retried, next
  <2> QED
    BY <1>3, <1>7, <2>1, <2>3, <2>5, SavePushedSettles
<1>8. CASE /\ IsActive(run)
           /\ Save([Forget(Ended(TRUE), {j \in RunId : runs[j].routine = r})
                      EXCEPT ![i].retryable = TRUE, ![i].event = run.event])
           /\ UNCHANGED <<created, hist>>
  <2>1. PICK log : log = Forget(Ended(TRUE), {j \in RunId : runs[j].routine = r})
    OBVIOUS
  <2> DEFINE new == [log[i] EXCEPT !.retryable = TRUE, !.event = run.event]
             all == [log EXCEPT ![i] = new]
  <2> HIDE DEF Ended
  <2>3. log[i].status = Ended(TRUE)[i].status
    BY <1>2, <1>8, <2>1, SettlesForget
  <2>2. Settles(log) /\ log \in [RunId -> Run] /\ log[i] \in Run
    BY <1>2, <1>8, <2>1, SettlesForget DEF Settles
  <2>4. all = [log EXCEPT ![i].retryable = TRUE, ![i].event = run.event]
    BY <2>2
  <2>5. new \in Run /\ new.status = log[i].status /\ new.routine = log[i].routine
    BY <1>1, <2>2 DEF Run
  <2>6. Save(all)
    BY <1>8, <2>1, <2>4
  <2> HIDE DEF new
  <2>7. Settles(all)
    BY <2>2, <2>5, SettlesField
  <2>8. ~IsActive(all[i])
    BY <1>2, <1>8, <2>2, <2>3, <2>5 DEF IsActive
  <2> HIDE DEF all
  <2> QED
    BY <1>1, <1>8, <2>6, <2>7, <2>8, SaveSettles DEF HistOK
<1> QED
  BY <1>4, <1>5, <1>6, <1>7, <1>8 DEF RecordOutcome

-----------------------------------------------------------------------------
(* Mailboxes and queues. *)

LEMMA AppendAdds ==
  ASSUME NEW T, NEW s \in Seq(T), NEW x \in T
  PROVE  /\ Append(s, x) \in Seq(T)
         /\ \A k \in 1..Len(Append(s, x)) : (k \in 1..Len(s) /\ Append(s, x)[k] = s[k]) \/ Append(s, x)[k] = x
  OBVIOUS

LEMMA TailDrops ==
  ASSUME NEW T, NEW s \in Seq(T), s # <<>>
  PROVE  /\ Tail(s) \in Seq(T) /\ Head(s) \in T
         /\ 1 \in 1..Len(s) /\ Head(s) = s[1]
         /\ \A k \in 1..Len(Tail(s)) : k + 1 \in 1..Len(s) /\ Tail(s)[k] = s[k + 1]
  OBVIOUS

-----------------------------------------------------------------------------
(* What every step keeps. *)

InMail(b, i) == \E k \in 1..Len(mailbox[b]) : mailbox[b][k].run = i
InQueue(b, i) == \E k \in 1..Len(queue[b]) : queue[b][k] = i
Named(b, i) == Holds(b, i) \/ InMail(b, i) \/ InQueue(b, i)
ToldToStop(b) == \E k \in 1..Len(mailbox[b]) : mailbox[b][k].cmd = "shutdown"

\* As LogStep, but active runs may also move forward.
LogMove ==
  /\ created' \in {created, created + 1}
  /\ \A i \in RunId : i <= created => /\ runs'[i].routine = runs[i].routine
                                      /\ IsActive(runs'[i]) => IsActive(runs[i])
  /\ \A i \in RunId : i > created' => runs'[i].status = "none"
  /\ \A i \in RunId : i > created /\ i <= created' => runs'[i].status = "pending" /\ Live(runs'[i].routine)

LEMMA StepMoves == ASSUME LogStep PROVE LogMove
  BY DEF LogStep, LogMove, Follows, IsActive

LEMMA SameMoves == ASSUME TypeOK, Addressed, UNCHANGED <<runs, created>> PROVE LogMove
<1>1. created \in Nat /\ \A i \in RunId : i \in Nat
  BY RoutinesAssumption DEF TypeOK, RunId
<1> QED
  BY <1>1 DEF LogMove, Addressed, IsActive

\* What a step may do to the log: it leaves an ended run ended (or prunes it), and puts
\* no run that was started back in the queue.
Allowed ==
  /\ LogMove
  /\ \A i \in RunId : i <= created =>
       /\ ~IsActive(runs[i]) => runs'[i].status \in {runs[i].status, "none"}
       /\ runs[i].status \in {"running", "recovering"} => runs'[i].status \notin {"pending", "starting"}

LEMMA StepAllowed == ASSUME LogStep PROVE Allowed
  BY StepMoves DEF LogStep, Allowed, Follows, IsActive, Active

\* Deleted routines stay deleted.
Monotone == \A r \in Routine : routines[r].state = "deleted" => routines'[r].state = "deleted"

LEMMA AddressedSteps ==
  ASSUME TypeOK, Addressed, LogMove, due' \subseteq 1..created,
         \A b \in Bot, i \in RunId : Named(b, i)' => Named(b, i) \/ (i <= created /\ BotOf(runs[i]) = b)
  PROVE  Addressed'
<1>1. created \in Nat /\ \A i \in RunId : i \in Nat
  BY RoutinesAssumption DEF TypeOK, RunId
<1>2. due' \subseteq 1..created'
  BY <1>1 DEF LogMove
<1>3. ASSUME NEW b \in Bot, NEW i \in RunId, Named(b, i)'
      PROVE  i <= created' /\ BotOf(runs'[i]) = b
  <2>1. i <= created /\ BotOf(runs[i]) = b
    BY <1>3 DEF Addressed, Named, InMail, InQueue
  <2> QED
    BY <1>1, <2>1 DEF LogMove, BotOf
<1> QED
  BY <1>2, <1>3 DEF Addressed, LogMove, Named, InMail, InQueue

LEMMA GoneSteps ==
  ASSUME TypeOK, TypeOK', GoneIsEmpty, LogMove, Monotone, gone' = gone,
         \A b \in Bot : ToldToStop(b)' => b \in gone
  PROVE  GoneIsEmpty'
<1>1. created \in Nat /\ \A i \in RunId : i \in Nat
  BY RoutinesAssumption DEF TypeOK, RunId
<1>2. ASSUME NEW b \in gone, NEW i \in RunId, BotOf(runs'[i]) = b
      PROVE  ~IsActive(runs'[i])
  <2>0. runs' \in [RunId -> Run]
    BY DEF TypeOK
  <2>1. CASE i <= created
    BY <1>2, <2>1 DEF LogMove, GoneIsEmpty, BotOf
  <2>2. CASE i > created
    BY <1>1, <1>2, <2>0, <2>2 DEF LogMove, GoneIsEmpty, BotOf, Live, IsActive, Active, Run
  <2> QED
    BY <1>1, <2>1, <2>2
<1> QED
  BY <1>2 DEF GoneIsEmpty, Monotone, ToldToStop, BotOf

HoldsNext(b, i) == turn'[b].run = i \/ completion'[b].run = i

LEMMA StillHeld ==
  ASSUME TypeOK, ExecutingIsHeld, LogStep,
         \A b \in Bot, i \in RunId : i <= created /\ BotOf(runs[i]) = b /\ Holds(b, i) /\ IsActive(runs'[i])
                                    => HoldsNext(b, i)
  PROVE  ExecutingIsHeld'
<1>1. created \in Nat /\ \A i \in RunId : i \in Nat
  BY RoutinesAssumption DEF TypeOK, RunId
<1> SUFFICES ASSUME NEW i \in RunId, runs'[i].status \in Executing
             PROVE  HoldsNext(BotOf(runs'[i]), i)
  BY DEF ExecutingIsHeld, Holds, HoldsNext, BotOf
<1>2. i <= created
  BY <1>1 DEF LogStep, Executing
<1>3. runs[i].status \in Executing /\ IsActive(runs'[i]) /\ BotOf(runs'[i]) = BotOf(runs[i])
  BY <1>2 DEF LogStep, Follows, IsActive, Active, Executing, BotOf
<1>4. BotOf(runs[i]) \in Bot
  BY RoutinesAssumption DEF TypeOK, BotOf, Run
<1> QED
  BY <1>2, <1>3, <1>4 DEF ExecutingIsHeld

\* A step that leaves the actors alone.
LEMMA QuietSteps ==
  ASSUME IInv, TypeOK', LogStep, Monotone, due' \subseteq 1..created,
         UNCHANGED <<mailbox, queue, turn, completion, gone>>
  PROVE  IInv' /\ Allowed
<1> USE DEF IInv
<1>1. LogMove
  BY StepMoves
<1>2. ActorsInOrder'
  BY DEF ActorsInOrder
<1>3. Addressed'
  <2>1. \A b \in Bot, i \in RunId : Named(b, i)' => Named(b, i)
    BY DEF Named, Holds, InMail, InQueue
  <2> QED
    BY <1>1, <2>1, AddressedSteps
<1>4. GoneIsEmpty'
  <2>1. \A b \in Bot : ToldToStop(b)' => b \in gone
    BY DEF ToldToStop, GoneIsEmpty
  <2> QED
    BY <1>1, <2>1, GoneSteps
<1>5. ExecutingIsHeld'
  BY StillHeld DEF Holds, HoldsNext
<1> QED
  BY <1>2, <1>3, <1>4, <1>5, StepAllowed

LEMMA RequestSteps ==
  ASSUME IInv, RequestFrame \/ (LogFrame /\ UNCHANGED requests), LogStep,
         routines' \in [Routine -> Definition], Monotone
  PROVE  IInv' /\ Allowed
<1>0. LogFrame
  BY DEF RequestFrame
<1>0a. requests' \in 0..MaxRequests
  BY RoutinesAssumption DEF IInv, TypeOK, RequestFrame, ARequest
<1>0b. created' \in 0..MaxRuns /\ runs' \in [RunId -> Run]
  BY RoutinesAssumption DEF IInv, TypeOK, LogStep
<1>1. TypeOK'
  BY <1>0, <1>0a, <1>0b DEF IInv, TypeOK, LogFrame, hostVars, actorVars
<1>2. due' \subseteq 1..created /\ UNCHANGED <<mailbox, queue, turn, completion, gone>>
  BY <1>0 DEF IInv, Addressed, LogFrame, hostVars, actorVars
<1> QED
  BY <1>1, <1>2, QuietSteps

LEMMA CancelPending ==
  ASSUME TypeOK, NEW r
  PROVE  Settles(CancelWhere(runs, PendingOf(runs, r)))
  BY SettlesCancel DEF PendingOf, IsActive, Active

LEMMA SetLater ==
  ASSUME TypeOK, NEW i \in RunId, NEW later \in BOOLEAN
  PROVE  Settles([runs EXCEPT ![i].later = later])
<1> DEFINE new == [runs[i] EXCEPT !.later = later]
<1>1. runs \in [RunId -> Run]
  BY DEF TypeOK
<1>2. new \in Run /\ new.status = runs[i].status /\ new.routine = runs[i].routine
  BY <1>1 DEF Run
<1>3. [runs EXCEPT ![i].later = later] = [runs EXCEPT ![i] = new]
  BY <1>1
<1> HIDE DEF new
<1> QED
  BY <1>2, <1>3, SettlesSame, SettlesField

LEMMA SaveRoutineStep ==
  ASSUME IInv, NEW r \in Routine, NEW on \in BOOLEAN, NEW wake \in {"none", "later", "now"},
         SaveRoutine(r, on, wake)
  PROVE  IInv' /\ Allowed
<1>1. routines' \in [Routine -> Definition] /\ Monotone
  BY DEF SaveRoutine, IInv, TypeOK, Definition, Monotone
<1>2. LogStep
  BY SettlesSame, CancelPending, SaveSettles DEF SaveRoutine, IInv
<1> QED
  BY <1>1, <1>2, RequestSteps DEF SaveRoutine

LEMMA SetEnabledStep ==
  ASSUME IInv, NEW r \in Routine, NEW on \in BOOLEAN, NEW wake \in {"none", "later", "now"},
         SetEnabled(r, on, wake)
  PROVE  IInv' /\ Allowed
<1>1. routines' \in [Routine -> Definition] /\ Monotone
  <2>1. /\ [routines[r] EXCEPT !.enabled = on, !.wake = wake] \in Definition
        /\ [routines[r] EXCEPT !.enabled = on, !.wake = wake].state = routines[r].state
    BY DEF IInv, TypeOK, Definition
  <2>2. routines' = [routines EXCEPT ![r] = [routines[r] EXCEPT !.enabled = on, !.wake = wake]]
    BY DEF SetEnabled
  <2> QED
    BY <2>1, <2>2 DEF IInv, TypeOK, Monotone
<1>2. LogStep
  BY SettlesSame, CancelPending, SaveSettles DEF SetEnabled, IInv
<1> QED
  BY <1>1, <1>2, RequestSteps DEF SetEnabled

LEMMA RemoveStep ==
  ASSUME IInv, NEW r \in Routine, Remove(r)
  PROVE  IInv' /\ Allowed
<1>1. routines' \in [Routine -> Definition] /\ Monotone
  <2> DEFINE new == [routines[r] EXCEPT !.state = "deleted", !.enabled = FALSE]
  <2>1. new \in Definition /\ new.state = "deleted"
    BY DEF IInv, TypeOK, Definition
  <2>2. routines' = [routines EXCEPT ![r] = new]
    BY DEF Remove
  <2> HIDE DEF new
  <2> QED
    BY <2>1, <2>2 DEF IInv, TypeOK, Monotone
<1>2. LogStep
  BY CancelPending, SettlesForget, SaveSettles DEF Remove, IInv
<1> QED
  BY <1>1, <1>2, RequestSteps DEF Remove

LEMMA RunNowStep ==
  ASSUME IInv, NEW r \in Routine, RunNow(r)
  PROVE  IInv' /\ Allowed
<1>1. routines' \in [Routine -> Definition] /\ Monotone
  BY DEF RunNow, IInv, TypeOK, Monotone
<1>2. ASSUME NEW i \in PendingOf(runs, r), Save([runs EXCEPT ![i].later = FALSE]), created' = created
      PROVE  LogStep
  BY <1>2, SetLater, SaveSettles DEF IInv, PendingOf
<1>3. ASSUME Live(r), SavePushed(runs, NewRun(r, "test", NoDelivery))
      PROVE  LogStep
  BY <1>3, NewRunType, SettlesSame, SavePushedSettles DEF IInv, Event
<1>4. LogStep
  BY <1>2, <1>3 DEF RunNow
<1> QED
  BY <1>1, <1>4, RequestSteps DEF RunNow

LEMMA ReceiveStep ==
  ASSUME IInv, NEW r \in Routine, NEW d \in Delivery, Receive(r, d)
  PROVE  IInv' /\ Allowed
<1>1. routines' \in [Routine -> Definition] /\ Monotone
  BY DEF Receive, IInv, TypeOK, Monotone
<1>2. LogStep
  BY NewRunType, SettlesSame, SavePushedSettles DEF Receive, IInv, Event
<1> QED
  BY <1>1, <1>2, RequestSteps DEF Receive

LEMMA RetryStep ==
  ASSUME IInv, NEW i \in RunId, Retry(i)
  PROVE  IInv' /\ Allowed
<1>1. routines' \in [Routine -> Definition] /\ Monotone
  BY DEF Retry, IInv, TypeOK, Monotone
<1>2. runs \in [RunId -> Run] /\ runs[i].routine \in Routine /\ runs[i].event \in Event
  BY DEF IInv, TypeOK, Run
<1>3. /\ Forgotten(runs[i]) \in Run /\ Forgotten(runs[i]).status = runs[i].status
      /\ Forgotten(runs[i]).routine = runs[i].routine
  BY <1>2 DEF Forgotten, Run, Event
<1>4. Settles([runs EXCEPT ![i] = Forgotten(@)])
  BY <1>2, <1>3, SettlesSame, SettlesField DEF IInv
<1>5. LogStep
  BY <1>2, <1>4, NewRunType, SavePushedSettles DEF Retry, IInv
<1> QED
  BY <1>1, <1>5, RequestSteps DEF Retry

LEMMA ScheduleDueStep ==
  ASSUME IInv, NEW r \in Routine, ScheduleDue(r)
  PROVE  IInv' /\ Allowed
<1>1. routines' \in [Routine -> Definition] /\ Monotone
  BY DEF ScheduleDue, IInv, TypeOK, Definition, Monotone
<1>2. ASSUME NEW i \in PendingOf(runs, r), Save([runs EXCEPT ![i].later = FALSE]), created' = created
      PROVE  LogStep
  BY <1>2, SetLater, SaveSettles DEF IInv, PendingOf
<1>3. ASSUME Live(r), SavePushed(runs, NewRun(r, "schedule", NoDelivery))
      PROVE  LogStep
  BY <1>3, NewRunType, SettlesSame, SavePushedSettles DEF IInv, Event
<1>4. LogStep
  BY <1>2, <1>3 DEF ScheduleDue
<1> QED
  BY <1>1, <1>4, RequestSteps DEF ScheduleDue

LEMMA ScheduleInvalidStep ==
  ASSUME IInv, NEW r \in Routine, ScheduleInvalid(r)
  PROVE  IInv' /\ Allowed
<1>1. routines' \in [Routine -> Definition] /\ Monotone
  BY DEF ScheduleInvalid, IInv, TypeOK, Definition, Monotone
<1>2. LogStep
  BY SettlesSame, SaveSettles DEF ScheduleInvalid, IInv
<1> QED
  BY <1>1, <1>2, RequestSteps DEF ScheduleInvalid

-----------------------------------------------------------------------------
(* The clock, the scheduler and requests that reach an actor. *)

LEMMA SettledStep ==
  ASSUME TypeOK, Addressed, NEW log, Settles(log), runs' = log, created' = created
  PROVE  LogStep
<1>1. created \in Nat /\ created <= MaxRuns /\ \A j \in RunId : j \in Nat
  BY RoutinesAssumption DEF TypeOK, RunId
<1>2. \A j \in RunId : j > created => log[j].status = "none"
  BY DEF Addressed, Settles, Follows, IsActive, Active
<1>3. \A j \in RunId : ~(j > created /\ j <= created)
  BY <1>1
<1>4. log \in [RunId -> Run] /\ \A j \in RunId : Follows(runs[j], log[j])
  BY DEF Settles
<1> HIDE DEF Settles
<1> QED
  BY <1>1, <1>2, <1>3, <1>4 DEF LogStep

LEMMA WakeArrivesStep ==
  ASSUME IInv, NEW r \in Routine, WakeArrives(r)
  PROVE  IInv' /\ Allowed
<1>1. routines' \in [Routine -> Definition] /\ Monotone
  BY DEF WakeArrives, IInv, TypeOK, Definition, Monotone
<1>2. TypeOK'
  BY <1>1 DEF WakeArrives, IInv, TypeOK, hostVars, actorVars
<1>3. LogStep
  BY SettlesSame, SettledStep DEF WakeArrives, IInv
<1> QED
  BY <1>1, <1>2, <1>3, QuietSteps DEF WakeArrives, IInv, Addressed, hostVars, actorVars

LEMMA RetryTimeArrivesStep ==
  ASSUME IInv, NEW i \in RunId, RetryTimeArrives(i)
  PROVE  IInv' /\ Allowed
<1>1. Settles([runs EXCEPT ![i].later = FALSE])
  BY SetLater DEF IInv
<1>2. TypeOK'
  BY <1>1 DEF RetryTimeArrives, IInv, TypeOK, hostVars, actorVars, Settles
<1>3. LogStep
  BY <1>1, SettledStep DEF RetryTimeArrives, IInv
<1> QED
  BY <1>2, <1>3, QuietSteps DEF RetryTimeArrives, IInv, Addressed, Monotone, hostVars, actorVars

\* A step that leaves the log and the actors alone.
LEMMA HostSteps ==
  ASSUME IInv, UNCHANGED <<logVars, gone, actorVars, requests, crashes, used, hist>>,
         active' \subseteq Bot, due' \subseteq 1..created, stopping' \in BOOLEAN
  PROVE  IInv' /\ Allowed
<1>1. UNCHANGED <<routines, runs, created, acted, mailbox, queue, turn, completion>>
  BY DEF logVars, actorVars
<1>2. due' \subseteq RunId
  BY RoutinesAssumption DEF IInv, TypeOK, RunId
<1>3. TypeOK'
  BY <1>1, <1>2 DEF IInv, TypeOK
<1>4. LogStep
  BY <1>1, SettlesSame, SettledStep DEF IInv
<1> QED
  BY <1>1, <1>3, <1>4, QuietSteps DEF Monotone

LEMMA SnapshotStep ==
  ASSUME IInv, Snapshot
  PROVE  IInv' /\ Allowed
<1>1. ASSUME NEW i \in RunId, Ready(runs[i]) PROVE i \in 1..created
  <2>1. i \in Nat /\ 1 <= i /\ created \in Nat
    BY RoutinesAssumption DEF IInv, TypeOK, RunId
  <2>2. ~(i > created)
    BY <1>1 DEF IInv, Addressed, Ready
  <2> QED
    BY <2>1, <2>2
<1> QED
  BY <1>1, HostSteps DEF Snapshot, IInv, TypeOK

LEMMA StopSchedulerStep ==
  ASSUME IInv, StopScheduler
  PROVE  IInv' /\ Allowed
  BY HostSteps DEF StopScheduler, IInv, TypeOK

\* A command sent to an actor: a run of its bot, a user's, or the end of a deleted bot's.
LEMMA SendSteps ==
  ASSUME IInv, TypeOK', LogStep, Monotone, due' \subseteq 1..created, gone \subseteq gone',
         UNCHANGED <<queue, turn, completion>>,
         NEW b \in Bot, NEW i \in 0..MaxRuns, NEW cmd, SendTo(b, cmd, i), [cmd |-> cmd, run |-> i] \in Command,
         i # 0 => i <= created /\ BotOf(runs[i]) = b,
         GoneIsEmpty'
  PROVE  IInv' /\ Allowed
<1> USE DEF IInv
<1>1. mailbox \in [Bot -> Seq(Command)] /\ LogMove
  BY StepMoves DEF TypeOK
<1>2. /\ mailbox'[b] = Append(mailbox[b], [cmd |-> cmd, run |-> i])
      /\ \A a \in Bot : a # b => mailbox'[a] = mailbox[a]
  BY <1>1 DEF SendTo
<1>3. ASSUME NEW a \in Bot, NEW j \in RunId, Named(a, j)'
      PROVE  Named(a, j) \/ (j <= created /\ BotOf(runs[j]) = a)
  <2>1. ASSUME InMail(a, j)', a = b PROVE InMail(a, j) \/ j = i
    BY <1>1, <1>2, <2>1, AppendAdds DEF InMail
  <2>2. j # 0
    BY RoutinesAssumption DEF RunId
  <2> QED
    BY <1>2, <1>3, <2>1, <2>2 DEF Named, InMail, InQueue, Holds
<1>4. Addressed'
  BY <1>1, <1>3, AddressedSteps
<1>5. ActorsInOrder'
  BY DEF ActorsInOrder
<1>6. ExecutingIsHeld'
  BY StillHeld DEF Holds, HoldsNext
<1> QED
  BY <1>4, <1>5, <1>6, StepAllowed

LEMMA UserSendsStep ==
  ASSUME IInv, NEW b \in Bot, NEW cmd \in {"send", "stop"}, UserSends(b, cmd)
  PROVE  IInv' /\ Allowed
<1> DEFINE sent == [cmd |-> cmd, run |-> 0]
<1>1. sent \in Command /\ 0 \in 0..MaxRuns
  BY RoutinesAssumption DEF Command
<1>2. /\ UNCHANGED <<runs, created, routines, acted, active, due, stopping, gone, queue, turn, completion, crashes, used, hist>>
      /\ mailbox' = [mailbox EXCEPT ![b] = Append(@, sent)] /\ requests' \in 0..MaxRequests
  BY RoutinesAssumption DEF UserSends, ARequest, SendTo, logVars, hostVars, IInv, TypeOK
<1>3. mailbox \in [Bot -> Seq(Command)]
  BY DEF IInv, TypeOK
<1>4. mailbox' \in [Bot -> Seq(Command)]
  BY <1>1, <1>2, <1>3, AppendAdds
<1>5. TypeOK'
  BY <1>2, <1>4 DEF IInv, TypeOK
<1>6. LogStep
  BY <1>2, SettlesSame, SettledStep DEF IInv
<1>7. GoneIsEmpty'
  <2>1. \A a \in Bot : ToldToStop(a)' => ToldToStop(a)
    BY <1>1, <1>2, <1>3, AppendAdds DEF ToldToStop
  <2>2. \A a \in Bot : ToldToStop(a)' => a \in gone
    BY <2>1 DEF ToldToStop, IInv, GoneIsEmpty
  <2> QED
    BY <1>2, <1>5, <1>6, <2>2, GoneSteps, StepMoves DEF IInv, Monotone
<1> QED
  BY <1>1, <1>2, <1>5, <1>6, <1>7, SendSteps DEF IInv, Addressed, Monotone, UserSends

\* Routines::disable_bot leaves the bot nothing that is or will be run.
LEMMA DisableBotEmpties ==
  ASSUME IInv, NEW b \in Bot, DisableBot(b)
  PROVE  /\ LogStep /\ Monotone /\ routines' \in [Routine -> Definition] /\ active' \subseteq Bot
         /\ UNCHANGED created
         /\ \A r \in Routine : OwnerOf[r] = b => routines'[r].state = "deleted"
         /\ \A i \in RunId : BotOf(runs'[i]) = b => ~IsActive(runs'[i])
<1> DEFINE mine == {i \in RunId : runs[i].status # "none" /\ BotOf(runs[i]) = b}
           ended == {i \in mine : IsActive(runs[i])}
           log == Forget(CancelWhere(runs, ended), mine)
<1>1. runs \in [RunId -> Run] /\ Save(log) /\ created' = created
  BY DEF DisableBot, IInv, TypeOK
<1>2. Settles(CancelWhere(runs, ended))
  BY SettlesCancel DEF IInv
<1>3. \A i \in RunId : BotOf(runs[i]) = b => ~IsActive(CancelWhere(runs, ended)[i])
  BY <1>1 DEF CancelWhere, Cancelled, IsActive, Active, Run
<1>4. PICK cut : cut = CancelWhere(runs, ended)
  OBVIOUS
<1>5. Settles(log) /\ \A i \in RunId : BotOf(runs[i]) = b => ~IsActive(log[i])
  <2>1. \A i \in RunId : Forget(cut, mine)[i].status = cut[i].status
    BY <1>2, <1>4, SettlesForget
  <2> QED
    BY <1>2, <1>3, <1>4, <2>1, SettlesForget DEF IsActive
<1>6. /\ routines' \in [Routine -> Definition] /\ Monotone
      /\ \A r \in Routine : OwnerOf[r] = b => routines'[r].state = "deleted"
  BY DEF DisableBot, IInv, TypeOK, Definition, Monotone
<1> HIDE DEF log
<1>7. LogStep /\ \A i \in RunId : BotOf(runs[i]) = b => ~IsActive(runs'[i])
  BY <1>1, <1>5, SaveSettles DEF IInv
<1>8. ASSUME NEW i \in RunId, BotOf(runs'[i]) = b
      PROVE  ~IsActive(runs'[i])
  <2>1. CASE i <= created
    BY <1>7, <1>8, <2>1 DEF LogStep, Follows, BotOf
  <2>2. CASE i > created
    BY <1>1, <1>7, <2>2 DEF LogStep, IsActive, Active
  <2> QED
    BY <2>1, <2>2, RoutinesAssumption DEF IInv, TypeOK, RunId
<1> QED
  BY <1>1, <1>6, <1>7, <1>8 DEF DisableBot, IInv, TypeOK

LEMMA DeleteBotStep ==
  ASSUME IInv, NEW b \in Bot, DeleteBot(b)
  PROVE  IInv' /\ Allowed
<1> DEFINE sent == [cmd |-> "shutdown", run |-> 0]
<1>1. sent \in Command /\ 0 \in 0..MaxRuns
  BY RoutinesAssumption DEF Command
<1>2. /\ UNCHANGED <<acted, due, stopping, queue, turn, completion, crashes, used, hist>>
      /\ mailbox' = [mailbox EXCEPT ![b] = Append(@, sent)] /\ requests' \in 0..MaxRequests
      /\ gone' = gone \cup {b}
  BY RoutinesAssumption DEF DeleteBot, ARequest, SendTo, IInv, TypeOK
<1>3. mailbox \in [Bot -> Seq(Command)]
  BY DEF IInv, TypeOK
<1>4. mailbox' \in [Bot -> Seq(Command)]
  BY <1>1, <1>2, <1>3, AppendAdds
<1>5. /\ LogStep /\ Monotone /\ routines' \in [Routine -> Definition] /\ active' \subseteq Bot
      /\ UNCHANGED created
      /\ \A r \in Routine : OwnerOf[r] = b => routines'[r].state = "deleted"
      /\ \A i \in RunId : BotOf(runs'[i]) = b => ~IsActive(runs'[i])
  BY DisableBotEmpties DEF DeleteBot
<1>6. TypeOK'
  <2>1. runs' \in [RunId -> Run]
    BY <1>5 DEF LogStep
  <2> QED
    BY <1>2, <1>4, <1>5, <2>1 DEF IInv, TypeOK
<1>7. GoneIsEmpty'
  <2>1. ASSUME NEW a \in Bot, ToldToStop(a)' PROVE a \in gone'
    <3>1. ToldToStop(a) \/ a = b
      BY <1>2, <1>3, <2>1 DEF ToldToStop
    <3> QED
      BY <1>2, <3>1 DEF ToldToStop, IInv, GoneIsEmpty
  <2>2. ASSUME NEW a \in gone, a # b, NEW i \in RunId, BotOf(runs'[i]) = a PROVE ~IsActive(runs'[i])
    <3>1. CASE i <= created
      BY <1>5, <2>2, <3>1 DEF LogStep, Follows, BotOf, IInv, GoneIsEmpty, IsActive
    <3>2. CASE i > created
      BY <1>5, <3>2 DEF LogStep, IsActive, Active
    <3> QED
      BY <3>1, <3>2, RoutinesAssumption DEF IInv, TypeOK, RunId
  <2>3. \A a \in gone' : /\ \A r \in Routine : OwnerOf[r] = a => routines'[r].state = "deleted"
                         /\ \A i \in RunId : BotOf(runs'[i]) = a => ~IsActive(runs'[i])
    BY <1>2, <1>5, <2>2 DEF IInv, GoneIsEmpty, Monotone
  <2> QED
    BY <2>1, <2>3 DEF GoneIsEmpty, ToldToStop, BotOf
<1> QED
  BY <1>1, <1>2, <1>5, <1>6, <1>7, SendSteps DEF IInv, Addressed, DeleteBot

LEMMA DispatchStep ==
  ASSUME IInv, Dispatch
  PROVE  IInv' /\ Allowed
<1>1. /\ UNCHANGED <<acted, stopping, gone, queue, turn, completion, requests, crashes, used, hist>>
      /\ ~stopping
  BY DEF Dispatch
<1>2. PICK i \in due : LET b == BotOf(runs[i]) IN
        /\ due' = due \ {i}
        /\ \/ /\ b \in gone
              /\ DisableBot(b)
              /\ UNCHANGED mailbox
           \/ /\ b \notin gone
              /\ active' = active \cup {b}
              /\ SendTo(b, "routine", i)
              /\ UNCHANGED <<routines, runs, created>>
           \/ UNCHANGED <<routines, runs, created, active, mailbox>>
  BY DEF Dispatch
<1> DEFINE b == BotOf(runs[i])
<1>3. /\ i \in RunId /\ i <= created /\ i # 0 /\ i \in 0..MaxRuns /\ b \in Bot
      /\ due' \subseteq 1..created /\ due' \subseteq RunId
  <2>1. due \subseteq RunId /\ due \subseteq 1..created /\ created \in Nat /\ runs \in [RunId -> Run]
    BY DEF IInv, TypeOK, Addressed
  <2>2. i \in RunId /\ i <= created /\ i # 0 /\ i \in 0..MaxRuns
    BY <2>1, RoutinesAssumption DEF RunId
  <2>3. b \in Bot
    BY <2>1, <2>2, RoutinesAssumption DEF BotOf, Run
  <2> QED
    BY <1>2, <2>1, <2>2, <2>3
<1>4. CASE DisableBot(b) /\ UNCHANGED mailbox
  <2>1. /\ LogStep /\ Monotone /\ routines' \in [Routine -> Definition] /\ active' \subseteq Bot
        /\ UNCHANGED created
    BY <1>3, <1>4, DisableBotEmpties
  <2>2. runs' \in [RunId -> Run]
    BY <2>1 DEF LogStep
  <2>3. TypeOK'
    BY <1>1, <1>3, <1>4, <2>1, <2>2 DEF IInv, TypeOK
  <2> QED
    BY <1>1, <1>3, <1>4, <2>1, <2>3, QuietSteps
<1>5. CASE /\ active' = active \cup {b} /\ SendTo(b, "routine", i)
           /\ UNCHANGED <<routines, runs, created>>
  <2> DEFINE sent == [cmd |-> "routine", run |-> i]
  <2>1. sent \in Command /\ mailbox' = [mailbox EXCEPT ![b] = Append(@, sent)]
    BY <1>3, <1>5 DEF Command, SendTo
  <2>2. mailbox \in [Bot -> Seq(Command)]
    BY DEF IInv, TypeOK
  <2>3. mailbox' \in [Bot -> Seq(Command)]
    BY <1>3, <2>1, <2>2, AppendAdds
  <2>4. TypeOK'
    BY <1>1, <1>3, <1>5, <2>3 DEF IInv, TypeOK
  <2>5. LogStep
    BY <1>5, SettlesSame, SettledStep DEF IInv
  <2>6. GoneIsEmpty'
    <3>1. \A a \in Bot : ToldToStop(a)' => ToldToStop(a)
      BY <1>3, <2>1, <2>2, AppendAdds DEF ToldToStop
    <3>2. \A a \in Bot : ToldToStop(a)' => a \in gone
      BY <3>1 DEF ToldToStop, IInv, GoneIsEmpty
    <3> QED
      BY <1>1, <1>5, <2>4, <2>5, <3>2, GoneSteps, StepMoves DEF IInv, Monotone
  <2> QED
    BY <1>1, <1>3, <1>5, <2>1, <2>4, <2>5, <2>6, SendSteps DEF Monotone
<1>6. CASE UNCHANGED <<routines, runs, created, active, mailbox>>
  BY <1>1, <1>3, <1>6, HostSteps DEF logVars, actorVars, IInv, TypeOK
<1> QED
  BY <1>2, <1>4, <1>5, <1>6

-----------------------------------------------------------------------------
(* The actor. *)

InOrder(t, c) ==
  /\ t.phase = "idle" => t = Idle
  /\ t.phase # "idle" => c = NoCompletion
  /\ t.phase \in {"starting", "marked"} \/ t.inflight => t.run # 0
  /\ IF c.run = 0 THEN c = NoCompletion ELSE c.status \in Finished

LEMMA IdleTypes == Idle \in Turn /\ NoCompletion \in Completion /\ InOrder(Idle, NoCompletion)
  BY RoutinesAssumption DEF Idle, Turn, NoCompletion, Completion, InOrder

\* A step of b's actor that leaves it with turn t and kept outcome c.
LEMMA ActorSteps ==
  ASSUME IInv, NEW b \in Bot, ActorFrame, Allowed,
         runs' \in [RunId -> Run], created' <= MaxRuns, active' \subseteq Bot,
         acted' \subseteq RunId, used' \subseteq RunId, HistOK',
         mailbox' \in [Bot -> Seq(Command)], queue' \in [Bot -> Seq(0..MaxRuns)],
         NEW t \in Turn, turn' = [turn EXCEPT ![b] = t],
         NEW c \in Completion, completion' = [completion EXCEPT ![b] = c],
         InOrder(t, c), t.run # 0 => Named(b, t.run), c.run # 0 => Named(b, c.run),
         \A a \in Bot, i \in RunId : InMail(a, i)' \/ InQueue(a, i)' => Named(a, i),
         \A a \in Bot : ToldToStop(a)' => ToldToStop(a),
         ExecutingIsHeld'
  PROVE  IInv' /\ Allowed
<1>1. created' \in 0..MaxRuns /\ UNCHANGED <<routines, due, stopping, gone, requests, crashes>>
  BY RoutinesAssumption DEF IInv, TypeOK, Allowed, LogMove, ActorFrame
<1>2. turn \in [Bot -> Turn] /\ completion \in [Bot -> Completion]
  BY DEF IInv, TypeOK
<1>3. TypeOK'
  BY <1>1, <1>2 DEF IInv, TypeOK, HistOK
<1>4. \A a \in Bot : InOrder(turn[a], completion[a])
  BY DEF IInv, ActorsInOrder, InOrder
<1>5. \A a \in Bot : InOrder(turn'[a], completion'[a])
  BY <1>2, <1>4
<1>6. ActorsInOrder'
  BY <1>5 DEF ActorsInOrder, InOrder
<1>7. ASSUME NEW a \in Bot, NEW i \in RunId, Named(a, i)' PROVE Named(a, i)
  <2>1. CASE InMail(a, i)' \/ InQueue(a, i)'
    BY <2>1
  <2>2. CASE turn'[a].run = i \/ completion'[a].run = i
    <3>1. i # 0
      BY RoutinesAssumption DEF RunId
    <3> QED
      BY <1>2, <2>2, <3>1 DEF Named, Holds
  <2> QED
    BY <1>7, <2>1, <2>2 DEF Named, Holds
<1>8. Addressed'
  BY <1>1, <1>7, AddressedSteps DEF IInv, Addressed, Allowed
<1>9. GoneIsEmpty'
  BY <1>1, <1>3, GoneSteps DEF IInv, Monotone, GoneIsEmpty, ToldToStop, Allowed
<1> QED
  BY <1>3, <1>6, <1>8, <1>9 DEF IInv

\* A run whose actor let go of it has ended.
LEMMA OthersHeld ==
  ASSUME IInv, NEW b \in Bot, LogStep,
         NEW t \in Turn, turn' = [turn EXCEPT ![b] = t],
         NEW c \in Completion, completion' = [completion EXCEPT ![b] = c],
         \A i \in RunId : BotOf(runs[i]) = b /\ IsActive(runs'[i]) /\ Holds(b, i) => t.run = i \/ c.run = i
  PROVE  ExecutingIsHeld'
<1>1. turn \in [Bot -> Turn] /\ completion \in [Bot -> Completion]
  BY DEF IInv, TypeOK
<1>2. ASSUME NEW a \in Bot, NEW i \in RunId, BotOf(runs[i]) = a, Holds(a, i), IsActive(runs'[i])
      PROVE  HoldsNext(a, i)
  BY <1>1, <1>2 DEF Holds, HoldsNext
<1> QED
  BY <1>2, StillHeld DEF IInv

LEMMA FinishRunSettles ==
  ASSUME IInv, NEW b \in Bot, NEW i \in RunId, i <= created, NEW status \in Finished, NEW late \in BOOLEAN,
         NEW seen, FinishRun(b, i, status, late, seen)
  PROVE  /\ LogStep /\ HistOK' /\ active' \subseteq Bot
         /\ \E c \in Completion : /\ completion' = [completion EXCEPT ![b] = c]
                                  /\ IF c.run = 0 THEN c = NoCompletion ELSE c.status \in Finished
                                  /\ c.run \in {0, i}
                                  /\ IsActive(runs'[i]) => c.run = i
<1>1. TypeOK /\ Addressed
  BY DEF IInv
<1>2. CASE /\ RecordOutcome(i, status, late, seen)
           /\ active' = Released(b)
           /\ completion' = [completion EXCEPT ![b] = NoCompletion]
  <2>1. LogStep /\ ~IsActive(runs'[i]) /\ HistOK'
    BY <1>1, <1>2, RecordOutcomeSettles
  <2>2. active' \subseteq Bot
    BY <1>1, <1>2 DEF Released, TypeOK
  <2> QED
    BY <1>2, <2>1, <2>2, IdleTypes DEF NoCompletion
<1>3. CASE /\ completion' = [completion EXCEPT ![b] = [run |-> i, status |-> status, late |-> late]]
           /\ UNCHANGED <<runs, created, active, hist>>
  <2> DEFINE c == [run |-> i, status |-> status, late |-> late]
  <2>1. c \in Completion /\ c.run = i /\ c.status \in Finished /\ i # 0
    BY RoutinesAssumption DEF Completion, RunId
  <2>2. LogStep
    BY <1>1, <1>3, SettlesSame, SettledStep
  <2>3. HistOK' /\ active' \subseteq Bot
    BY <1>1, <1>3 DEF TypeOK, HistOK
  <2> QED
    BY <1>3, <2>1, <2>2, <2>3
<1> QED
  BY <1>2, <1>3 DEF FinishRun

\* What a step that keeps its mailbox and queue names.
LEMMA SameBoxes ==
  ASSUME IInv, UNCHANGED <<mailbox, queue>>
  PROVE  /\ mailbox' \in [Bot -> Seq(Command)] /\ queue' \in [Bot -> Seq(0..MaxRuns)]
         /\ \A a \in Bot, i \in RunId : InMail(a, i)' \/ InQueue(a, i)' => Named(a, i)
         /\ \A a \in Bot : ToldToStop(a)' => ToldToStop(a)
  BY DEF IInv, TypeOK, InMail, InQueue, Named, ToldToStop

LEMMA PoppedBoxes ==
  ASSUME IInv, NEW b \in Bot, queue[b] # <<>>, PopQueue(b), UNCHANGED mailbox
  PROVE  /\ mailbox' \in [Bot -> Seq(Command)] /\ queue' \in [Bot -> Seq(0..MaxRuns)]
         /\ \A a \in Bot, i \in RunId : InMail(a, i)' \/ InQueue(a, i)' => Named(a, i)
         /\ \A a \in Bot : ToldToStop(a)' => ToldToStop(a)
         /\ Head(queue[b]) \in 0..MaxRuns
         /\ InQueue(b, Head(queue[b]))
<1>1. mailbox \in [Bot -> Seq(Command)] /\ queue \in [Bot -> Seq(0..MaxRuns)]
  BY DEF IInv, TypeOK
<1>2. /\ Tail(queue[b]) \in Seq(0..MaxRuns) /\ Head(queue[b]) \in 0..MaxRuns
      /\ 1 \in 1..Len(queue[b]) /\ Head(queue[b]) = queue[b][1]
      /\ \A k \in 1..Len(Tail(queue[b])) : k + 1 \in 1..Len(queue[b]) /\ Tail(queue[b])[k] = queue[b][k + 1]
  BY <1>1, TailDrops
<1>3. queue' = [queue EXCEPT ![b] = Tail(queue[b])]
  BY DEF PopQueue
<1>4. queue' \in [Bot -> Seq(0..MaxRuns)]
  BY <1>1, <1>2, <1>3
<1>5. ASSUME NEW a \in Bot, NEW i \in RunId, InQueue(a, i)' PROVE InQueue(a, i)
  BY <1>1, <1>2, <1>3, <1>5 DEF InQueue
<1> QED
  BY <1>1, <1>2, <1>4, <1>5 DEF InMail, InQueue, Named, ToldToStop

LEMMA ActorFacts ==
  ASSUME IInv, NEW b \in Bot
  PROVE  /\ turn[b] \in Turn /\ completion[b] \in Completion /\ InOrder(turn[b], completion[b])
         /\ \A i \in RunId : Named(b, i) => i <= created /\ BotOf(runs[i]) = b
         /\ turn[b].run # 0 => turn[b].run \in RunId /\ Named(b, turn[b].run)
         /\ completion[b].run # 0 => completion[b].run \in RunId /\ Named(b, completion[b].run)
         /\ \A i, j \in RunId : Holds(b, i) /\ Holds(b, j) => i = j
         /\ Free(b) => \A i \in RunId : ~Holds(b, i)
<1>1. turn[b] \in Turn /\ completion[b] \in Completion /\ InOrder(turn[b], completion[b])
  BY DEF IInv, TypeOK, ActorsInOrder, InOrder
<1>2. \A i \in RunId : Named(b, i) => i <= created /\ BotOf(runs[i]) = b
  BY DEF IInv, Addressed, Named, InMail, InQueue
<1>3. \A i \in RunId : i # 0
  BY RoutinesAssumption DEF RunId
<1>4. /\ turn[b].run # 0 => turn[b].run \in RunId /\ Named(b, turn[b].run)
      /\ completion[b].run # 0 => completion[b].run \in RunId /\ Named(b, completion[b].run)
  BY <1>1, RoutinesAssumption DEF Turn, Completion, RunId, Named, Holds
<1>5. \A i, j \in RunId : Holds(b, i) /\ Holds(b, j) => i = j
  BY <1>1, <1>3 DEF InOrder, Holds, Idle, NoCompletion
<1>6. Free(b) => \A i \in RunId : ~Holds(b, i)
  BY <1>3 DEF Free, Holds, Idle, NoCompletion
<1> QED
  BY <1>1, <1>2, <1>4, <1>5, <1>6

\* A step that only changes the turn the actor runs.
LEMMA TurnSteps ==
  ASSUME IInv, NEW b \in Bot, ActorFrame, UNCHANGED <<runs, created, active, mailbox, queue, completion>>,
         NEW t \in Turn, turn' = [turn EXCEPT ![b] = t], t.run = turn[b].run, InOrder(t, completion[b]),
         acted' \subseteq RunId, used' \subseteq RunId, HistOK'
  PROVE  IInv' /\ Allowed
<1>1. LogStep
  BY SettlesSame, SettledStep DEF IInv
<1>2. completion[b] \in Completion /\ completion' = [completion EXCEPT ![b] = completion[b]]
  BY DEF IInv, TypeOK
<1>3. ExecutingIsHeld'
  <2>1. \A i \in RunId : Holds(b, i) => t.run = i \/ completion[b].run = i
    BY DEF Holds
  <2>2. PICK c \in Completion : c = completion[b]
    BY <1>2
  <2> QED
    BY <1>1, <1>2, <2>1, <2>2, OthersHeld
<1>4. runs' \in [RunId -> Run] /\ created' <= MaxRuns /\ active' \subseteq Bot
  BY RoutinesAssumption DEF IInv, TypeOK
<1>5. t.run # 0 => Named(b, t.run)
  BY ActorFacts
<1>6. completion[b].run # 0 => Named(b, completion[b].run)
  BY ActorFacts
<1> QED
  BY <1>1, <1>2, <1>3, <1>4, <1>5, <1>6, SameBoxes, StepAllowed, ActorSteps

\* A step that ends the run the actor holds or was about to begin.
LEMMA FinishSteps ==
  ASSUME IInv, NEW b \in Bot, ActorFrame, acted' \subseteq RunId, used' \subseteq RunId,
         NEW i \in RunId, Named(b, i), \A j \in RunId : Holds(b, j) => j = i,
         NEW status \in Finished, NEW late \in BOOLEAN, NEW seen, FinishRun(b, i, status, late, seen),
         turn' = [turn EXCEPT ![b] = Idle], UNCHANGED mailbox, UNCHANGED queue \/ (queue[b] # <<>> /\ PopQueue(b))
  PROVE  IInv' /\ Allowed
<1>1. i <= created
  BY ActorFacts
<1>2. LogStep /\ HistOK' /\ active' \subseteq Bot
  BY <1>1, FinishRunSettles
<1>3. PICK c : /\ completion' = [completion EXCEPT ![b] = c]
               /\ IF c.run = 0 THEN c = NoCompletion ELSE c.status \in Finished
               /\ c.run \in {0, i}
               /\ IsActive(runs'[i]) => c.run = i
               /\ c \in Completion
  <2>1. CASE completion' = [completion EXCEPT ![b] = NoCompletion] /\ RecordOutcome(i, status, late, seen)
    <3>1. ~IsActive(runs'[i])
      BY <1>1, <2>1, RecordOutcomeSettles DEF IInv
    <3> QED
      BY <2>1, <3>1, IdleTypes DEF NoCompletion
  <2>2. CASE completion' = [completion EXCEPT ![b] = [run |-> i, status |-> status, late |-> late]]
    <3> DEFINE c == [run |-> i, status |-> status, late |-> late]
    <3>1. c \in Completion /\ c.run = i /\ c.status \in Finished /\ i # 0
      BY RoutinesAssumption DEF Completion, RunId
    <3> QED
      BY <2>2, <3>1
  <2> QED
    BY <2>1, <2>2 DEF FinishRun
<1>4. ExecutingIsHeld'
  BY <1>2, <1>3, IdleTypes, OthersHeld
<1>5. runs' \in [RunId -> Run] /\ created' <= MaxRuns
  BY <1>2 DEF LogStep
<1>6. InOrder(Idle, c)
  BY <1>3 DEF InOrder, Idle
<1>7. Idle.run = 0
  BY DEF Idle
<1> QED
  BY <1>2, <1>3, <1>4, <1>5, <1>6, <1>7, IdleTypes, SameBoxes, PoppedBoxes, StepAllowed, ActorSteps

\* The log of a run that moves forward.
LEMMA ForwardSaves ==
  ASSUME IInv, NEW i \in RunId, i <= created, IsActive(runs[i]), NEW s \in Executing,
         s = "starting" => runs[i].status = "pending",
         Save([runs EXCEPT ![i].status = s]), created' = created
  PROVE  /\ Allowed /\ runs' \in [RunId -> Run] /\ created' <= MaxRuns
         /\ runs'[i].status = s
         /\ \A j \in RunId : /\ runs'[j].routine = runs[j].routine
                             /\ j # i => runs'[j].status \in {runs[j].status, "none"}
<1> DEFINE new == [runs[i] EXCEPT !.status = s]
           log == [runs EXCEPT ![i] = new]
<1>1. runs \in [RunId -> Run] /\ created \in Nat /\ created <= MaxRuns /\ \A j \in RunId : j \in Nat
  BY RoutinesAssumption DEF IInv, TypeOK, RunId
<1>2. new \in Run /\ new.status = s /\ new.routine = runs[i].routine
  BY <1>1 DEF Run, Executing, Active
<1>3. log = [runs EXCEPT ![i].status = s]
  BY <1>1
<1> HIDE DEF new
<1>4. /\ log \in [RunId -> Run] /\ log[i] = new /\ \A j \in RunId : j # i => log[j] = runs[j]
      /\ runs' = Prune(log)
  BY <1>1, <1>2, <1>3 DEF Save
<1> HIDE DEF log
<1>5. runs' \in [RunId -> Run] /\ runs'[i].status = s
  BY <1>2, <1>4, PruneKeeps DEF IsActive, Active, Executing
<1>6. \A j \in RunId : /\ runs'[j].routine = runs[j].routine
                       /\ j # i => runs'[j].status \in {runs[j].status, "none"}
  BY <1>2, <1>4, PruneKeeps
<1>7. \A j \in RunId : j > created => j # i /\ runs[j].status = "none"
  BY <1>1 DEF IInv, Addressed
<1>8. LogMove
  BY <1>1, <1>6, <1>7 DEF LogMove, IsActive, Active
<1>9. Allowed
  BY <1>5, <1>6, <1>8 DEF Allowed, IsActive, Active, Executing
<1> QED
  BY <1>1, <1>5, <1>6, <1>9

\* A step that moves run i of b forward, in b's actor's hands.
LEMMA ForwardSteps ==
  ASSUME IInv, NEW b \in Bot, ActorFrame, UNCHANGED <<created, acted, active, mailbox, used, hist>>,
         NEW i \in RunId, Named(b, i), \A j \in RunId : Holds(b, j) => j = i, IsActive(runs[i]),
         NEW s \in Executing, s = "starting" => runs[i].status = "pending", Save([runs EXCEPT ![i].status = s]),
         NEW t \in Turn, turn' = [turn EXCEPT ![b] = t],
         NEW c \in Completion, completion' = [completion EXCEPT ![b] = c],
         InOrder(t, c), t.run \in {0, i}, c.run \in {0, i}, t.run = i \/ c.run = i,
         UNCHANGED queue \/ (queue[b] # <<>> /\ PopQueue(b))
  PROVE  IInv' /\ Allowed
<1>1. i <= created /\ BotOf(runs[i]) = b
  BY ActorFacts
<1>2. /\ Allowed /\ runs' \in [RunId -> Run] /\ created' <= MaxRuns
      /\ \A j \in RunId : /\ runs'[j].routine = runs[j].routine
                          /\ j # i => runs'[j].status \in {runs[j].status, "none"}
  BY <1>1, ForwardSaves
<1>3. ExecutingIsHeld'
  <2> SUFFICES ASSUME NEW j \in RunId, runs'[j].status \in Executing
               PROVE  turn'[BotOf(runs'[j])].run = j \/ completion'[BotOf(runs'[j])].run = j
    BY DEF ExecutingIsHeld, Holds, BotOf
  <2>1. BotOf(runs'[j]) = BotOf(runs[j]) /\ BotOf(runs[j]) \in Bot
    BY <1>2, RoutinesAssumption DEF BotOf, IInv, TypeOK, Run
  <2>2. turn \in [Bot -> Turn] /\ completion \in [Bot -> Completion]
    BY DEF IInv, TypeOK
  <2>3. CASE j = i
    BY <1>1, <2>1, <2>2, <2>3
  <2>4. CASE j # i
    <3>1. Holds(BotOf(runs[j]), j)
      BY <1>2, <2>4 DEF IInv, ExecutingIsHeld, Executing
    <3>2. BotOf(runs[j]) # b
      BY <2>4, <3>1
    <3> QED
      BY <2>1, <2>2, <3>1, <3>2 DEF Holds
  <2> QED
    BY <2>3, <2>4
<1>4. active' \subseteq Bot /\ acted' \subseteq RunId /\ used' \subseteq RunId /\ HistOK'
  BY DEF IInv, TypeOK, HistOK
<1> QED
  BY <1>2, <1>3, <1>4, SameBoxes, PoppedBoxes, ActorSteps

LEMMA BeginUserTurnStep ==
  ASSUME IInv, NEW b \in Bot, BeginUserTurn(b)
  PROVE  IInv' /\ Allowed
<1> DEFINE t == [Idle EXCEPT !.phase = "prompted"]
<1>1. /\ queue[b] # <<>> /\ PopQueue(b) /\ turn' = [turn EXCEPT ![b] = t] /\ Free(b)
      /\ UNCHANGED <<runs, created, acted, active, mailbox, completion, used, hist>> /\ ActorFrame
  BY DEF BeginUserTurn
<1>2. completion' = [completion EXCEPT ![b] = NoCompletion]
  BY <1>1 DEF Free, IInv, TypeOK
<1>3. t \in Turn /\ t.run = 0 /\ NoCompletion.run = 0 /\ InOrder(t, NoCompletion)
  BY IdleTypes DEF Idle, Turn, InOrder, NoCompletion
<1>4. LogStep
  BY <1>1, SettlesSame, SettledStep DEF IInv
<1> HIDE DEF t
<1>5. \A i \in RunId : ~Holds(b, i)
  BY <1>1, ActorFacts
<1>6. ExecutingIsHeld'
  BY <1>1, <1>2, <1>3, <1>4, <1>5, IdleTypes, OthersHeld
<1>7. /\ runs' \in [RunId -> Run] /\ created' <= MaxRuns /\ active' \subseteq Bot
      /\ acted' \subseteq RunId /\ used' \subseteq RunId /\ HistOK'
  BY <1>1, RoutinesAssumption DEF IInv, TypeOK, HistOK
<1> QED
  BY <1>1, <1>2, <1>3, <1>4, <1>6, <1>7, IdleTypes, PoppedBoxes, StepAllowed, ActorSteps

\* The run at the front of a free actor's queue.
LEMMA NextRun ==
  ASSUME IInv, NEW b \in Bot, NextIsRoutine(b)
  PROVE  /\ Head(queue[b]) \in RunId /\ Named(b, Head(queue[b])) /\ Free(b) /\ queue[b] # <<>>
         /\ \A j \in RunId : ~Holds(b, j)
<1>1. queue \in [Bot -> Seq(0..MaxRuns)] /\ queue[b] # <<>> /\ Head(queue[b]) # 0 /\ Free(b)
  BY DEF NextIsRoutine, IInv, TypeOK
<1>2. Head(queue[b]) \in 0..MaxRuns /\ 1 \in 1..Len(queue[b]) /\ Head(queue[b]) = queue[b][1]
  BY <1>1, TailDrops
<1>3. Head(queue[b]) \in RunId
  BY <1>1, <1>2, RoutinesAssumption DEF RunId
<1> QED
  BY <1>1, <1>2, <1>3, ActorFacts DEF Named, InQueue

LEMMA BeginRunStep ==
  ASSUME IInv, NEW b \in Bot, BeginRun(b)
  PROVE  IInv' /\ Allowed
<1> DEFINE i == Head(queue[b])
           t == [Idle EXCEPT !.phase = "starting", !.run = i]
<1>1. i \in RunId /\ Named(b, i) /\ Free(b) /\ queue[b] # <<>> /\ \A j \in RunId : ~Holds(b, j)
  BY NextRun DEF BeginRun
<1>2. /\ runs[i].status = "pending" /\ Save([runs EXCEPT ![i].status = "starting"])
      /\ turn' = [turn EXCEPT ![b] = t] /\ PopQueue(b)
      /\ UNCHANGED <<created, acted, active, mailbox, completion, used, hist>> /\ ActorFrame
  BY DEF BeginRun
<1>3. completion' = [completion EXCEPT ![b] = NoCompletion]
  BY <1>1, <1>2 DEF Free, IInv, TypeOK
<1>4. t \in Turn /\ t.run = i /\ NoCompletion.run = 0 /\ InOrder(t, NoCompletion)
  <2> HIDE DEF i
  <2>1. i \in 0..MaxRuns /\ i # 0
    BY <1>1, RoutinesAssumption DEF RunId
  <2>2. PICK z \in Turn : z = Idle /\ ~z.inflight
    BY IdleTypes DEF Idle
  <2>3. t = [z EXCEPT !.phase = "starting", !.run = i]
    BY <2>2
  <2> HIDE DEF t
  <2>4. t \in Turn /\ t.run = i /\ t.phase = "starting"
    BY <2>1, <2>2, <2>3 DEF Turn
  <2> QED
    BY <2>1, <2>4 DEF InOrder, NoCompletion
<1>5. IsActive(runs[i]) /\ "starting" \in Executing
  BY <1>2 DEF IsActive, Active, Executing
<1> HIDE DEF i, t
<1> QED
  BY <1>1, <1>2, <1>3, <1>4, <1>5, IdleTypes, ForwardSteps

LEMMA DropRunStep ==
  ASSUME IInv, NEW b \in Bot, DropRun(b)
  PROVE  IInv' /\ Allowed
<1> DEFINE i == Head(queue[b])
<1>1. i \in RunId /\ Free(b) /\ queue[b] # <<>> /\ \A j \in RunId : ~Holds(b, j)
  BY NextRun DEF DropRun
<1>2. /\ active' = Released(b) /\ PopQueue(b)
      /\ UNCHANGED <<created, acted, mailbox, turn, completion, used, hist>> /\ ActorFrame
  BY DEF DropRun
<1>3. LogStep
  <2>1. CASE UNCHANGED runs
    BY <1>2, <2>1, SettlesSame, SettledStep DEF IInv
  <2>2. CASE Save(runs)
    BY <1>2, <2>2, SettlesSame, SaveSettles DEF IInv
  <2>3. CASE runs[i].status = "pending" /\ Save(CancelWhere(runs, {i}))
    <3>1. Settles(CancelWhere(runs, {i}))
      BY <2>3, SettlesCancel DEF IInv, IsActive, Active
    <3> QED
      BY <1>2, <2>3, <3>1, SaveSettles DEF IInv
  <2> QED
    BY <2>1, <2>2, <2>3 DEF DropRun
<1>4. /\ turn' = [turn EXCEPT ![b] = Idle] /\ completion' = [completion EXCEPT ![b] = NoCompletion]
      /\ Idle.run = 0 /\ NoCompletion.run = 0
  BY <1>1, <1>2 DEF Free, IInv, TypeOK, Idle, NoCompletion
<1>5. ExecutingIsHeld'
  BY <1>1, <1>3, <1>4, IdleTypes, OthersHeld
<1>6. /\ runs' \in [RunId -> Run] /\ created' <= MaxRuns /\ active' \subseteq Bot
      /\ acted' \subseteq RunId /\ used' \subseteq RunId /\ HistOK'
  BY <1>2, <1>3 DEF LogStep, Released, IInv, TypeOK, HistOK
<1> QED
  BY <1>1, <1>2, <1>3, <1>4, <1>5, <1>6, IdleTypes, PoppedBoxes, StepAllowed, ActorSteps

LEMMA BeginFailsStep ==
  ASSUME IInv, NEW b \in Bot, BeginFails(b)
  PROVE  IInv' /\ Allowed
<1> DEFINE i == Head(queue[b])
           c == [run |-> i, status |-> "failed", late |-> FALSE]
<1>1. i \in RunId /\ Named(b, i) /\ Free(b) /\ queue[b] # <<>> /\ \A j \in RunId : ~Holds(b, j)
  BY NextRun DEF BeginFails
<1>2. PopQueue(b) /\ UNCHANGED <<acted, mailbox, turn, used>> /\ ActorFrame
  BY DEF BeginFails
<1>3. turn' = [turn EXCEPT ![b] = Idle] /\ acted' \subseteq RunId /\ used' \subseteq RunId
  BY <1>1, <1>2 DEF Free, IInv, TypeOK
<1>4. CASE FinishRun(b, i, "failed", FALSE, acted)
  <2>1. "failed" \in Finished
    BY DEF Finished
  <2> HIDE DEF i
  <2> QED
    BY <1>1, <1>2, <1>3, <1>4, <2>1, FinishSteps
<1>5. CASE /\ runs[i].status = "pending" /\ Save([runs EXCEPT ![i].status = "starting"])
           /\ completion' = [completion EXCEPT ![b] = c]
           /\ UNCHANGED <<created, active, hist>>
  <2>1. /\ c \in Completion /\ c.run = i /\ Idle.run = 0 /\ InOrder(Idle, c)
    BY <1>1, RoutinesAssumption DEF Completion, Idle, InOrder, Finished, RunId
  <2>2. IsActive(runs[i]) /\ "starting" \in Executing
    BY <1>5 DEF IsActive, Active, Executing
  <2> HIDE DEF i, c
  <2> QED
    BY <1>1, <1>2, <1>3, <1>5, <2>1, <2>2, IdleTypes, ForwardSteps
<1> QED
  BY <1>4, <1>5 DEF BeginFails

LEMMA MarkStartedStep ==
  ASSUME IInv, NEW b \in Bot, MarkStarted(b)
  PROVE  IInv' /\ Allowed
<1> DEFINE i == turn[b].run
           t == [turn[b] EXCEPT !.phase = "marked"]
<1>1. /\ turn[b].phase = "starting" /\ runs[i].status \in Executing
      /\ Save([runs EXCEPT ![i].status = "running"])
      /\ UNCHANGED <<created, acted, active, mailbox, queue, completion, used, hist>> /\ ActorFrame
  BY DEF MarkStarted
<1>2. turn[b] \in Turn /\ i \in RunId /\ i # 0 /\ Named(b, i) /\ completion[b] = NoCompletion
  BY <1>1, ActorFacts DEF InOrder
<1>3. /\ turn' = [turn EXCEPT ![b] = t] /\ completion' = [completion EXCEPT ![b] = NoCompletion]
  BY <1>1, <1>2 DEF MarkStarted, IInv, TypeOK
<1>4. /\ t \in Turn /\ t.run = i /\ NoCompletion.run = 0 /\ InOrder(t, NoCompletion)
  BY <1>2 DEF Turn, InOrder, NoCompletion
<1>5. \A j \in RunId : Holds(b, j) => j = i
  BY <1>2, ActorFacts DEF Holds
<1>6. IsActive(runs[i]) /\ "running" \in Executing
  BY <1>1 DEF IsActive, Active, Executing
<1> HIDE DEF i, t
<1> QED
  BY <1>1, <1>2, <1>3, <1>4, <1>5, <1>6, IdleTypes, ForwardSteps

LEMMA PromptStep ==
  ASSUME IInv, NEW b \in Bot, Prompt(b)
  PROVE  IInv' /\ Allowed
<1> DEFINE t == [turn[b] EXCEPT !.phase = "prompted"]
<1>1. turn[b] \in Turn /\ InOrder(turn[b], completion[b]) /\ turn[b].phase = "marked" /\ turn[b].run \in RunId
  BY ActorFacts DEF Prompt, InOrder
<1>2. t \in Turn /\ t.run = turn[b].run /\ InOrder(t, completion[b])
  BY <1>1 DEF Turn, InOrder
<1>3. HistOK'
  <2> DEFINE i == turn[b].run
             told == [hist[i] EXCEPT !.instructed = @ \cup {turn[b].agent},
                                     !.again = @ \/ turn[b].agent \in hist[i].instructed]
  <2>1. HistOK /\ turn[b].agent \in 1..MaxAgents
    BY <1>1 DEF IInv, TypeOK, HistOK, Turn
  <2>2. CASE hist' = hist
    BY <2>1, <2>2 DEF HistOK
  <2>3. CASE hist' = [hist EXCEPT ![i].instructed = @ \cup {turn[b].agent},
                                  ![i].again = @ \/ turn[b].agent \in hist[i].instructed]
    <3>1. told \in [instructed : SUBSET (1..MaxAgents), again : BOOLEAN, redoes : SUBSET RunId]
      <4>1. PICK x \in BOOLEAN : x = (hist[i].again \/ turn[b].agent \in hist[i].instructed)
        OBVIOUS
      <4>2. told = [hist[i] EXCEPT !.instructed = @ \cup {turn[b].agent}, !.again = x]
        BY <4>1
      <4>3. hist[i] \in [instructed : SUBSET (1..MaxAgents), again : BOOLEAN, redoes : SUBSET RunId]
        BY <1>1, <2>1 DEF HistOK
      <4>4. PICK S \in SUBSET (1..MaxAgents) : S = hist[i].instructed \cup {turn[b].agent}
        BY <2>1, <4>3
      <4>5. told = [hist[i] EXCEPT !.instructed = S, !.again = x]
        BY <4>2, <4>4
      <4> HIDE DEF told
      <4> QED
        BY <4>3, <4>5
    <3>2. hist' = [hist EXCEPT ![i] = told]
      BY <1>1, <2>1, <2>3 DEF HistOK
    <3> HIDE DEF told
    <3> QED
      BY <1>1, <2>1, <3>1, <3>2 DEF HistOK
  <2> QED
    BY <2>2, <2>3 DEF Prompt
<1>4. acted' \subseteq RunId /\ used' \subseteq RunId
  BY DEF Prompt, IInv, TypeOK
<1>5. turn' = [turn EXCEPT ![b] = t]
  BY DEF Prompt, IInv, TypeOK
<1> HIDE DEF t
<1> QED
  BY <1>2, <1>3, <1>4, <1>5, TurnSteps DEF Prompt

\* The turn moves on to the next agent of the chain.
LEMMA MovesOnSteps ==
  ASSUME IInv, NEW b \in Bot, MovesOn(b), turn[b].run # 0, ActorFrame, turn[b].phase # "idle",
         UNCHANGED <<runs, created, active, mailbox, queue, completion, hist, used>>, acted' \subseteq RunId
  PROVE  IInv' /\ Allowed
<1> DEFINE t == [Idle EXCEPT !.phase = "starting", !.run = turn[b].run, !.agent = turn[b].agent + 1]
<1>1. turn[b] \in Turn /\ InOrder(turn[b], completion[b]) /\ turn[b].agent < MaxAgents
  BY ActorFacts DEF MovesOn
<1>2. t \in Turn /\ t.run = turn[b].run /\ t.phase = "starting" /\ ~t.inflight
  <2>1. turn[b].run \in 0..MaxRuns /\ turn[b].agent + 1 \in 1..MaxAgents
    BY <1>1, RoutinesAssumption DEF Turn
  <2>2. PICK z \in Turn : z = Idle /\ ~z.inflight
    BY IdleTypes DEF Idle
  <2>3. t = [z EXCEPT !.phase = "starting", !.run = turn[b].run, !.agent = turn[b].agent + 1]
    BY <2>2
  <2> HIDE DEF t
  <2> QED
    BY <2>1, <2>2, <2>3 DEF Turn
<1>3. InOrder(t, completion[b])
  <2> HIDE DEF t
  <2> QED
    BY <1>1, <1>2 DEF InOrder
<1>4. HistOK' /\ used' \subseteq RunId /\ turn' = [turn EXCEPT ![b] = t]
  BY DEF MovesOn, IInv, TypeOK, HistOK
<1> HIDE DEF t
<1> QED
  BY <1>2, <1>3, <1>4, TurnSteps

\* The turn's run ends.
LEMMA TurnFinishes ==
  ASSUME IInv, NEW b \in Bot, turn[b].run # 0, turn[b].phase # "idle",
         NEW status \in Finished, NEW late \in BOOLEAN, NEW seen, FinishRun(b, turn[b].run, status, late, seen),
         turn' = [turn EXCEPT ![b] = Idle], UNCHANGED <<mailbox, queue, used>>, ActorFrame, acted' \subseteq RunId
  PROVE  IInv' /\ Allowed
<1>1. turn[b].run \in RunId /\ Named(b, turn[b].run) /\ \A j \in RunId : Holds(b, j) => j = turn[b].run
  BY ActorFacts DEF Holds
<1>2. used' \subseteq RunId
  BY DEF IInv, TypeOK
<1> QED
  BY <1>1, <1>2, FinishSteps

LEMMA StartFailsStep ==
  ASSUME IInv, NEW b \in Bot, StartFails(b)
  PROVE  IInv' /\ Allowed
<1>1. /\ turn[b].phase \in {"starting", "marked"} /\ turn[b].run # 0 /\ acted' \subseteq RunId
      /\ UNCHANGED <<mailbox, queue, used>> /\ ActorFrame
  BY ActorFacts DEF StartFails, InOrder, IInv, TypeOK
<1>2. CASE MovesOn(b) /\ UNCHANGED <<runs, created, active, completion, hist>>
  BY <1>1, <1>2, MovesOnSteps
<1>3. ASSUME NEW late \in BOOLEAN, FinishRun(b, turn[b].run, "failed", late, acted), turn' = [turn EXCEPT ![b] = Idle]
      PROVE  IInv' /\ Allowed
  BY <1>1, <1>3, TurnFinishes DEF Finished
<1> QED
  BY <1>2, <1>3 DEF StartFails

LEMMA SessionLostStep ==
  ASSUME IInv, NEW b \in Bot, SessionLost(b)
  PROVE  IInv' /\ Allowed
<1>1. /\ turn[b].phase = "starting" /\ turn[b].run # 0 /\ acted' \subseteq RunId
      /\ UNCHANGED <<mailbox, queue, used>> /\ ActorFrame /\ turn' = [turn EXCEPT ![b] = Idle]
  BY ActorFacts DEF SessionLost, InOrder, IInv, TypeOK
<1>2. PICK late \in BOOLEAN : FinishRun(b, turn[b].run, "interrupted", late, acted)
  BY DEF SessionLost
<1> QED
  BY <1>1, <1>2, TurnFinishes DEF Finished

LEMMA AgentActsStep ==
  ASSUME IInv, NEW b \in Bot, AgentActs(b)
  PROVE  IInv' /\ Allowed
<1> DEFINE t == [turn[b] EXCEPT !.inflight = TRUE]
<1>1. turn[b] \in Turn /\ InOrder(turn[b], completion[b]) /\ turn[b].phase = "prompted" /\ turn[b].run # 0
  BY ActorFacts DEF AgentActs, RunsRoutine
<1>2. t \in Turn /\ t.run = turn[b].run /\ InOrder(t, completion[b])
  BY <1>1 DEF Turn, InOrder
<1>3. HistOK' /\ acted' \subseteq RunId /\ used' \subseteq RunId /\ turn' = [turn EXCEPT ![b] = t]
  BY <1>1, ActorFacts DEF AgentActs, IInv, TypeOK, HistOK
<1> HIDE DEF t
<1> QED
  BY <1>2, <1>3, TurnSteps DEF AgentActs

LEMMA TakeUpdateStep ==
  ASSUME IInv, NEW b \in Bot, TakeUpdate(b)
  PROVE  IInv' /\ Allowed
<1> DEFINE t == [turn[b] EXCEPT !.inflight = FALSE]
<1>1. turn[b] \in Turn /\ InOrder(turn[b], completion[b]) /\ turn[b].inflight /\ turn[b] # Idle
  BY ActorFacts DEF TakeUpdate, Idle
<1>2. t \in Turn /\ t.run = turn[b].run /\ InOrder(t, completion[b])
  <2>1. turn[b].phase # "idle"
    BY <1>1 DEF InOrder
  <2>2. t \in Turn /\ t.run = turn[b].run /\ t.phase = turn[b].phase /\ ~t.inflight
    BY <1>1 DEF Turn
  <2> QED
    BY <1>1, <2>1, <2>2 DEF InOrder
<1>3. HistOK' /\ used' \subseteq RunId /\ turn' = [turn EXCEPT ![b] = t]
  BY <1>1 DEF TakeUpdate, IInv, TypeOK, HistOK
<1>4. acted' \subseteq RunId
  BY <1>1, ActorFacts DEF TakeUpdate, IInv, TypeOK, InOrder
<1> HIDE DEF t
<1> QED
  BY <1>2, <1>3, <1>4, TurnSteps DEF TakeUpdate

LEMMA AgentEndsStep ==
  ASSUME IInv, NEW b \in Bot, NEW done \in {"ok", "err"}, AgentEnds(b, done)
  PROVE  IInv' /\ Allowed
<1> DEFINE t == [turn[b] EXCEPT !.done = done]
<1>1. turn[b] \in Turn /\ InOrder(turn[b], completion[b]) /\ turn[b].phase = "prompted"
  BY ActorFacts DEF AgentEnds
<1>2. t \in Turn /\ t.run = turn[b].run /\ InOrder(t, completion[b])
  BY <1>1 DEF Turn, InOrder
<1>3. HistOK' /\ acted' \subseteq RunId /\ used' \subseteq RunId /\ turn' = [turn EXCEPT ![b] = t]
  BY DEF AgentEnds, IInv, TypeOK, HistOK
<1> HIDE DEF t
<1> QED
  BY <1>2, <1>3, TurnSteps DEF AgentEnds

LEMMA KillAgentStep ==
  ASSUME IInv, NEW b \in Bot, KillAgent(b)
  PROVE  IInv' /\ Allowed
<1>1. turn[b] \in Turn /\ InOrder(turn[b], completion[b]) /\ turn[b].phase = "prompted"
  BY ActorFacts DEF KillAgent
<1>2. PICK late \in BOOLEAN :
        turn' = [turn EXCEPT ![b].late = @ \/ late, ![b].stop = TRUE, ![b].inflight = FALSE,
                             ![b].done = IF @ = "none" THEN "err" ELSE @]
  BY DEF KillAgent
<1> DEFINE t == [turn[b] EXCEPT !.late = @ \/ late, !.stop = TRUE, !.inflight = FALSE,
                                !.done = IF @ = "none" THEN "err" ELSE @]
<1>3. t \in Turn /\ t.run = turn[b].run /\ InOrder(t, completion[b])
  BY <1>1 DEF Turn, InOrder
<1>4. HistOK' /\ acted' \subseteq RunId /\ used' \subseteq RunId
  BY DEF KillAgent, IInv, TypeOK, HistOK
<1>5. turn' = [turn EXCEPT ![b] = t]
  BY <1>2 DEF IInv, TypeOK
<1> HIDE DEF t
<1> QED
  BY <1>3, <1>4, <1>5, TurnSteps DEF KillAgent

LEMMA TurnDoneStep ==
  ASSUME IInv, NEW b \in Bot, TurnDone(b)
  PROVE  IInv' /\ Allowed
<1>1. /\ turn[b] \in Turn /\ InOrder(turn[b], completion[b]) /\ turn[b] # Idle /\ turn[b].phase # "idle"
      /\ UNCHANGED <<mailbox, queue, used>> /\ ActorFrame
  BY ActorFacts DEF TurnDone, Idle, InOrder
<1>2. acted' \subseteq RunId
  BY <1>1, ActorFacts DEF TurnDone, Drained, IInv, TypeOK, InOrder
<1>3. CASE /\ turn[b].run = 0 /\ turn' = [turn EXCEPT ![b] = Idle]
           /\ UNCHANGED <<runs, created, active, completion, hist>>
  <2>1. Idle \in Turn /\ Idle.run = turn[b].run /\ InOrder(Idle, completion[b])
    BY <1>1, <1>3, IdleTypes DEF InOrder, Idle
  <2>2. HistOK' /\ used' \subseteq RunId
    BY <1>1, <1>3 DEF IInv, TypeOK, HistOK
  <2> QED
    BY <1>1, <1>2, <1>3, <2>1, <2>2, TurnSteps
<1>4. CASE turn[b].run # 0 /\ MovesOn(b) /\ UNCHANGED <<runs, created, active, completion, hist>>
  BY <1>1, <1>2, <1>4, MovesOnSteps
<1>5. ASSUME turn[b].run # 0, NEW status \in Finished, FinishRun(b, turn[b].run, status, turn[b].late, Drained(b)),
             turn' = [turn EXCEPT ![b] = Idle]
      PROVE  IInv' /\ Allowed
  <2>1. turn[b].late \in BOOLEAN
    BY <1>1 DEF Turn
  <2> QED
    BY <1>1, <1>2, <1>5, <2>1, TurnFinishes
<1> QED
  BY <1>3, <1>4, <1>5 DEF TurnDone, Finished

LEMMA RetryCompletionStep ==
  ASSUME IInv, NEW b \in Bot, RetryCompletion(b)
  PROVE  IInv' /\ Allowed
<1> DEFINE c == completion[b]
<1>1. /\ c # NoCompletion /\ RecordOutcome(c.run, c.status, c.late, acted)
      /\ active' = Released(b) /\ completion' = [completion EXCEPT ![b] = NoCompletion]
      /\ UNCHANGED <<acted, mailbox, queue, turn, used>> /\ ActorFrame
  BY DEF RetryCompletion
<1>2. /\ c \in Completion /\ c.status \in Finished /\ turn[b] = Idle /\ c.run \in RunId /\ Named(b, c.run)
      /\ \A j \in RunId : Holds(b, j) => j = c.run
  BY <1>1, ActorFacts DEF InOrder, Holds
<1>3. c.late \in BOOLEAN /\ FinishRun(b, c.run, c.status, c.late, acted)
  BY <1>1, <1>2 DEF Completion, FinishRun
<1>4. turn' = [turn EXCEPT ![b] = Idle] /\ acted' \subseteq RunId /\ used' \subseteq RunId
  BY <1>1, <1>2 DEF IInv, TypeOK
<1> HIDE DEF c
<1> QED
  BY <1>1, <1>2, <1>3, <1>4, FinishSteps

LEMMA HandleCommandStep ==
  ASSUME IInv, NEW b \in Bot, HandleCommand(b)
  PROVE  IInv' /\ Allowed
<1> DEFINE cmd == Head(mailbox[b])
           queued == {i \in RunId : Ready(runs[i]) /\ BotOf(runs[i]) = b}
<1>1. /\ AtSelect(b) /\ mailbox[b] # <<>>
      /\ mailbox' = [mailbox EXCEPT ![b] = IF cmd.cmd = "shutdown" THEN <<>> ELSE Tail(mailbox[b])]
      /\ UNCHANGED <<created, acted, used, hist>> /\ ActorFrame
  BY DEF HandleCommand
<1>2. mailbox \in [Bot -> Seq(Command)] /\ queue \in [Bot -> Seq(0..MaxRuns)]
      /\ turn \in [Bot -> Turn] /\ completion \in [Bot -> Completion]
  BY DEF IInv, TypeOK
<1>3. /\ Tail(mailbox[b]) \in Seq(Command) /\ cmd \in Command
      /\ 1 \in 1..Len(mailbox[b]) /\ cmd = mailbox[b][1]
      /\ \A k \in 1..Len(Tail(mailbox[b])) : k + 1 \in 1..Len(mailbox[b]) /\ Tail(mailbox[b])[k] = mailbox[b][k + 1]
  BY <1>1, <1>2, TailDrops
<1>4. /\ mailbox' \in [Bot -> Seq(Command)]
      /\ \A a \in Bot, i \in RunId : InMail(a, i)' => InMail(a, i)
      /\ \A a \in Bot : ToldToStop(a)' => ToldToStop(a)
  <2>1. mailbox'[b] \in Seq(Command) /\ \A a \in Bot : a # b => mailbox'[a] = mailbox[a]
    BY <1>1, <1>2, <1>3
  <2>2. \A k \in 1..Len(mailbox'[b]) : k + 1 \in 1..Len(mailbox[b]) /\ mailbox'[b][k] = mailbox[b][k + 1]
    <3>1. CASE cmd.cmd = "shutdown"
      <4>1. mailbox'[b] = <<>>
        BY <1>1, <1>2, <3>1
      <4> QED
        BY <4>1
    <3>2. CASE cmd.cmd # "shutdown"
      <4>1. mailbox'[b] = Tail(mailbox[b])
        BY <1>1, <1>2, <3>2
      <4> QED
        BY <1>3, <4>1
    <3> QED
      BY <3>1, <3>2
  <2>3. mailbox' \in [Bot -> Seq(Command)]
    BY <1>1, <1>2, <2>1
  <2>4. ASSUME NEW i \in RunId, InMail(b, i)' PROVE InMail(b, i)
    BY <2>2, <2>4 DEF InMail
  <2>5. ASSUME ToldToStop(b)' PROVE ToldToStop(b)
    BY <2>2, <2>5 DEF ToldToStop
  <2>6. ASSUME NEW a \in Bot, a # b
        PROVE  /\ ToldToStop(a)' => ToldToStop(a)
               /\ \A i \in RunId : InMail(a, i)' => InMail(a, i)
    BY <2>1, <2>6 DEF ToldToStop, InMail
  <2> QED
    BY <2>3, <2>4, <2>5, <2>6
<1>5. acted' \subseteq RunId /\ used' \subseteq RunId /\ HistOK' /\ created' <= MaxRuns
  BY <1>1, RoutinesAssumption DEF IInv, TypeOK, HistOK
<1>6. turn[b] \in Turn /\ completion[b] \in Completion /\ InOrder(turn[b], completion[b])
      /\ (turn[b].run # 0 => Named(b, turn[b].run)) /\ (completion[b].run # 0 => Named(b, completion[b].run))
  BY ActorFacts
<1>7. CASE /\ cmd.cmd \in {"routine", "send"}
           /\ queue' = [queue EXCEPT ![b] = Append(@, cmd.run)]
           /\ UNCHANGED <<runs, active, turn, completion>>
  <2>1. cmd.run \in 0..MaxRuns
    BY <1>3 DEF Command
  <2>2. /\ queue' \in [Bot -> Seq(0..MaxRuns)]
        /\ \A a \in Bot, i \in RunId : InQueue(a, i)' => InQueue(a, i) \/ (a = b /\ i = cmd.run)
    <3> HIDE DEF cmd
    <3>1. Append(queue[b], cmd.run) \in Seq(0..MaxRuns)
      BY <1>2, <2>1, AppendAdds
    <3>2. \A k \in 1..Len(Append(queue[b], cmd.run)) :
             (k \in 1..Len(queue[b]) /\ Append(queue[b], cmd.run)[k] = queue[b][k]) \/ Append(queue[b], cmd.run)[k] = cmd.run
      BY <1>2, <2>1, AppendAdds
    <3>3. queue' \in [Bot -> Seq(0..MaxRuns)]
      BY <1>2, <1>7, <3>1
    <3>4. ASSUME NEW a \in Bot, NEW i \in RunId, InQueue(a, i)'
          PROVE  InQueue(a, i) \/ (a = b /\ i = cmd.run)
      BY <1>2, <1>7, <3>2, <3>4 DEF InQueue
    <3> QED
      BY <3>3, <3>4
  <2>3. \A i \in RunId : i = cmd.run => InMail(b, i)
    BY <1>3 DEF InMail
  <2>4. \A a \in Bot, i \in RunId : InMail(a, i)' \/ InQueue(a, i)' => Named(a, i)
    BY <1>4, <2>2, <2>3 DEF Named
  <2>5. LogStep
    BY <1>1, <1>7, SettlesSame, SettledStep DEF IInv
  <2>6. turn' = [turn EXCEPT ![b] = turn[b]] /\ completion' = [completion EXCEPT ![b] = completion[b]]
    BY <1>2, <1>7
  <2>7. ExecutingIsHeld'
    BY <1>7, <2>5, StillHeld DEF IInv, Holds, HoldsNext
  <2>8. runs' \in [RunId -> Run] /\ active' \subseteq Bot
    BY <1>7 DEF IInv, TypeOK
  <2> QED
    BY <1>1, <1>4, <1>5, <1>6, <2>2, <2>4, <2>5, <2>6, <2>7, <2>8, StepAllowed, ActorSteps
<1>8. CASE /\ cmd.cmd = "stop"
           /\ Save(CancelWhere(runs, queued)) \/ UNCHANGED runs
           /\ active' = AfterStop(b)
           /\ queue' = [queue EXCEPT ![b] = <<>>]
           /\ turn' = [turn EXCEPT ![b].stop = turn[b].phase # "idle"]
           /\ UNCHANGED completion
  <2> DEFINE t == [turn[b] EXCEPT !.stop = turn[b].phase # "idle"]
  <2>1. LogStep
    <3>1. Settles(CancelWhere(runs, queued))
      BY SettlesCancel DEF IInv, Ready, IsActive, Active
    <3> QED
      BY <1>1, <1>8, <3>1, SettlesSame, SettledStep, SaveSettles DEF IInv
  <2>2. t \in Turn /\ t.run = turn[b].run
    BY <1>6 DEF Turn
  <2>3. InOrder(t, completion[b])
    <3>1. CASE turn[b].phase = "idle"
      <4>1. t = turn[b]
        <5>1. turn[b].stop = FALSE
          BY <1>6, <3>1 DEF InOrder, Idle
        <5>2. t = [turn[b] EXCEPT !.stop = FALSE]
          BY <3>1
        <5> HIDE DEF t
        <5> QED
          BY <1>6, <5>1, <5>2 DEF Turn
      <4> QED
        BY <1>6, <4>1
    <3>2. CASE turn[b].phase # "idle"
      BY <1>6, <3>2 DEF InOrder, Turn
    <3> QED
      BY <3>1, <3>2
  <2>4. turn' = [turn EXCEPT ![b] = t] /\ completion' = [completion EXCEPT ![b] = completion[b]]
    BY <1>2, <1>8
  <2> HIDE DEF t
  <2>5. queue' \in [Bot -> Seq(0..MaxRuns)] /\ \A a \in Bot, i \in RunId : InQueue(a, i)' => InQueue(a, i)
    BY <1>2, <1>8 DEF InQueue
  <2>6. \A a \in Bot, i \in RunId : InMail(a, i)' \/ InQueue(a, i)' => Named(a, i)
    BY <1>4, <2>5 DEF Named
  <2>7. ExecutingIsHeld'
    <3>1. \A i \in RunId : Holds(b, i) => t.run = i \/ completion[b].run = i
      BY <2>2 DEF Holds
    <3>2. PICK c \in Completion : c = completion[b]
      BY <1>6
    <3> QED
      BY <2>1, <2>2, <2>4, <3>1, <3>2, OthersHeld
  <2>8. runs' \in [RunId -> Run] /\ active' \subseteq Bot
    BY <1>8, <2>1 DEF LogStep, AfterStop, Released, IInv, TypeOK
  <2> QED
    BY <1>1, <1>4, <1>5, <1>6, <2>1, <2>2, <2>3, <2>4, <2>5, <2>6, <2>7, <2>8, StepAllowed, ActorSteps
<1>9. CASE /\ cmd.cmd = "shutdown"
           /\ queue' = [queue EXCEPT ![b] = <<>>]
           /\ turn' = [turn EXCEPT ![b] = Idle]
           /\ completion' = [completion EXCEPT ![b] = NoCompletion]
           /\ UNCHANGED <<runs, active>>
  <2>1. LogStep
    BY <1>1, <1>9, SettlesSame, SettledStep DEF IInv
  <2>2. \A i \in RunId : BotOf(runs[i]) = b => ~IsActive(runs[i])
    BY <1>3, <1>9 DEF IInv, GoneIsEmpty
  <2>3. ExecutingIsHeld'
    BY <1>9, <2>1, <2>2, IdleTypes, OthersHeld
  <2>4. queue' \in [Bot -> Seq(0..MaxRuns)] /\ \A a \in Bot, i \in RunId : InQueue(a, i)' => InQueue(a, i)
    BY <1>2, <1>9 DEF InQueue
  <2>5. \A a \in Bot, i \in RunId : InMail(a, i)' \/ InQueue(a, i)' => Named(a, i)
    BY <1>4, <2>4 DEF Named
  <2>6. runs' \in [RunId -> Run] /\ active' \subseteq Bot /\ Idle.run = 0 /\ NoCompletion.run = 0
    BY <1>9 DEF IInv, TypeOK, Idle, NoCompletion
  <2> QED
    BY <1>1, <1>4, <1>5, <1>9, <2>1, <2>3, <2>4, <2>5, <2>6, IdleTypes, StepAllowed, ActorSteps
<1> QED
  BY <1>7, <1>8, <1>9 DEF HandleCommand

-----------------------------------------------------------------------------
(* Restarts. *)

LEMMA RestoredKeeps ==
  ASSUME NEW run \in Run
  PROVE  /\ Restored(run) \in Run /\ Restored(run).routine = run.routine
         /\ run.status = "starting" => Restored(run).status = "pending"
         /\ run.status = "running" => Restored(run).status = "recovering"
         /\ run.status \notin {"starting", "running"} => Restored(run).status = run.status
<1>1. PICK s \in Status : /\ run.status = "starting" => s = "pending"
                          /\ run.status = "running" => s = "recovering"
                          /\ run.status \notin {"starting", "running"} => s = run.status
                          /\ Restored(run) = [run EXCEPT !.status = s]
  <2>1. run.status \in Status
    BY DEF Run, Status
  <2>2. CASE run.status = "starting"
    BY <2>2 DEF Restored, Status, Active
  <2>3. CASE run.status = "running"
    BY <2>3 DEF Restored, Status, Active
  <2>4. CASE run.status \notin {"starting", "running"}
    BY <2>1, <2>4 DEF Restored
  <2> QED
    BY <2>2, <2>3, <2>4
<1> QED
  BY <1>1 DEF Run, Status

LEMMA RestartStep ==
  ASSUME IInv, NEW back \in SUBSET Bot, Restart(back)
  PROVE  IInv' /\ Allowed
<1> DEFINE log == [i \in RunId |-> Restored(runs[i])]
           recovering(b) == {i \in RunId : log[i].status = "recovering" /\ BotOf(log[i]) = b}
           first(b) == CHOOSE i \in recovering(b) : Oldest(i, recovering(b))
           resumed(b) == [Idle EXCEPT !.phase = "starting", !.run = first(b), !.hidden = TRUE]
           own == [Idle EXCEPT !.phase = "prompted"]
<1>1. /\ crashes < MaxCrashes /\ crashes' = crashes + 1 /\ runs' = log
      /\ active' = {b \in Bot : recovering(b) # {}}
      /\ mailbox' = [b \in Bot |-> <<>>] /\ queue' = [b \in Bot |-> <<>>]
      /\ turn' = [b \in Bot |-> IF b \notin gone /\ recovering(b) # {} THEN resumed(b)
                                ELSE IF b \in back THEN own ELSE Idle]
      /\ completion' = [b \in Bot |-> NoCompletion]
      /\ due' = {} /\ stopping' = FALSE
      /\ UNCHANGED <<routines, created, acted, gone, requests, used, hist>>
  BY DEF Restart
<1>1a. /\ crashes < MaxCrashes /\ crashes' = crashes + 1
       /\ mailbox' = [b \in Bot |-> <<>>] /\ queue' = [b \in Bot |-> <<>>]
       /\ completion' = [b \in Bot |-> NoCompletion]
       /\ active' \subseteq Bot /\ due' = {} /\ stopping' = FALSE
       /\ UNCHANGED <<routines, created, acted, gone, requests, used, hist>>
  BY <1>1
<1>2. runs \in [RunId -> Run] /\ created \in Nat /\ \A i \in RunId : i \in Nat /\ i # 0
  BY RoutinesAssumption DEF IInv, TypeOK, RunId
<1>3. runs' \in [RunId -> Run] /\ \A i \in RunId :
        /\ runs'[i].routine = runs[i].routine
        /\ runs[i].status = "starting" => runs'[i].status = "pending"
        /\ runs[i].status = "running" => runs'[i].status = "recovering"
        /\ runs[i].status \notin {"starting", "running"} => runs'[i].status = runs[i].status
  BY <1>1, <1>2, RestoredKeeps
<1>4. \A b \in Bot : recovering(b) = {i \in RunId : runs'[i].status = "recovering" /\ BotOf(runs[i]) = b}
  BY <1>1, <1>3 DEF BotOf
<1>5. \A b \in Bot : \A i, j \in recovering(b) : i = j
  <2>1. \A i \in RunId : runs'[i].status = "recovering" => Holds(BotOf(runs[i]), i)
    BY <1>3 DEF IInv, ExecutingIsHeld, Executing
  <2>2. ASSUME NEW b \in Bot, NEW i \in recovering(b), NEW j \in recovering(b) PROVE i = j
    <3>1. i \in RunId /\ j \in RunId /\ Holds(b, i) /\ Holds(b, j)
      BY <1>4, <2>1, <2>2
    <3> QED
      BY <3>1, ActorFacts
  <2> QED
    BY <2>2
<1>6. \A b \in Bot : recovering(b) # {} => first(b) \in recovering(b)
  <2> SUFFICES ASSUME NEW b \in Bot, recovering(b) # {} PROVE first(b) \in recovering(b)
    OBVIOUS
  <2>1. PICK i \in recovering(b) : TRUE
    OBVIOUS
  <2>2. \A j \in recovering(b) : j = i
    BY <1>5, <2>1
  <2>3. Oldest(i, recovering(b))
    BY <1>2, <1>4, <2>1, <2>2 DEF Oldest
  <2> QED
    BY <2>1, <2>3
<1> HIDE DEF log, recovering, first
<1>7. \A b \in Bot : /\ turn'[b] \in Turn /\ InOrder(turn'[b], NoCompletion)
                     /\ turn'[b].run # 0 => turn'[b].run \in recovering(b)
                     /\ recovering(b) # {} /\ b \notin gone => turn'[b].run \in recovering(b)
  <2> SUFFICES ASSUME NEW b \in Bot
               PROVE  /\ turn'[b] \in Turn /\ InOrder(turn'[b], NoCompletion)
                      /\ turn'[b].run # 0 => turn'[b].run \in recovering(b)
                      /\ recovering(b) # {} /\ b \notin gone => turn'[b].run \in recovering(b)
    OBVIOUS
  <2>1. PICK z \in Turn : z = Idle /\ ~z.inflight /\ z.run = 0
    BY IdleTypes DEF Idle
  <2>2. CASE b \notin gone /\ recovering(b) # {}
    <3>1. first(b) \in recovering(b) /\ first(b) \in RunId
      BY <1>4, <1>6, <2>2
    <3>2. first(b) \in 0..MaxRuns /\ first(b) # 0
      BY <1>2, <3>1, RoutinesAssumption DEF RunId
    <3>3. turn'[b] = [z EXCEPT !.phase = "starting", !.run = first(b), !.hidden = TRUE]
      BY <1>1, <2>1, <2>2
    <3>4. turn'[b] \in Turn /\ turn'[b].phase = "starting" /\ turn'[b].run = first(b)
      BY <2>1, <3>2, <3>3 DEF Turn
    <3> QED
      BY <3>1, <3>2, <3>4 DEF InOrder, NoCompletion
  <2>3. CASE ~(b \notin gone /\ recovering(b) # {}) /\ b \in back
    <3>1. turn'[b] = [z EXCEPT !.phase = "prompted"]
      BY <1>1, <2>1, <2>3
    <3>2. turn'[b] \in Turn /\ turn'[b].phase = "prompted" /\ turn'[b].run = 0 /\ ~turn'[b].inflight
      BY <2>1, <3>1 DEF Turn
    <3> QED
      BY <2>3, <3>2 DEF InOrder, NoCompletion
  <2>4. CASE ~(b \notin gone /\ recovering(b) # {}) /\ b \notin back
    <3>1. turn'[b] = Idle
      BY <1>1, <2>4
    <3> QED
      BY <2>1, <2>4, <3>1, IdleTypes
  <2> QED
    BY <2>2, <2>3, <2>4
<1>8. TypeOK'
  <2>1. crashes' \in 0..MaxCrashes
    BY <1>1a, RoutinesAssumption DEF IInv, TypeOK
  <2>2. mailbox' \in [Bot -> Seq(Command)] /\ queue' \in [Bot -> Seq(0..MaxRuns)]
    BY <1>1a
  <2>3. turn' \in [Bot -> Turn] /\ completion' \in [Bot -> Completion]
    <3>1. DOMAIN turn' = Bot /\ turn' = [b \in Bot |-> turn'[b]]
      BY <1>1
    <3> QED
      BY <1>1a, <1>7, <3>1, IdleTypes
  <2> QED
    BY <1>1a, <1>3, <2>1, <2>2, <2>3 DEF IInv, TypeOK
<1>9. LogMove
  <2>1. \A i \in RunId : ~(i > created /\ i <= created) /\ (i > created => runs[i].status = "none")
    BY <1>2 DEF IInv, Addressed
  <2> QED
    BY <1>1a, <1>3, <2>1 DEF LogMove, IsActive, Active
<1>10. ActorsInOrder'
  BY <1>1, <1>7 DEF ActorsInOrder, InOrder
<1>11. Addressed'
  <2>1. ASSUME NEW b \in Bot, NEW i \in RunId, Named(b, i)'
        PROVE  i <= created /\ BotOf(runs[i]) = b
    <3>1. i \in recovering(b)
      <4>1. ~InMail(b, i)' /\ ~InQueue(b, i)'
        BY <1>1a DEF InMail, InQueue
      <4>2. completion'[b].run = 0
        BY <1>1a DEF NoCompletion
      <4> QED
        BY <1>2, <1>7, <2>1, <4>1, <4>2 DEF Named, Holds
    <3>2. runs[i].status # "none" /\ BotOf(runs[i]) = b
      BY <1>3, <1>4, <3>1
    <3> QED
      BY <1>2, <3>2 DEF IInv, Addressed
  <2> QED
    BY <1>1a, <1>9, <2>1, AddressedSteps DEF IInv
<1>12. GoneIsEmpty'
  <2>1. \A b \in Bot : ~ToldToStop(b)'
    BY <1>1a DEF ToldToStop
  <2> QED
    BY <1>1a, <1>8, <1>9, <2>1, GoneSteps DEF IInv, Monotone
<1>13. ExecutingIsHeld'
  <2> SUFFICES ASSUME NEW i \in RunId, runs'[i].status \in Executing
               PROVE  turn'[BotOf(runs'[i])].run = i
    BY DEF ExecutingIsHeld, Holds, BotOf
  <2>1. runs'[i].status = "recovering" /\ IsActive(runs[i])
    BY <1>2, <1>3 DEF Executing, IsActive, Active, Run, Finished
  <2>2. BotOf(runs'[i]) = BotOf(runs[i]) /\ BotOf(runs[i]) \in Bot
    BY <1>2, <1>3, RoutinesAssumption DEF BotOf, Run
  <2>3. BotOf(runs[i]) \notin gone
    BY <2>1 DEF IInv, GoneIsEmpty
  <2> QED
    BY <1>4, <1>5, <1>7, <2>1, <2>2, <2>3
<1>14. Allowed
  BY <1>3, <1>9 DEF Allowed, IsActive, Active
<1> QED
  BY <1>8, <1>10, <1>11, <1>12, <1>13, <1>14 DEF IInv

-----------------------------------------------------------------------------
(* The theorems. *)

LEMMA InitInv ==
  ASSUME Init
  PROVE  IInv
<1>1. \A i \in RunId : runs[i] = NoRun /\ NoRun.status = "none"
  BY DEF Init, NoRun
<1>2. turn = [b \in Bot |-> Idle] /\ completion = [b \in Bot |-> NoCompletion] /\ Idle.run = 0 /\ NoCompletion.run = 0
  BY DEF Init, Idle, NoCompletion
<1>3. TypeOK
  <2>1. runs \in [RunId -> Run]
    BY NoRunType DEF Init
  <2>2. routines \in [Routine -> Definition]
    <3>1. /\ [state |-> "absent", enabled |-> FALSE, wake |-> "none"] \in Definition
          /\ [state |-> "live", enabled |-> TRUE, wake |-> "later"] \in Definition
      BY DEF Definition
    <3> QED
      BY <3>1 DEF Init
  <2>3. hist \in [RunId -> [instructed : SUBSET (1..MaxAgents), again : BOOLEAN, redoes : SUBSET RunId]]
    BY DEF Init
  <2>4. mailbox \in [Bot -> Seq(Command)] /\ queue \in [Bot -> Seq(0..MaxRuns)]
    BY DEF Init
  <2>5. created \in 0..MaxRuns /\ requests \in 0..MaxRequests /\ crashes \in 0..MaxCrashes
    BY RoutinesAssumption DEF Init
  <2> QED
    BY <1>2, <2>1, <2>2, <2>3, <2>4, <2>5, IdleTypes DEF Init, TypeOK
<1>4. ActorsInOrder
  BY <1>2, IdleTypes DEF ActorsInOrder, InOrder
<1>5. Addressed
  <2>1. \A b \in Bot : mailbox[b] = <<>> /\ queue[b] = <<>> /\ due = {}
    BY DEF Init
  <2>2. \A i \in RunId : i # 0
    BY RoutinesAssumption DEF RunId
  <2> QED
    BY <1>1, <1>2, <2>1, <2>2 DEF Addressed, Holds, Init
<1>6. GoneIsEmpty
  BY DEF Init, GoneIsEmpty
<1>7. ExecutingIsHeld
  BY <1>1 DEF ExecutingIsHeld, Executing
<1> QED
  BY <1>3, <1>4, <1>5, <1>6, <1>7 DEF IInv

LEMMA ActorStepKeeps ==
  ASSUME IInv, NEW b \in Bot, ActorStep(b) \/ AgentStep(b)
  PROVE  IInv' /\ Allowed
<1>1. CASE HandleCommand(b) BY <1>1, HandleCommandStep
<1>2. CASE BeginUserTurn(b) BY <1>2, BeginUserTurnStep
<1>3. CASE BeginRun(b) BY <1>3, BeginRunStep
<1>4. CASE DropRun(b) BY <1>4, DropRunStep
<1>5. CASE BeginFails(b) BY <1>5, BeginFailsStep
<1>6. CASE MarkStarted(b) BY <1>6, MarkStartedStep
<1>7. CASE Prompt(b) BY <1>7, PromptStep
<1>8. CASE StartFails(b) BY <1>8, StartFailsStep
<1>9. CASE SessionLost(b) BY <1>9, SessionLostStep
<1>10. CASE TakeUpdate(b) BY <1>10, TakeUpdateStep
<1>11. CASE KillAgent(b) BY <1>11, KillAgentStep
<1>12. CASE TurnDone(b) BY <1>12, TurnDoneStep
<1>13. CASE RetryCompletion(b) BY <1>13, RetryCompletionStep
<1>14. CASE AgentActs(b) BY <1>14, AgentActsStep
<1>15. CASE AgentEnds(b, "ok") \/ AgentEnds(b, "err") BY <1>15, AgentEndsStep
<1> QED
  BY <1>1, <1>2, <1>3, <1>4, <1>5, <1>6, <1>7, <1>8, <1>9, <1>10, <1>11, <1>12, <1>13, <1>14, <1>15
  DEF ActorStep, AgentStep

\* Every step keeps the invariant, and moves the log only forward.
LEMMA NextKeeps ==
  ASSUME IInv, [Next]_vars
  PROVE  IInv' /\ Allowed
<1>1. CASE Request
  <2>1. CASE \E r \in Routine : \E on \in BOOLEAN, wake \in {"none", "later", "now"} :
               SaveRoutine(r, on, wake) \/ SetEnabled(r, on, wake)
    BY <2>1, SaveRoutineStep, SetEnabledStep
  <2>2. CASE \E r \in Routine : Remove(r) \/ RunNow(r)
    BY <2>2, RemoveStep, RunNowStep
  <2>3. CASE \E r \in Routine, d \in Delivery : Receive(r, d)
    BY <2>3, ReceiveStep
  <2>4. CASE \E i \in RunId : Retry(i)
    BY <2>4, RetryStep
  <2>5. CASE \E b \in Bot : UserSends(b, "send") \/ UserSends(b, "stop") \/ DeleteBot(b)
    BY <2>5, UserSendsStep, DeleteBotStep
  <2> QED
    BY <1>1, <2>1, <2>2, <2>3, <2>4, <2>5 DEF Request
<1>2. CASE Clock
  BY <1>2, WakeArrivesStep, RetryTimeArrivesStep DEF Clock
<1>3. CASE Tick
  BY <1>3, ScheduleDueStep, ScheduleInvalidStep, SnapshotStep, DispatchStep DEF Tick
<1>4. CASE StopScheduler
  BY <1>4, StopSchedulerStep
<1>5. CASE \E b \in Bot : ActorStep(b) \/ AgentStep(b)
  BY <1>5, ActorStepKeeps
<1>6. CASE \E back \in SUBSET {b \in Bot : turn[b].phase = "prompted" /\ turn[b].run = 0} : Restart(back)
  BY <1>6, RestartStep
<1>7. CASE UNCHANGED vars
  <2>1. UNCHANGED <<runs, created>> /\ IInv'
    BY <1>7 DEF vars, IInv, TypeOK, ActorsInOrder, Addressed, GoneIsEmpty, ExecutingIsHeld, Holds
  <2>2. LogStep
    BY <2>1, SettlesSame, SettledStep DEF IInv
  <2> QED
    BY <2>1, <2>2, StepAllowed
<1> QED
  BY <1>1, <1>2, <1>3, <1>4, <1>5, <1>6, <1>7 DEF Next

\* The inductive invariant, kept by every action of requests, clock, scheduler, actors,
\* agents and restarts.
THEOREM Invariant == Spec => []IInv
<1>1. Init => IInv
  BY InitInv
<1>2. IInv /\ [Next]_vars => IInv'
  BY NextKeeps
<1> QED
  BY <1>1, <1>2, PTL DEF Spec

\* Every reachable state is well typed: no step writes a run, a turn or a
\* reservation the code could not hold.
THEOREM TypeCorrect == Spec => []TypeOK
<1>1. IInv => TypeOK
  BY DEF IInv
<1> QED
  BY <1>1, Invariant, PTL

\* A run under way is always in its own bot's actor's hands, for any number of
\* bots, routines, runs, restarts and requests.
THEOREM ExecutingHeld == Spec => []ExecutingIsHeld
<1>1. IInv => ExecutingIsHeld
  BY DEF IInv
<1> QED
  BY <1>1, Invariant, PTL

LEMMA InvOneAtATime == ASSUME IInv PROVE OneAtATime
<1> SUFFICES ASSUME NEW i \in RunId, NEW j \in RunId, runs[i].status \in Executing,
                    runs[j].status \in Executing, BotOf(runs[i]) = BotOf(runs[j])
             PROVE  i = j
  BY DEF OneAtATime
<1>1. Holds(BotOf(runs[i]), i) /\ Holds(BotOf(runs[i]), j)
  BY DEF IInv, ExecutingIsHeld
<1>2. BotOf(runs[i]) \in Bot
  BY RoutinesAssumption DEF IInv, TypeOK, Run, BotOf
<1> QED
  BY <1>1, <1>2, ActorFacts

\* No bot ever has two runs under way: its actor serializes them.
THEOREM RunsSerialized == Spec => []OneAtATime
<1>1. IInv => OneAtATime
  BY InvOneAtATime
<1> QED
  BY <1>1, Invariant, PTL

\* A finished run is never run again nor given another outcome.
THEOREM OutcomesFinal == Spec => OutcomesAreFinal
<1> DEFINE Final == \A i \in RunId : runs[i].status \in Finished => runs'[i].status \in {runs[i].status, "none"}
<1>1. IInv /\ [Next]_vars => [Final]_vars
  <2> SUFFICES ASSUME IInv, [Next]_vars, NEW i \in RunId, runs[i].status \in Finished
               PROVE  runs'[i].status \in {runs[i].status, "none"}
    OBVIOUS
  <2>1. Allowed
    BY NextKeeps
  <2>2. i <= created
    <3>1. ~(i > created)
      BY DEF IInv, Addressed, Finished
    <3> QED
      BY <3>1, RoutinesAssumption DEF IInv, TypeOK, RunId
  <2> QED
    BY <2>1, <2>2 DEF Allowed, IsActive, Active, Finished
<1> QED
  BY <1>1, Invariant, PTL DEF Spec, OutcomesAreFinal

-----------------------------------------------------------------------------
(* The refinement of RunLedger. *)

LEMMA PlaceIs ==
  ASSUME NEW i, NEW n, NEW status
  PROVE  LET place == Place(i <= n, status)
         IN /\ place = "new" <=> ~(i <= n)
            /\ place = "queued" <=> i <= n /\ status \in {"pending", "starting"}
            /\ place = "executing" <=> i <= n /\ status \in {"running", "recovering"}
            /\ place \in {"new", "queued", "executing", "done"}
<1>1. CASE i <= n
  BY <1>1 DEF Place
<1>2. CASE ~(i <= n)
  BY <1>2 DEF Place
<1> QED
  BY <1>1, <1>2

LEMMA LedgerInit ==
  ASSUME Init
  PROVE  Ledger!Init
<1>1. \A i \in RunId : ~(i <= created) /\ BotOf(runs[i]) \in Bot
  BY RoutinesAssumption DEF Init, RunId, BotOf, NoRun, AnyRoutine
<1>2. \A i \in RunId : Place(i <= created, runs[i].status) = "new"
  BY <1>1 DEF Place
<1> QED
  BY <1>1, <1>2 DEF Ledger!Init

\* Every step of the routines and their actors is one of the ledger's, or none.
LEMMA LedgerStep ==
  ASSUME IInv, IInv', Allowed
  PROVE  Ledger!Next
<1> DEFINE old(i) == Place(i <= created, runs[i].status)
           new(i) == Place(i <= created', runs'[i].status)
<1>1. created \in Nat /\ created' \in Nat /\ created <= created' /\ \A i \in RunId : i \in Nat
  BY RoutinesAssumption DEF IInv, TypeOK, RunId, Allowed, LogMove
<1>2. ASSUME NEW i \in RunId
      PROVE  new(i) \in {"new", "queued", "executing", "done"}
  BY PlaceIs
<1>3. ASSUME NEW i \in RunId
      PROVE  new(i) = old(i) \/ <<old(i), new(i)>> \in Ledger!Moves
  <2>1. CASE i > created
    <3>1. old(i) = "new"
      BY <1>1, <2>1, PlaceIs
    <3>2. CASE i > created'
      <4>1. new(i) = "new"
        BY <1>1, <3>2, PlaceIs
      <4> QED
        BY <3>1, <4>1
    <3>3. CASE i <= created'
      <4>1. runs'[i].status = "pending"
        BY <2>1, <3>3 DEF Allowed, LogMove
      <4>2. new(i) = "queued"
        BY <3>3, <4>1, PlaceIs
      <4> QED
        BY <3>1, <4>2 DEF Ledger!Moves
    <3> QED
      BY <1>1, <3>2, <3>3
  <2>2. CASE i <= created
    <3>1. i <= created'
      BY <1>1, <2>2
    <3>2. old(i) # "new" /\ new(i) # "new" /\ old(i) \in {"queued", "executing", "done"}
          /\ new(i) \in {"queued", "executing", "done"}
      BY <2>2, <3>1, PlaceIs
    <3>3. old(i) = "executing" => new(i) # "queued"
      BY <2>2, <3>1, PlaceIs DEF Allowed
    <3>4. old(i) = "done" => new(i) = "done"
      <4>1. runs[i].status \in Status
        BY DEF IInv, TypeOK, Run, Status
      <4>2. old(i) = "done" => ~IsActive(runs[i])
        BY <2>2, <4>1, PlaceIs DEF IsActive, Active
      <4>3. ~IsActive(runs[i]) => ~IsActive(runs'[i])
        BY <2>2 DEF Allowed, LogMove
      <4>4. ~IsActive(runs'[i]) => new(i) = "done"
        BY <3>1, <3>2, PlaceIs DEF IsActive, Active
      <4> QED
        BY <4>2, <4>3, <4>4
    <3> QED
      BY <3>2, <3>3, <3>4 DEF Ledger!Moves
  <2> QED
    BY <1>1, <2>1, <2>2
<1>4. ASSUME NEW i \in RunId, old(i) # "new"
      PROVE  BotOf(runs'[i]) = BotOf(runs[i])
  <2>1. i <= created
    BY <1>1, <1>4, PlaceIs
  <2> QED
    BY <2>1 DEF Allowed, LogMove, BotOf
<1>5. \A i \in RunId : BotOf(runs'[i]) \in Bot
  BY RoutinesAssumption DEF IInv, TypeOK, Run, BotOf
<1>6. ASSUME NEW i \in RunId, NEW j \in RunId, new(i) = "executing", new(j) = "executing",
             BotOf(runs'[i]) = BotOf(runs'[j])
      PROVE  i = j
  <2>1. runs'[i].status \in Executing /\ runs'[j].status \in Executing
    BY <1>6, PlaceIs DEF Executing
  <2>2. OneAtATime'
    BY InvOneAtATime, PTL
  <2> QED
    BY <1>6, <2>1, <2>2 DEF OneAtATime, BotOf
<1> DEFINE before == [i \in RunId |-> old(i)]
           after == [i \in RunId |-> new(i)]
           owner == [i \in RunId |-> BotOf(runs[i])]
           owner2 == [i \in RunId |-> BotOf(runs'[i])]
<1>7. after \in [RunId -> Ledger!Places]
  BY <1>2 DEF Ledger!Places
<1>8. \A i \in RunId : after[i] = before[i] \/ <<before[i], after[i]>> \in Ledger!Moves
  BY <1>3
<1>9. \A i \in RunId : before[i] # "new" => owner2[i] = owner[i]
  BY <1>4
<1>10. Ledger!OneEach(after, owner2)
  BY <1>6 DEF Ledger!OneEach
<1> QED
  BY <1>7, <1>8, <1>9, <1>10 DEF Ledger!Next

\* The run log and the bots' actors implement RunLedger: whatever is queued,
\* stopped, retried, deleted or restarted, each run is queued once, executed at most
\* once and alone on its bot, and then done for good.
THEOREM Refinement == Spec => ImplementsLedger
<1>1. Init => Ledger!Init
  BY LedgerInit
<1>2. IInv /\ [Next]_vars => IInv' /\ [Ledger!Next]_(Ledger!vars)
  BY NextKeeps, LedgerStep
<1> QED
  BY <1>1, <1>2, Invariant, PTL DEF Spec, ImplementsLedger, Ledger!Spec

-----------------------------------------------------------------------------
(* A run's instruction is given once. *)

\* A run no agent was prompted with: its start was not saved yet.
Unstarted(i) == i > created \/ runs[i].status \in {"pending", "starting"}

\* What a turn knows of its run: the agents told of it are those of the chain up to its own.
TurnTold(t) ==
  t.run # 0 /\ ~t.hidden =>
    /\ hist[t.run].instructed \subseteq 1..(IF t.phase = "prompted" THEN t.agent ELSE t.agent - 1)
    /\ t.phase \in {"marked", "prompted"} => ~Unstarted(t.run)

\* The inductive invariant behind InstructedOnce.
ToldInv ==
  /\ \A i \in RunId : Unstarted(i) => hist[i].instructed = {}
  /\ \A b \in Bot : TurnTold(turn[b])
  /\ InstructedOnce

SameTold ==
  \A i \in RunId : hist'[i].instructed = hist[i].instructed /\ (hist'[i].again <=> hist[i].again)

LEMMA UnstartedBefore ==
  ASSUME IInv, Allowed, NEW i \in RunId, Unstarted(i)'
  PROVE  Unstarted(i)
<1>1. created \in Nat /\ i \in Nat /\ created' \in {created, created + 1}
  BY RoutinesAssumption DEF IInv, TypeOK, RunId, Allowed, LogMove
<1>2. CASE i > created
  BY <1>2 DEF Unstarted
<1>3. CASE i <= created
  <2>1. runs'[i].status \in {"pending", "starting"}
    BY <1>1, <1>3 DEF Unstarted
  <2>2. IsActive(runs[i])
    BY <1>3, <2>1 DEF Allowed, LogMove, IsActive, Active
  <2> QED
    BY <1>3, <2>1, <2>2 DEF Allowed, IsActive, Active, Unstarted
<1> QED
  BY <1>1, <1>2, <1>3

\* A step of b's actor that tells no agent anything and leaves it with turn t: the
\* same part of the same turn, one that starts, or one whose start is saved.
LEMMA ToldSteps ==
  ASSUME IInv, Allowed, ToldInv, SameTold, NEW b \in Bot, NEW t \in Turn,
         \A a \in Bot : a # b => turn'[a] = turn[a], turn'[b] = t,
         \/ t.run = 0 \/ t.hidden
         \/ /\ t.run = turn[b].run /\ t.agent = turn[b].agent /\ t.phase = turn[b].phase
            /\ t.hidden <=> turn[b].hidden
         \/ t.phase = "starting" /\ hist[t.run].instructed \subseteq 1..(t.agent - 1)
         \/ /\ t.phase = "marked" /\ turn[b].phase = "starting" /\ ~Unstarted(t.run)'
            /\ t.run = turn[b].run /\ t.agent = turn[b].agent
            /\ t.hidden <=> turn[b].hidden
  PROVE  ToldInv'
<1>1. \A i \in RunId : Unstarted(i)' => hist'[i].instructed = {}
  BY UnstartedBefore DEF ToldInv, SameTold
<1>2. ASSUME NEW a \in Bot, a # b
      PROVE  TurnTold(turn[a])'
  <2>1. turn[a] \in Turn /\ (turn[a].run # 0 => turn[a].run \in RunId) /\ turn'[a] = turn[a]
    BY <1>2, ActorFacts
  <2>2. TurnTold(turn[a])
    BY DEF ToldInv
  <2> QED
    BY <2>1, <2>2, UnstartedBefore DEF TurnTold, SameTold
<1>3. TurnTold(turn[b])'
  <2>1. t.run # 0 => t.run \in RunId
    BY RoutinesAssumption DEF Turn, RunId
  <2>2. TurnTold(turn[b])
    BY DEF ToldInv
  <2> QED
    BY <2>1, <2>2, UnstartedBefore DEF TurnTold, SameTold
<1>4. InstructedOnce'
  BY DEF ToldInv, InstructedOnce, SameTold
<1> QED
  BY <1>1, <1>2, <1>3, <1>4 DEF ToldInv

\* Steps of requests, the clock and the scheduler change no actor's turn.
LEMMA OutsideKeeps ==
  ASSUME Request \/ Clock \/ Tick \/ StopScheduler
  PROVE  UNCHANGED <<acted, queue, turn, completion, crashes, used, hist>>
  BY DEF Request, Clock, Tick, StopScheduler, SaveRoutine, SetEnabled, Remove, RunNow, Receive, Retry,
         UserSends, DeleteBot, WakeArrives, RetryTimeArrives, ScheduleDue, ScheduleInvalid, Snapshot, Dispatch,
         RequestFrame, LogFrame, hostVars, actorVars, logVars

LEMMA RecordOutcomeHist ==
  ASSUME TypeOK, NEW i \in RunId, NEW status, NEW late, NEW seen, RecordOutcome(i, status, late, seen)
  PROVE  /\ SameTold
         /\ \/ \A j \in RunId : hist'[j].redoes = hist[j].redoes
            \/ /\ IsActive(runs[i]) /\ status \in Failure /\ ~late /\ i \notin seen
               /\ \A j \in RunId : hist'[j].redoes \subseteq hist[j].redoes \cup {i}
<1>1. HistOK /\ created \in Nat
  BY RoutinesAssumption DEF TypeOK, HistOK
<1>2. \/ hist' = hist
      \/ /\ IsActive(runs[i]) /\ status \in Failure /\ ~late /\ i \notin seen
         /\ \E w \in RunId : hist' = [hist EXCEPT ![w].redoes = @ \cup {i}]
  <2>1. created < MaxRuns => created + 1 \in RunId
    BY <1>1, RoutinesAssumption DEF RunId
  <2>2. PendingOf(runs, runs[i].routine) \subseteq RunId
    BY DEF PendingOf
  <2> QED
    BY <2>1, <2>2 DEF RecordOutcome, SavePushed
<1> QED
  BY <1>1, <1>2 DEF SameTold, HistOK

LEMMA FinishRunHist ==
  ASSUME TypeOK, NEW b \in Bot, NEW i \in RunId, NEW status, NEW late, NEW seen, FinishRun(b, i, status, late, seen)
  PROVE  SameTold
<1>1. CASE UNCHANGED hist
  BY <1>1 DEF SameTold
<1> QED
  BY <1>1, RecordOutcomeHist DEF FinishRun

LEMMA SameToldSame == ASSUME UNCHANGED hist PROVE SameTold
  BY DEF SameTold

\* The part of a step that is the turn of the actor that takes it.
LEMMA TurnsOnly ==
  ASSUME IInv, IInv', NEW b \in Bot, ActorStep(b) \/ AgentStep(b)
  PROVE  /\ turn'[b] \in Turn /\ turn[b] \in Turn /\ InOrder(turn[b], completion[b])
         /\ \A a \in Bot : a # b => turn'[a] = turn[a] /\ completion'[a] = completion[a]
         /\ turn \in [Bot -> Turn] /\ completion \in [Bot -> Completion]
<1>1. turn' \in [Bot -> Turn] /\ turn \in [Bot -> Turn] /\ completion \in [Bot -> Completion]
  BY DEF IInv, TypeOK
<1>2. \A a \in Bot : a # b => turn'[a] = turn[a] /\ completion'[a] = completion[a]
  <2>1. ASSUME NEW i, NEW status, NEW late, NEW seen, FinishRun(b, i, status, late, seen)
        PROVE  \A a \in Bot : a # b => completion'[a] = completion[a]
    BY <1>1, <2>1 DEF FinishRun
  <2>2. CASE HandleCommand(b) \/ BeginUserTurn(b) \/ BeginRun(b) \/ DropRun(b)
    BY <1>1, <2>2 DEF HandleCommand, BeginUserTurn, BeginRun, DropRun
  <2>3. CASE BeginFails(b) \/ StartFails(b) \/ SessionLost(b)
    BY <1>1, <2>1, <2>3 DEF BeginFails, StartFails, SessionLost, MovesOn
  <2>4. CASE MarkStarted(b) \/ Prompt(b) \/ TakeUpdate(b) \/ KillAgent(b)
    BY <1>1, <2>4 DEF MarkStarted, Prompt, TakeUpdate, KillAgent
  <2>5. CASE TurnDone(b)
    BY <1>1, <2>1, <2>5 DEF TurnDone, MovesOn
  <2>6. CASE RetryCompletion(b) \/ AgentActs(b) \/ AgentEnds(b, "ok") \/ AgentEnds(b, "err")
    BY <1>1, <2>6 DEF RetryCompletion, AgentActs, AgentEnds
  <2> QED
    BY <2>2, <2>3, <2>4, <2>5, <2>6 DEF ActorStep, AgentStep
<1>3. InOrder(turn[b], completion[b])
  BY ActorFacts
<1> QED
  BY <1>1, <1>2, <1>3

LEMMA PromptTold ==
  ASSUME IInv, IInv', Allowed, ToldInv, NEW b \in Bot, Prompt(b)
  PROVE  ToldInv'
<1> DEFINE i == turn[b].run
<1>1. /\ turn[b].phase = "marked" /\ turn' = [turn EXCEPT ![b].phase = "prompted"]
      /\ UNCHANGED <<runs, created>>
      /\ hist' = IF turn[b].hidden THEN hist
                 ELSE [hist EXCEPT ![i].instructed = @ \cup {turn[b].agent},
                                   ![i].again = @ \/ turn[b].agent \in hist[i].instructed]
  BY DEF Prompt
<1>2. /\ i \in RunId /\ turn[b] \in Turn /\ turn \in [Bot -> Turn] /\ HistOK /\ i <= created /\ BotOf(runs[i]) = b
  <2>1. InOrder(turn[b], completion[b]) /\ turn[b] \in Turn
    BY ActorFacts
  <2>2. i # 0
    BY <1>1, <2>1 DEF InOrder
  <2> QED
    BY <2>1, <2>2, ActorFacts DEF IInv, TypeOK, HistOK
<1>3. CASE turn[b].hidden
  <2>1. turn'[b].hidden /\ turn'[b] \in Turn /\ \A a \in Bot : a # b => turn'[a] = turn[a]
    BY <1>1, <1>2, <1>3 DEF Turn
  <2> QED
    BY <1>1, <1>3, <2>1, ToldSteps, SameToldSame
<1>4. CASE ~turn[b].hidden
  <2>1. /\ ~Unstarted(i) /\ hist[i].instructed \subseteq 1..(turn[b].agent - 1) /\ ~hist[i].again
    BY <1>1, <1>2, <1>4, RoutinesAssumption DEF ToldInv, TurnTold, InstructedOnce, RunId
  <2>2. turn[b].agent \in Nat /\ turn[b].agent \notin hist[i].instructed
    BY <1>2, <2>1, RoutinesAssumption DEF Turn
  <2>3. /\ hist'[i].instructed = hist[i].instructed \cup {turn[b].agent} /\ ~hist'[i].again
        /\ \A j \in RunId : j # i => hist'[j] = hist[j]
    BY <1>1, <1>2, <1>4, <2>1, <2>2 DEF HistOK
  <2>4. hist'[i].instructed \subseteq 1..turn[b].agent
    BY <2>1, <2>2, <2>3, <1>2, RoutinesAssumption DEF Turn
  <2>5. \A j \in RunId : Unstarted(j)' => Unstarted(j)
    BY UnstartedBefore
  <2>6. \A j \in RunId : Unstarted(j)' => hist'[j].instructed = {}
    BY <2>1, <2>3, <2>5 DEF ToldInv
  <2>7. TurnTold(turn[b])'
    <3>1. /\ turn'[b].run = i /\ turn'[b].phase = "prompted" /\ turn'[b].agent = turn[b].agent
      BY <1>2, <1>1
    <3>2. ~Unstarted(i)'
      BY <1>2, <2>1, <2>5, <3>1
    <3> QED
      BY <2>4, <3>1, <3>2 DEF TurnTold
  <2>8. ASSUME NEW a \in Bot, a # b PROVE TurnTold(turn[a])'
    <3>1. turn'[a] = turn[a] /\ TurnTold(turn[a]) /\ (turn[a].run # 0 => turn[a].run \in RunId /\ turn[a].run # i)
      BY <1>1, <1>2, <2>8, ActorFacts DEF ToldInv
    <3> QED
      BY <2>3, <2>5, <3>1 DEF TurnTold
  <2>9. InstructedOnce'
    BY <2>3 DEF ToldInv, InstructedOnce
  <2> QED
    BY <2>6, <2>7, <2>8, <2>9 DEF ToldInv
<1> QED
  BY <1>3, <1>4

\* The other steps of an actor or its agent.
LEMMA ActorTold ==
  ASSUME IInv, IInv', Allowed, ToldInv, NEW b \in Bot, ActorStep(b) \/ AgentStep(b)
  PROVE  ToldInv'
<1>1. /\ turn'[b] \in Turn /\ turn[b] \in Turn /\ InOrder(turn[b], completion[b])
      /\ turn \in [Bot -> Turn]
      /\ \A a \in Bot : a # b => turn'[a] = turn[a]
  BY TurnsOnly
<1>2. Idle.run = 0 /\ Idle.agent = 1 /\ Idle.hidden = FALSE
  BY DEF Idle
<1> DEFINE t == turn'[b]
           Same == t.run = turn[b].run /\ t.agent = turn[b].agent /\ t.phase = turn[b].phase /\ (t.hidden <=> turn[b].hidden)
<1>3. ASSUME SameTold, t.run = 0 \/ Same PROVE ToldInv'
  BY <1>1, <1>3, ToldSteps
<1>4. ASSUME MovesOn(b), SameTold PROVE ToldInv'
  <2>1. /\ ~turn[b].hidden /\ t.phase = "starting" /\ t.run = turn[b].run /\ t.agent = turn[b].agent + 1
    BY <1>1, <1>4 DEF MovesOn, Idle
  <2>2. turn[b].agent \in Nat /\ TurnTold(turn[b])
    BY <1>1, RoutinesAssumption DEF Turn, ToldInv
  <2>3. t.run # 0 => hist[t.run].instructed \subseteq 1..(t.agent - 1)
    BY <2>1, <2>2 DEF TurnTold
  <2> QED
    BY <1>1, <1>4, <2>1, <2>3, ToldSteps
<1>5. ASSUME turn' = [turn EXCEPT ![b] = Idle] PROVE t.run = 0
  BY <1>1, <1>2, <1>5
<1>6. TypeOK
  BY DEF IInv
<1>7. CASE HandleCommand(b)
  <2>1. t = turn[b] \/ t = [turn[b] EXCEPT !.stop = turn[b].phase # "idle"] \/ t = Idle
    BY <1>1, <1>7 DEF HandleCommand
  <2>2. t.run = 0 \/ Same
    BY <1>1, <1>2, <2>1 DEF Turn
  <2> QED
    BY <1>3, <1>7, <2>2, SameToldSame DEF HandleCommand
<1>8. CASE BeginUserTurn(b)
  <2>1. t.run = 0
    BY <1>1, <1>8 DEF BeginUserTurn, Idle
  <2> QED
    BY <1>3, <1>8, <2>1, SameToldSame DEF BeginUserTurn
<1>9. CASE BeginRun(b)
  <2> DEFINE i == Head(queue[b])
  <2>1. t.phase = "starting" /\ t.run = i /\ t.agent = 1
    BY <1>1, <1>9 DEF BeginRun, Idle
  <2>2. i \in RunId
    BY <1>9, NextRun DEF BeginRun
  <2>3. hist[i].instructed = {}
    BY <1>9, <2>2 DEF BeginRun, ToldInv, Unstarted
  <2> QED
    BY <1>1, <1>9, <2>1, <2>3, ToldSteps, SameToldSame DEF BeginRun
<1>10. CASE DropRun(b)
  BY <1>1, <1>3, <1>10, SameToldSame DEF DropRun
<1>11. CASE BeginFails(b)
  <2>1. Head(queue[b]) \in RunId /\ Same
    BY <1>1, <1>11, NextRun DEF BeginFails
  <2>2. SameTold
    BY <1>6, <1>11, <2>1, FinishRunHist, SameToldSame DEF BeginFails
  <2> QED
    BY <1>3, <2>1, <2>2
<1>12. CASE MarkStarted(b)
  <2> DEFINE i == turn[b].run
  <2>1. /\ turn[b].phase = "starting" /\ t = [turn[b] EXCEPT !.phase = "marked"]
        /\ Save([runs EXCEPT ![i].status = "running"]) /\ created' = created /\ UNCHANGED hist
    BY <1>1, <1>12 DEF MarkStarted
  <2>2. i \in RunId /\ i <= created
    BY <1>1, <2>1, ActorFacts DEF InOrder
  <2>3. ~Unstarted(i)'
    <3>1. runs \in [RunId -> Run] /\ created \in Nat /\ i \in Nat
      BY <1>6, <2>2, RoutinesAssumption DEF TypeOK, RunId
    <3>2. runs'[i].status = "running"
      <4> DEFINE log == [runs EXCEPT ![i].status = "running"]
      <4>1. log \in [RunId -> Run] /\ log[i].status = "running"
        BY <2>2, <3>1 DEF Run, Active
      <4>2. runs' = Prune(log)
        BY <2>1 DEF Save
      <4> HIDE DEF log
      <4> QED
        BY <2>2, <4>1, <4>2, PruneKeeps DEF IsActive, Active
    <3> QED
      BY <2>1, <2>2, <3>1, <3>2 DEF Unstarted
  <2>4. /\ t.phase = "marked" /\ t.run = i /\ t.agent = turn[b].agent /\ (t.hidden <=> turn[b].hidden)
    BY <1>1, <2>1 DEF Turn
  <2>5. SameTold
    BY <2>1, SameToldSame
  <2> QED
    BY <1>1, <2>1, <2>3, <2>4, <2>5, ToldSteps
<1>13. CASE Prompt(b)
  BY <1>13, PromptTold
<1>14. CASE StartFails(b)
  <2>1. turn[b].run \in RunId
    BY <1>1, <1>14, ActorFacts DEF StartFails, InOrder
  <2>2. CASE MovesOn(b) /\ UNCHANGED hist
    BY <1>4, <2>2, SameToldSame
  <2>3. CASE (\E late \in BOOLEAN : FinishRun(b, turn[b].run, "failed", late, acted)) /\ turn' = [turn EXCEPT ![b] = Idle]
    BY <1>3, <1>5, <1>6, <2>1, <2>3, FinishRunHist
  <2> QED
    BY <1>14, <2>2, <2>3 DEF StartFails
<1>15. CASE SessionLost(b)
  <2>1. turn[b].run \in RunId
    BY <1>1, <1>15, ActorFacts DEF SessionLost, InOrder
  <2> QED
    BY <1>3, <1>5, <1>6, <1>15, <2>1, FinishRunHist DEF SessionLost
<1>16. CASE TakeUpdate(b)
  <2>1. Same
    BY <1>1, <1>16 DEF TakeUpdate, Turn
  <2> QED
    BY <1>3, <1>16, <2>1, SameToldSame DEF TakeUpdate
<1>17. CASE KillAgent(b)
  <2>1. Same
    BY <1>1, <1>17 DEF KillAgent, Turn
  <2> QED
    BY <1>3, <1>17, <2>1, SameToldSame DEF KillAgent
<1>18. CASE TurnDone(b)
  <2>1. CASE turn' = [turn EXCEPT ![b] = Idle] /\ UNCHANGED hist
    BY <1>3, <1>5, <2>1, SameToldSame
  <2>2. CASE MovesOn(b) /\ UNCHANGED hist
    BY <1>4, <2>2, SameToldSame
  <2>3. CASE turn[b].run # 0 /\ (\E status \in Finished : FinishRun(b, turn[b].run, status, turn[b].late, Drained(b)))
             /\ turn' = [turn EXCEPT ![b] = Idle]
    <3>1. turn[b].run \in RunId
      BY <2>3, ActorFacts
    <3> QED
      BY <1>3, <1>5, <1>6, <2>3, <3>1, FinishRunHist
  <2> QED
    BY <1>18, <2>1, <2>2, <2>3 DEF TurnDone, Finished
<1>19. CASE RetryCompletion(b)
  <2>1. completion[b].run \in RunId
    BY <1>1, <1>19, ActorFacts DEF RetryCompletion, InOrder
  <2> QED
    BY <1>1, <1>3, <1>6, <1>19, <2>1, RecordOutcomeHist DEF RetryCompletion
<1>20. CASE AgentActs(b)
  <2>1. Same
    BY <1>1, <1>20 DEF AgentActs, Turn
  <2> QED
    BY <1>3, <1>20, <2>1, SameToldSame DEF AgentActs
<1>21. CASE AgentEnds(b, "ok") \/ AgentEnds(b, "err")
  <2>1. Same
    BY <1>1, <1>21 DEF AgentEnds, Turn
  <2> QED
    BY <1>3, <1>21, <2>1, SameToldSame DEF AgentEnds
<1> QED
  BY <1>7, <1>8, <1>9, <1>10, <1>11, <1>12, <1>13, <1>14, <1>15, <1>16, <1>17, <1>18, <1>19, <1>20, <1>21
  DEF ActorStep, AgentStep

LEMMA RestartTold ==
  ASSUME IInv, Allowed, ToldInv, NEW back, Restart(back)
  PROVE  ToldInv'
<1>1. SameTold /\ UNCHANGED hist
  BY SameToldSame DEF Restart
<1>2. \A i \in RunId : Unstarted(i)' => hist'[i].instructed = {}
  BY <1>1, UnstartedBefore DEF ToldInv
<1>3. ASSUME NEW b \in Bot PROVE TurnTold(turn[b])'
  <2>1. turn'[b].run = 0 \/ turn'[b].hidden
    BY DEF Restart, Idle
  <2> QED
    BY <2>1 DEF TurnTold
<1>4. InstructedOnce'
  BY <1>1 DEF ToldInv, InstructedOnce
<1> QED
  BY <1>2, <1>3, <1>4 DEF ToldInv

LEMMA ToldKept ==
  ASSUME IInv, ToldInv, [Next]_vars
  PROVE  ToldInv'
<1>1. IInv' /\ Allowed
  BY NextKeeps
<1>2. CASE Request \/ Clock \/ Tick \/ StopScheduler \/ UNCHANGED vars
  <2>1. UNCHANGED <<turn, hist>>
    BY <1>2, OutsideKeeps DEF vars
  <2>2. \A i \in RunId : Unstarted(i)' => hist'[i].instructed = {}
    BY <1>1, <2>1, UnstartedBefore DEF ToldInv
  <2>3. ASSUME NEW b \in Bot PROVE TurnTold(turn[b])'
    <3>1. TurnTold(turn[b]) /\ (turn[b].run # 0 => turn[b].run \in RunId)
      BY ActorFacts DEF ToldInv
    <3> QED
      BY <1>1, <2>1, <3>1, UnstartedBefore DEF TurnTold
  <2> QED
    BY <2>1, <2>2, <2>3 DEF ToldInv, InstructedOnce
<1>3. CASE \E b \in Bot : ActorStep(b) \/ AgentStep(b)
  BY <1>1, <1>3, ActorTold
<1>4. CASE \E back : Restart(back)
  BY <1>1, <1>4, RestartTold
<1> QED
  BY <1>2, <1>3, <1>4 DEF Next

\* No agent is ever given the same run's instruction twice: of a chain's agents only those
\* before a turn's own were told, a run whose start is not saved told nobody, and a restart
\* resumes one whose start is (hidden) or leaves it to start as if new.
THEOREM ToldOnce == Spec => []InstructedOnce
<1>1. Init => IInv /\ ToldInv
  <2>1. ASSUME Init PROVE ToldInv
    BY <2>1 DEF Init, ToldInv, TurnTold, InstructedOnce, Idle
  <2> QED
    BY <2>1, InitInv
<1>2. IInv /\ ToldInv /\ [Next]_vars => ToldInv'
  BY ToldKept
<1>3. ToldInv => InstructedOnce
  BY DEF ToldInv
<1> QED
  BY <1>1, <1>2, <1>3, Invariant, PTL DEF Spec

-----------------------------------------------------------------------------
(* A reservation returns. *)

Ordered(b) == \E k \in 1..Len(mailbox[b]) : mailbox[b][k].cmd = "routine"
Queued(b) == \E k \in 1..Len(queue[b]) : queue[b][k] # 0

\* The inductive invariant behind ReservationsReturn.
ReservedInv ==
  /\ \A b \in active : Ordered(b) \/ Queued(b) \/ RunsRoutine(b) \/ completion[b] # NoCompletion
  /\ active \cap gone = {}
  /\ \A b \in Bot : \A k \in 1..Len(mailbox[b]) : mailbox[b][k].cmd = "routine" => mailbox[b][k].run # 0

\* Routine commands name a run, and the ones of other bots stay.
MailKept ==
  \A b \in Bot : \A k \in 1..Len(mailbox'[b]) : mailbox'[b][k].cmd = "routine" => mailbox'[b][k].run # 0

LEMMA SentMail ==
  ASSUME IInv, ReservedInv, NEW b \in Bot, NEW cmd, NEW i \in 0..MaxRuns, SendTo(b, cmd, i),
         [cmd |-> cmd, run |-> i] \in Command, cmd = "routine" => i # 0
  PROVE  /\ MailKept
         /\ \A a \in Bot : Ordered(a) => Ordered(a)'
         /\ cmd = "routine" => Ordered(b)'
<1>1. mailbox \in [Bot -> Seq(Command)]
  BY DEF IInv, TypeOK
<1> DEFINE sent == [cmd |-> cmd, run |-> i]
<1>2. /\ mailbox'[b] = Append(mailbox[b], sent)
      /\ \A a \in Bot : a # b => mailbox'[a] = mailbox[a]
  BY <1>1 DEF SendTo
<1>3. PICK s \in Seq(Command) : s = mailbox[b]
  BY <1>1
<1>4. PICK x \in Command : x = sent
  OBVIOUS
<1>5. /\ Len(Append(s, x)) = Len(s) + 1 /\ Append(s, x)[Len(s) + 1] = x /\ Len(s) \in Nat
      /\ \A k \in 1..Len(s) : Append(s, x)[k] = s[k]
  OBVIOUS
<1>6. x.cmd = cmd /\ x.run = i
  BY <1>4
<1>7. \A k \in 1..Len(mailbox'[b]) : mailbox'[b][k].cmd = "routine" => mailbox'[b][k].run # 0
  BY <1>2, <1>3, <1>4, <1>5, <1>6 DEF ReservedInv
<1>8. Ordered(b) => Ordered(b)'
  BY <1>2, <1>3, <1>4, <1>5 DEF Ordered
<1>9. cmd = "routine" => Ordered(b)'
  BY <1>2, <1>3, <1>4, <1>5, <1>6 DEF Ordered
<1>10. MailKept
  BY <1>2, <1>7 DEF ReservedInv, MailKept
<1> QED
  BY <1>2, <1>8, <1>9, <1>10 DEF Ordered

LEMMA OutsideReserved ==
  ASSUME IInv, ReservedInv, Request \/ Clock \/ Tick \/ StopScheduler
  PROVE  ReservedInv'
<1>1. UNCHANGED <<queue, turn, completion>>
  BY OutsideKeeps
<1>2. CASE UNCHANGED <<mailbox, active, gone>>
  BY <1>1, <1>2 DEF ReservedInv, Ordered, Queued, RunsRoutine
<1>3. ASSUME NEW b \in Bot, active' = active \ {b}, gone' = gone \cup {b}, \A a \in Bot : Ordered(a) => Ordered(a)', MailKept
      PROVE  ReservedInv'
  BY <1>1, <1>3 DEF ReservedInv, Queued, RunsRoutine, MailKept, IInv, TypeOK
<1>4. CASE \E b \in Bot : UserSends(b, "send") \/ UserSends(b, "stop")
  <2>1. PICK b \in Bot : UserSends(b, "send") \/ UserSends(b, "stop")
    BY <1>4
  <2>2. PICK cmd \in {"send", "stop"} : SendTo(b, cmd, 0) /\ UNCHANGED <<active, gone>>
    BY <2>1 DEF UserSends, hostVars
  <2>3. [cmd |-> cmd, run |-> 0] \in Command /\ 0 \in 0..MaxRuns
    BY RoutinesAssumption DEF Command
  <2>4. MailKept /\ \A a \in Bot : Ordered(a) => Ordered(a)'
    BY <2>2, <2>3, SentMail
  <2> QED
    BY <1>1, <2>2, <2>4 DEF ReservedInv, Queued, RunsRoutine, MailKept, IInv, TypeOK
<1>5. CASE \E b \in Bot : DeleteBot(b)
  <2>1. PICK b \in Bot : DeleteBot(b)
    BY <1>5
  <2>2. SendTo(b, "shutdown", 0) /\ active' = active \ {b} /\ gone' = gone \cup {b}
    BY <2>1 DEF DeleteBot, DisableBot
  <2>3. [cmd |-> "shutdown", run |-> 0] \in Command /\ 0 \in 0..MaxRuns
    BY RoutinesAssumption DEF Command
  <2>4. MailKept /\ \A a \in Bot : Ordered(a) => Ordered(a)'
    BY <2>2, <2>3, SentMail
  <2> QED
    BY <1>3, <2>2, <2>4
<1>6. CASE Dispatch
  <2>1. PICK i \in due : LET b == BotOf(runs[i]) IN
          \/ DisableBot(b) /\ UNCHANGED mailbox
          \/ b \notin gone /\ active' = active \cup {b} /\ SendTo(b, "routine", i)
          \/ UNCHANGED <<active, mailbox>>
    BY <1>6 DEF Dispatch
  <2>2. i \in RunId /\ i # 0 /\ i \in 0..MaxRuns /\ BotOf(runs[i]) \in Bot /\ UNCHANGED gone
    <3>1. i \in RunId /\ runs \in [RunId -> Run] /\ UNCHANGED gone
      BY <1>6 DEF IInv, TypeOK, Dispatch
    <3> QED
      BY <3>1, RoutinesAssumption DEF RunId, BotOf, Run
  <2>3. PICK b \in Bot : b = BotOf(runs[i])
    BY <2>2
  <2>4. CASE DisableBot(b) /\ UNCHANGED mailbox
    BY <1>1, <2>2, <2>4 DEF DisableBot, ReservedInv, Ordered, Queued, RunsRoutine
  <2>5. CASE b \notin gone /\ active' = active \cup {b} /\ SendTo(b, "routine", i)
    <3>1. [cmd |-> "routine", run |-> i] \in Command
      BY <2>2 DEF Command
    <3>2. MailKept /\ Ordered(b)' /\ \A a \in Bot : Ordered(a) => Ordered(a)'
      BY <2>2, <2>5, <3>1, SentMail
    <3> QED
      BY <1>1, <2>2, <2>5, <3>2 DEF ReservedInv, Queued, RunsRoutine, MailKept, IInv, TypeOK
  <2>6. CASE UNCHANGED <<active, mailbox>>
    BY <1>2, <2>2, <2>6
  <2> QED
    BY <2>1, <2>3, <2>4, <2>5, <2>6
<1>7. ASSUME RequestFrame \/ LogFrame PROVE UNCHANGED <<mailbox, active, gone>>
  BY <1>7 DEF RequestFrame, LogFrame, hostVars, actorVars
<1>8. CASE \E r \in Routine : \E on \in BOOLEAN, wake \in {"none", "later", "now"} :
             SaveRoutine(r, on, wake) \/ SetEnabled(r, on, wake)
  BY <1>2, <1>7, <1>8 DEF SaveRoutine, SetEnabled
<1>9. CASE \/ \E r \in Routine : Remove(r) \/ RunNow(r)
           \/ \E r \in Routine, d \in Delivery : Receive(r, d)
           \/ \E i \in RunId : Retry(i)
  BY <1>2, <1>7, <1>9 DEF Remove, RunNow, Receive, Retry
<1>10. CASE Clock \/ StopScheduler \/ Snapshot
  BY <1>2, <1>10 DEF Clock, WakeArrives, RetryTimeArrives, StopScheduler, Snapshot, hostVars, actorVars, logVars
<1>11. CASE \E r \in Routine : ScheduleDue(r) \/ ScheduleInvalid(r)
  BY <1>2, <1>7, <1>11 DEF ScheduleDue, ScheduleInvalid
<1> QED
  BY <1>4, <1>5, <1>6, <1>8, <1>9, <1>10, <1>11 DEF Request, Tick

\* A step of b's actor keeps what is on its way to b, or releases b, or leaves b the
\* turn or the outcome whose end releases it.
LEMMA ReservedSteps ==
  ASSUME ReservedInv, NEW b \in Bot, gone' = gone, active' \subseteq active,
         \A a \in Bot : a # b => UNCHANGED <<mailbox[a], queue[a], turn[a], completion[a]>>,
         b \in active' => Ordered(b)' \/ Queued(b)' \/ RunsRoutine(b)' \/ (completion[b] # NoCompletion)',
         \A k \in 1..Len(mailbox'[b]) : mailbox'[b][k].cmd = "routine" => mailbox'[b][k].run # 0,
         active \subseteq Bot
  PROVE  ReservedInv'
  BY DEF ReservedInv, Ordered, Queued, RunsRoutine

LEMMA PoppedWay ==
  ASSUME IInv, NEW b \in Bot, queue[b] # <<>>, PopQueue(b)
  PROVE  /\ Head(queue[b]) = 0 /\ Queued(b) => Queued(b)'
         /\ \A a \in Bot : a # b => queue'[a] = queue[a]
<1>1. queue \in [Bot -> Seq(0..MaxRuns)] /\ queue' = [queue EXCEPT ![b] = Tail(queue[b])]
  BY DEF IInv, TypeOK, PopQueue
<1>2. PICK s \in Seq(0..MaxRuns) : s = queue[b]
  BY <1>1
<1>3. /\ Head(s) = s[1] /\ Len(s) \in Nat /\ Len(Tail(s)) = Len(s) - 1
      /\ \A k \in 1..Len(Tail(s)) : Tail(s)[k] = s[k + 1]
  BY <1>2, TailDrops
<1>4. queue'[b] = Tail(s)
  BY <1>1, <1>2
<1>5. ASSUME Head(s) = 0, NEW k \in 1..Len(s), s[k] # 0
      PROVE  k - 1 \in 1..Len(queue'[b]) /\ queue'[b][k - 1] # 0
  <2>1. k # 1
    BY <1>3, <1>5
  <2>2. k - 1 \in 1..Len(Tail(s)) /\ (k - 1) + 1 = k
    BY <1>3, <2>1
  <2> QED
    BY <1>3, <1>4, <1>5, <2>2
<1> QED
  BY <1>1, <1>2, <1>5 DEF Queued

LEMMA FinishWay ==
  ASSUME IInv, NEW b \in Bot, NEW i \in RunId, NEW status, NEW late, NEW seen, FinishRun(b, i, status, late, seen)
  PROVE  /\ active' \subseteq active
         /\ b \in active' => (completion[b] # NoCompletion)'
<1>1. i # 0 /\ completion \in [Bot -> Completion]
  BY RoutinesAssumption DEF RunId, IInv, TypeOK
<1> QED
  BY <1>1 DEF FinishRun, Released, NoCompletion

LEMMA HandleCommandReserved ==
  ASSUME IInv, IInv', ReservedInv, NEW b \in Bot, HandleCommand(b)
  PROVE  ReservedInv'
<1> DEFINE cmd == Head(mailbox[b])
<1>1. /\ mailbox \in [Bot -> Seq(Command)] /\ queue \in [Bot -> Seq(0..MaxRuns)] /\ active \subseteq Bot
      /\ turn \in [Bot -> Turn] /\ completion \in [Bot -> Completion]
  BY DEF IInv, TypeOK
<1>2. PICK s \in Seq(Command) : s = mailbox[b] /\ s # <<>>
  BY <1>1 DEF HandleCommand
<1>3. /\ cmd = s[1] /\ cmd \in Command /\ Len(s) \in Nat /\ Len(Tail(s)) = Len(s) - 1 /\ 1 \in 1..Len(s)
      /\ \A k \in 1..Len(Tail(s)) : k + 1 \in 1..Len(s) /\ Tail(s)[k] = s[k + 1]
  BY <1>2, TailDrops
<1>4. /\ mailbox' = [mailbox EXCEPT ![b] = IF cmd.cmd = "shutdown" THEN <<>> ELSE Tail(s)]
      /\ gone' = gone
  BY <1>2 DEF HandleCommand, ActorFrame
<1>5. \A k \in 1..Len(s) : /\ s[k].cmd = "routine" => s[k].run # 0
                           /\ s[k].cmd = "shutdown" => b \in gone
  BY <1>2 DEF ReservedInv, IInv, GoneIsEmpty
<1>6. \A a \in Bot : a # b => UNCHANGED <<mailbox[a], queue[a], turn[a], completion[a]>>
  <2>1. \A a \in Bot : a # b => mailbox'[a] = mailbox[a] /\ queue'[a] = queue[a]
    BY <1>1, <1>4 DEF HandleCommand
  <2>2. \A a \in Bot : a # b => turn'[a] = turn[a] /\ completion'[a] = completion[a]
    BY TurnsOnly DEF ActorStep
  <2> QED
    BY <2>1, <2>2
<1>7. \A k \in 1..Len(mailbox'[b]) : mailbox'[b][k].cmd = "routine" => mailbox'[b][k].run # 0
  <2>1. CASE mailbox'[b] = Tail(s)
    BY <1>3, <1>5, <2>1
  <2>2. CASE mailbox'[b] = <<>>
    BY <2>2
  <2> QED
    BY <1>1, <1>4, <2>1, <2>2
<1>8. CASE cmd.cmd \in {"routine", "send"}
  <2>1. /\ queue' = [queue EXCEPT ![b] = Append(queue[b], cmd.run)] /\ UNCHANGED <<active, turn, completion>>
        /\ mailbox'[b] = Tail(s)
    BY <1>1, <1>4, <1>8 DEF HandleCommand
  <2>2. cmd.run \in 0..MaxRuns
    BY <1>3 DEF Command
  <2>3. PICK q \in Seq(0..MaxRuns) : q = queue[b]
    BY <1>1
  <2>4. PICK x \in 0..MaxRuns : x = cmd.run
    BY <2>2
  <2>5. /\ Len(q) \in Nat /\ Len(Append(q, x)) = Len(q) + 1 /\ Append(q, x)[Len(q) + 1] = x
        /\ \A k \in 1..Len(q) : Append(q, x)[k] = q[k]
    OBVIOUS
  <2>6. queue'[b] = Append(q, x)
    BY <1>1, <2>1, <2>3, <2>4
  <2>7. Queued(b) => Queued(b)'
    BY <2>3, <2>5, <2>6 DEF Queued
  <2>8. Ordered(b) => Ordered(b)' \/ Queued(b)'
    <3>1. CASE cmd.cmd = "routine"
      <4>1. x # 0
        BY <1>3, <1>5, <2>4, <3>1
      <4> QED
        BY <2>5, <2>6, <4>1 DEF Queued
    <3>2. CASE cmd.cmd # "routine"
      <4>1. ASSUME NEW k \in 1..Len(s), s[k].cmd = "routine"
            PROVE  k - 1 \in 1..Len(mailbox'[b]) /\ mailbox'[b][k - 1].cmd = "routine"
        <5>1. k # 1
          BY <1>3, <3>2, <4>1
        <5>2. k - 1 \in 1..Len(Tail(s)) /\ (k - 1) + 1 = k
          BY <1>3, <5>1
        <5> QED
          BY <1>3, <2>1, <4>1, <5>2
      <4> QED
        BY <1>2, <4>1 DEF Ordered
    <3> QED
      BY <3>1, <3>2
  <2>9. RunsRoutine(b)' <=> RunsRoutine(b)
    BY <2>1 DEF RunsRoutine
  <2> QED
    BY <1>1, <1>4, <1>6, <1>7, <2>1, <2>7, <2>8, <2>9, ReservedSteps DEF ReservedInv
<1>9. CASE cmd.cmd = "stop"
  <2>1. active' = AfterStop(b) /\ turn'[b].run = turn[b].run
    BY <1>1, <1>9 DEF HandleCommand, Turn
  <2>2. active' \subseteq active /\ (b \in active' => RunsRoutine(b)')
    BY <2>1 DEF AfterStop, Released, RunsRoutine
  <2> QED
    BY <1>1, <1>4, <1>6, <1>7, <2>2, ReservedSteps
<1>10. CASE cmd.cmd = "shutdown"
  <2>1. active' = active /\ b \notin active
    BY <1>2, <1>3, <1>5, <1>10 DEF HandleCommand, ReservedInv
  <2> QED
    BY <1>1, <1>4, <1>6, <1>7, <2>1, ReservedSteps
<1> QED
  BY <1>8, <1>9, <1>10 DEF HandleCommand

LEMMA ActorReserved ==
  ASSUME IInv, IInv', ReservedInv, NEW b \in Bot, ActorStep(b) \/ AgentStep(b)
  PROVE  ReservedInv'
<1>1. /\ turn'[b] \in Turn /\ turn[b] \in Turn /\ InOrder(turn[b], completion[b])
      /\ turn \in [Bot -> Turn] /\ completion \in [Bot -> Completion] /\ active \subseteq Bot
      /\ \A a \in Bot : a # b => turn'[a] = turn[a] /\ completion'[a] = completion[a]
  BY TurnsOnly DEF IInv, TypeOK
<1> DEFINE Way == Ordered(b)' \/ Queued(b)' \/ RunsRoutine(b)' \/ (completion[b] # NoCompletion)'
<1>2. ASSUME UNCHANGED <<mailbox, gone>>, UNCHANGED queue \/ (queue[b] # <<>> /\ PopQueue(b)),
             active' \subseteq active, b \in active' => Way
      PROVE  ReservedInv'
  BY <1>1, <1>2, PoppedWay, ReservedSteps DEF ReservedInv
\* What only changes the turn of the same run.
<1>3. ASSUME UNCHANGED <<mailbox, queue, active, completion, gone>>,
             turn'[b].run = turn[b].run
      PROVE  ReservedInv'
  BY <1>2, <1>3 DEF ReservedInv, Ordered, Queued, RunsRoutine
<1>4. CASE HandleCommand(b)
  BY <1>4, HandleCommandReserved
<1>5. CASE BeginUserTurn(b)
  <2>1. Queued(b) => Queued(b)'
    BY <1>5, PoppedWay DEF BeginUserTurn
  <2>2. ~RunsRoutine(b) /\ completion[b] = NoCompletion
    BY <1>5 DEF BeginUserTurn, Free, RunsRoutine, Idle
  <2>3. Ordered(b) => Ordered(b)'
    BY <1>5 DEF BeginUserTurn, Ordered
  <2> QED
    BY <1>2, <1>5, <2>1, <2>2, <2>3 DEF BeginUserTurn, ActorFrame, ReservedInv
<1>6. CASE BeginRun(b)
  <2>1. RunsRoutine(b)' /\ queue[b] # <<>>
    BY <1>1, <1>6 DEF BeginRun, NextIsRoutine, RunsRoutine, Idle
  <2> QED
    BY <1>2, <1>6, <2>1 DEF BeginRun, ActorFrame
<1>7. CASE DropRun(b)
  <2>1. b \notin active' /\ active' \subseteq active /\ queue[b] # <<>>
    BY <1>7 DEF DropRun, NextIsRoutine, Released
  <2> QED
    BY <1>2, <1>7, <2>1 DEF DropRun, ActorFrame
<1>8. CASE BeginFails(b)
  <2>1. Head(queue[b]) \in RunId /\ Head(queue[b]) # 0 /\ queue[b] # <<>>
    BY <1>8, NextRun DEF BeginFails, NextIsRoutine
  <2>2. active' \subseteq active /\ (b \in active' => (completion[b] # NoCompletion)')
    <3>1. CASE FinishRun(b, Head(queue[b]), "failed", FALSE, acted)
      BY <2>1, <3>1, FinishWay
    <3>2. CASE /\ completion' = [completion EXCEPT ![b] = [run |-> Head(queue[b]), status |-> "failed", late |-> FALSE]]
               /\ UNCHANGED active
      BY <1>1, <2>1, <3>2 DEF NoCompletion
    <3> QED
      BY <1>8, <3>1, <3>2 DEF BeginFails
  <2> QED
    BY <1>2, <1>8, <2>1, <2>2 DEF BeginFails, ActorFrame
<1>9. CASE MarkStarted(b) \/ Prompt(b)
  <2>1. turn'[b].run = turn[b].run
    BY <1>1, <1>9 DEF MarkStarted, Prompt, Turn
  <2> QED
    BY <1>3, <1>9, <2>1 DEF MarkStarted, Prompt, ActorFrame
<1>10. ASSUME MovesOn(b) PROVE turn'[b].run = turn[b].run
  BY <1>1, <1>10 DEF MovesOn, Idle
<1>11. CASE StartFails(b)
  <2>1. turn[b].run \in RunId
    BY <1>1, <1>11, ActorFacts DEF StartFails, InOrder
  <2>2. CASE MovesOn(b) /\ UNCHANGED <<active, completion>>
    BY <1>3, <1>10, <1>11, <2>2 DEF StartFails, ActorFrame
  <2>3. CASE \E late \in BOOLEAN : FinishRun(b, turn[b].run, "failed", late, acted)
    BY <1>2, <1>11, <2>1, <2>3, FinishWay DEF StartFails, ActorFrame
  <2> QED
    BY <1>11, <2>2, <2>3 DEF StartFails
<1>12. CASE SessionLost(b)
  <2>1. turn[b].run \in RunId
    BY <1>1, <1>12, ActorFacts DEF SessionLost, InOrder
  <2> QED
    BY <1>2, <1>12, <2>1, FinishWay DEF SessionLost, ActorFrame
<1>13. CASE TakeUpdate(b) \/ KillAgent(b)
  <2>1. turn'[b].run = turn[b].run
    <3>1. CASE TakeUpdate(b)
      BY <1>1, <3>1 DEF TakeUpdate, Turn
    <3>2. CASE KillAgent(b)
      BY <1>1, <3>2 DEF KillAgent, Turn
    <3> QED
      BY <1>13, <3>1, <3>2
  <2> QED
    BY <1>3, <1>13, <2>1 DEF TakeUpdate, KillAgent, ActorFrame
<1>14. CASE TurnDone(b)
  <2>1. UNCHANGED <<mailbox, queue, gone>>
    BY <1>14 DEF TurnDone, ActorFrame
  <2>2. CASE turn[b].run = 0 /\ turn' = [turn EXCEPT ![b] = Idle] /\ UNCHANGED <<active, completion>>
    <3>1. turn'[b].run = turn[b].run
      BY <1>1, <2>2 DEF Idle
    <3> QED
      BY <1>3, <2>1, <2>2, <3>1
  <2>3. CASE MovesOn(b) /\ UNCHANGED <<active, completion>>
    BY <1>3, <1>10, <2>1, <2>3
  <2>4. CASE turn[b].run # 0 /\ (\E status \in Finished : FinishRun(b, turn[b].run, status, turn[b].late, Drained(b)))
    <3>1. turn[b].run \in RunId
      BY <2>4, ActorFacts
    <3> QED
      BY <1>2, <2>1, <2>4, <3>1, FinishWay
  <2> QED
    BY <1>14, <2>2, <2>3, <2>4 DEF TurnDone, Finished
<1>15. CASE RetryCompletion(b)
  BY <1>2, <1>15 DEF RetryCompletion, Released, ActorFrame
<1>16. CASE AgentActs(b) \/ AgentEnds(b, "ok") \/ AgentEnds(b, "err")
  <2>1. turn'[b].run = turn[b].run
    BY <1>1, <1>16 DEF AgentActs, AgentEnds, Turn
  <2> QED
    BY <1>3, <1>16, <2>1 DEF AgentActs, AgentEnds, ActorFrame
<1> QED
  BY <1>4, <1>5, <1>6, <1>7, <1>8, <1>9, <1>11, <1>12, <1>13, <1>14, <1>15, <1>16 DEF ActorStep, AgentStep

LEMMA RestartReserved ==
  ASSUME IInv, IInv', ReservedInv, NEW back, Restart(back)
  PROVE  ReservedInv'
<1> DEFINE log == [i \in RunId |-> Restored(runs[i])]
           recovering(b) == {i \in RunId : log[i].status = "recovering" /\ BotOf(log[i]) = b}
<1>1. /\ active' = {b \in Bot : recovering(b) # {}} /\ gone' = gone
      /\ mailbox' = [b \in Bot |-> <<>>]
      /\ turn' = [b \in Bot |->
           IF b \notin gone /\ recovering(b) # {}
           THEN [Idle EXCEPT !.phase = "starting", !.run = CHOOSE i \in recovering(b) : Oldest(i, recovering(b)), !.hidden = TRUE]
           ELSE IF b \in back THEN [Idle EXCEPT !.phase = "prompted"] ELSE Idle]
  BY DEF Restart
<1>2. ASSUME NEW b \in Bot, recovering(b) # {}
      PROVE  b \notin gone /\ turn'[b].run # 0
  <2>1. PICK i \in RunId : log[i].status = "recovering" /\ BotOf(log[i]) = b
    BY <1>2
  <2>2. IsActive(runs[i]) /\ BotOf(runs[i]) = b
    <3>1. runs[i] \in Run /\ Restored(runs[i]).status = "recovering" /\ BotOf(Restored(runs[i])) = b
      BY <2>1 DEF IInv, TypeOK
    <3>2. runs[i].status \in {"running", "recovering"}
      BY <3>1, RestoredKeeps
    <3>3. Restored(runs[i]).routine = runs[i].routine
      BY <3>1, RestoredKeeps
    <3> QED
      BY <3>1, <3>2, <3>3 DEF IsActive, Active, BotOf
  <2>3. b \notin gone
    BY <2>2 DEF IInv, GoneIsEmpty
  <2>4. turn'[b].phase = "starting"
    BY <1>1, <1>2, <2>3 DEF Idle
  <2> QED
    BY <2>3, <2>4 DEF IInv, ActorsInOrder
<1> HIDE DEF recovering
<1>3. \A b \in active' : b \notin gone' /\ RunsRoutine(b)'
  BY <1>1, <1>2 DEF RunsRoutine
<1>4. \A b \in Bot : Len(mailbox'[b]) = 0
  BY <1>1
<1> QED
  BY <1>3, <1>4 DEF ReservedInv

LEMMA ReservedKept ==
  ASSUME IInv, ReservedInv, [Next]_vars
  PROVE  ReservedInv'
<1>1. IInv'
  BY NextKeeps
<1>2. CASE Request \/ Clock \/ Tick \/ StopScheduler
  BY <1>2, OutsideReserved
<1>3. CASE \E b \in Bot : ActorStep(b) \/ AgentStep(b)
  BY <1>1, <1>3, ActorReserved
<1>4. CASE \E back : Restart(back)
  BY <1>1, <1>4, RestartReserved
<1>5. CASE UNCHANGED vars
  BY <1>5 DEF vars, ReservedInv, Ordered, Queued, RunsRoutine
<1> QED
  BY <1>2, <1>3, <1>4, <1>5 DEF Next

\* No reservation is leaked: a reserved bot is one whose run is ordered, queued, its
\* actor's turn, or an outcome to save, and each of these ends by releasing the bot or
\* hands over to the next; a deleted bot, whose actor forgets all four, is not reserved.
THEOREM ReservationsKept == Spec => []ReservationsReturn
<1>1. Init => ReservedInv
  BY DEF Init, ReservedInv
<1>2. IInv /\ ReservedInv /\ [Next]_vars => ReservedInv'
  BY ReservedKept
<1>3. ReservedInv => ReservationsReturn
  BY DEF ReservedInv, ReservationsReturn, Ordered, Queued
<1> QED
  BY <1>1, <1>2, <1>3, Invariant, PTL DEF Spec

-----------------------------------------------------------------------------
(* A retry repeats no work, as long as the host lives. *)

\* What an actor knows that keeps run j from being retried: the tool's update is on its
\* way or its turn was stopped, or the outcome kept is none that is retried.
TurnNotes(t, j) == t.run = j /\ (t.inflight \/ t.stop)
CompletionNotes(c, j) == c.run = j /\ (c.late \/ c.status \notin Failure)
Noted(j) == j \in acted \/ \E b \in Bot : TurnNotes(turn[b], j) \/ CompletionNotes(completion[b], j)

Redone == {j \in RunId : \E i \in RunId : j \in hist[i].redoes}
TurnCalm(t) == (t.inflight \/ t.stop \/ t.late => t.phase = "prompted") /\ (t.late => t.stop)

\* The inductive invariant behind NothingDoneTwice.
OnceInv ==
  /\ \A j \in used : j <= created /\ (IsActive(runs[j]) => Noted(j))
  /\ \A j \in Redone : /\ j <= created /\ ~IsActive(runs[j]) /\ j \notin used
                       /\ \A b \in Bot : turn[b].run # j
  /\ \A b \in Bot : TurnCalm(turn[b])

LEMMA OnceHolds == ASSUME IInv, OnceInv PROVE NothingDoneTwice
<1>1. \A i \in RunId : hist[i].redoes \subseteq Redone
  BY DEF IInv, TypeOK, Redone
<1> QED
  BY <1>1 DEF OnceInv, NothingDoneTwice

\* A step of b's actor in which the runs of U (its own or none) use a tool, and after
\* which the runs of R (one that just ended or none) are redone.
LEMMA OnceSteps ==
  ASSUME IInv, Allowed, OnceInv, NEW b \in Bot,
         \A a \in Bot : a # b => turn'[a] = turn[a] /\ completion'[a] = completion[a],
         acted \subseteq acted', TurnCalm(turn'[b]),
         NEW U \in SUBSET RunId, used' = used \cup U,
         \A j \in U : j <= created /\ j \notin Redone /\ TurnNotes(turn'[b], j),
         turn'[b].run \in {0, turn[b].run} \/ IsActive(runs[turn'[b].run]),
         NEW R \in SUBSET RunId, Redone' \subseteq Redone \cup R,
         \A j \in R : j <= created /\ ~IsActive(runs'[j]) /\ j \notin used' /\ \A a \in Bot : turn'[a].run # j,
         \A j \in used : IsActive(runs'[j]) /\ (TurnNotes(turn[b], j) \/ CompletionNotes(completion[b], j))
                           => j \in acted' \/ TurnNotes(turn'[b], j) \/ CompletionNotes(completion'[b], j)
  PROVE  OnceInv'
<1>1. created \in Nat /\ created' \in Nat /\ created <= created' /\ (\A j \in RunId : j \in Nat /\ j # 0) /\ used \subseteq RunId
  BY RoutinesAssumption DEF IInv, TypeOK, RunId, Allowed, LogMove
<1>2. \A j \in RunId : j <= created => (IsActive(runs'[j]) => IsActive(runs[j]))
  BY DEF Allowed, LogMove
<1>3. ASSUME NEW j \in used', IsActive(runs'[j]) PROVE Noted(j)'
  <2>1. CASE j \in U
    BY <2>1 DEF Noted
  <2>2. CASE j \in used
    <3>1. j \in RunId /\ j <= created
      BY <1>1, <2>2 DEF OnceInv
    <3>2. Noted(j)
      BY <1>2, <1>3, <2>2, <3>1 DEF OnceInv
    <3>3. CASE j \in acted
      BY <3>3 DEF Noted
    <3>4. CASE \E a \in Bot : a # b /\ (TurnNotes(turn[a], j) \/ CompletionNotes(completion[a], j))
      BY <3>4 DEF Noted
    <3>5. CASE TurnNotes(turn[b], j) \/ CompletionNotes(completion[b], j)
      BY <1>3, <2>2, <3>5 DEF Noted
    <3> QED
      BY <3>2, <3>3, <3>4, <3>5 DEF Noted
  <2> QED
    BY <2>1, <2>2
<1>4. \A j \in used' : j <= created'
  BY <1>1 DEF OnceInv
<1>5. ASSUME NEW j \in Redone'
      PROVE  j <= created' /\ ~IsActive(runs'[j]) /\ j \notin used' /\ \A a \in Bot : turn'[a].run # j
  <2>1. CASE j \in R
    BY <1>1, <2>1
  <2>2. CASE j \in Redone
    <3>1. j \in RunId /\ j <= created /\ ~IsActive(runs[j]) /\ j \notin used /\ \A a \in Bot : turn[a].run # j
      BY <2>2 DEF OnceInv, Redone
    <3>2. j <= created' /\ ~IsActive(runs'[j])
      BY <1>1, <1>2, <3>1
    <3>3. j \notin U
      BY <2>2
    <3>4. turn'[b].run # j
      BY <1>1, <3>1
    <3> QED
      BY <3>1, <3>2, <3>3, <3>4
  <2> QED
    BY <1>5, <2>1, <2>2
<1>6. \A a \in Bot : TurnCalm(turn'[a])
  BY DEF OnceInv
<1> QED
  BY <1>3, <1>4, <1>5, <1>6 DEF OnceInv, TurnCalm

LEMMA RedoneSame ==
  ASSUME \A j \in RunId : hist'[j].redoes = hist[j].redoes
  PROVE  Redone' = Redone
  BY DEF Redone

LEMMA RedoneOne ==
  ASSUME NEW i \in RunId, \A j \in RunId : hist'[j].redoes \subseteq hist[j].redoes \cup {i}
  PROVE  Redone' \subseteq Redone \cup {i}
  BY DEF Redone

LEMMA FinishOnce ==
  ASSUME IInv, IInv', Allowed, OnceInv, NEW b \in Bot, NEW i \in RunId, Named(b, i), \A j \in RunId : Holds(b, j) => j = i,
         NEW status \in Finished, NEW late \in BOOLEAN, NEW seen, FinishRun(b, i, status, late, seen),
         acted \subseteq acted', seen \subseteq acted', used' = used, turn'[b] = Idle,
         \A a \in Bot : a # b => turn'[a] = turn[a] /\ completion'[a] = completion[a],
         i \in used /\ IsActive(runs[i]) => i \in seen \/ late \/ status \notin Failure
  PROVE  OnceInv'
<1>1. /\ i <= created /\ BotOf(runs[i]) = b /\ TypeOK /\ Addressed /\ used \subseteq RunId
      /\ completion \in [Bot -> Completion] /\ i # 0
  <2>1. (\A j \in RunId : j # 0) /\ i <= created /\ BotOf(runs[i]) = b
    BY ActorFacts, RoutinesAssumption DEF RunId
  <2> QED
    BY <2>1 DEF IInv, TypeOK
<1>2. TurnCalm(Idle) /\ Idle.run = 0
  BY DEF Idle, TurnCalm
<1>3. \A j \in used : TurnNotes(turn[b], j) \/ CompletionNotes(completion[b], j) => j = i
  BY <1>1 DEF TurnNotes, CompletionNotes, Holds
<1>4. \A a \in Bot : turn'[a].run # i
  <2>1. ASSUME NEW a \in Bot, a # b, turn[a].run = i PROVE FALSE
    BY <1>1, <2>1, ActorFacts DEF Named, Holds
  <2> QED
    BY <1>1, <1>2, <2>1
<1>5. CASE RecordOutcome(i, status, late, seen) /\ completion' = [completion EXCEPT ![b] = NoCompletion]
  <2>1. ~IsActive(runs'[i])
    BY <1>1, <1>5, RecordOutcomeSettles
  <2>2. TurnCalm(turn'[b])
    BY <1>2
  <2>3. PICK R \in {{}, {i}} : Redone' \subseteq Redone \cup R /\ (R = {i} => i \notin used)
    <3>1. CASE \A j \in RunId : hist'[j].redoes = hist[j].redoes
      BY <3>1, RedoneSame
    <3>2. CASE /\ IsActive(runs[i]) /\ status \in Failure /\ ~late /\ i \notin seen
               /\ \A j \in RunId : hist'[j].redoes \subseteq hist[j].redoes \cup {i}
      <4>1. Redone' \subseteq Redone \cup {i}
        BY <3>2, RedoneOne
      <4> QED
        BY <3>2, <4>1
    <3> QED
      BY <1>1, <1>5, <3>1, <3>2, RecordOutcomeHist
  <2>4. R \in SUBSET RunId /\ \A j \in R : j = i
    BY <2>3
  <2>5. \A j \in R : j <= created /\ ~IsActive(runs'[j]) /\ j \notin used' /\ \A a \in Bot : turn'[a].run # j
    BY <1>1, <1>4, <2>1, <2>3, <2>4
  <2>6. PICK U \in SUBSET RunId : used' = used \cup U /\ \A j \in U : FALSE
    <3>1. {} \in SUBSET RunId /\ used' = used \cup {}
      OBVIOUS
    <3> QED
      BY <3>1
  <2>7. \A j \in used : ~(IsActive(runs'[j]) /\ (TurnNotes(turn[b], j) \/ CompletionNotes(completion[b], j)))
    BY <1>3, <2>1
  <2>8. turn'[b].run \in {0, turn[b].run}
    BY <1>2
  <2> QED
    BY <1>2, <2>2, <2>3, <2>4, <2>5, <2>6, <2>7, <2>8, OnceSteps
<1>6. CASE completion' = [completion EXCEPT ![b] = [run |-> i, status |-> status, late |-> late]] /\ UNCHANGED <<runs, hist>>
  <2> DEFINE c == [run |-> i, status |-> status, late |-> late]
  <2>1. completion'[b] = c
    BY <1>1, <1>6
  <2>2. i \in used /\ IsActive(runs'[i]) => i \in acted' \/ CompletionNotes(completion'[b], i)
    BY <1>6, <2>1 DEF CompletionNotes
  <2>3. \A j \in used : IsActive(runs'[j]) /\ (TurnNotes(turn[b], j) \/ CompletionNotes(completion[b], j))
                           => j \in acted' \/ CompletionNotes(completion'[b], j)
    BY <1>3, <2>2
  <2>4. Redone' = Redone
    BY <1>6, RedoneSame
  <2>5. {} \in SUBSET RunId /\ used' = used \cup {} /\ Redone' \subseteq Redone \cup {}
    BY <2>4
  <2>6. turn'[b].run \in {0, turn[b].run}
    BY <1>2
  <2> HIDE DEF c
  <2> QED
    BY <1>2, <2>1, <2>3, <2>5, <2>6, OnceSteps
<1> QED
  BY <1>5, <1>6 DEF FinishRun

\* A step of b's actor that ends, uses and redoes nothing.
LEMMA CalmSteps ==
  ASSUME IInv, Allowed, OnceInv, NEW b \in Bot,
         \A a \in Bot : a # b => turn'[a] = turn[a] /\ completion'[a] = completion[a],
         acted \subseteq acted', TurnCalm(turn'[b]), used' = used, hist' = hist,
         turn'[b].run \in {0, turn[b].run} \/ IsActive(runs[turn'[b].run]),
         \A j \in used : IsActive(runs'[j]) /\ (TurnNotes(turn[b], j) \/ CompletionNotes(completion[b], j))
                           => j \in acted' \/ TurnNotes(turn'[b], j) \/ CompletionNotes(completion'[b], j)
  PROVE  OnceInv'
<1>1. {} \in SUBSET RunId /\ used' = used \cup {} /\ Redone' \subseteq Redone \cup {}
  BY RedoneSame
<1> QED
  BY <1>1, OnceSteps

LEMMA NotedHere ==
  ASSUME IInv, OnceInv, NEW b \in Bot, NEW i \in RunId, Named(b, i), i \in used, IsActive(runs[i])
  PROVE  i \in acted \/ TurnNotes(turn[b], i) \/ CompletionNotes(completion[b], i)
<1>1. Noted(i)
  BY DEF OnceInv
<1>2. BotOf(runs[i]) = b
  BY ActorFacts
<1>3. ASSUME NEW a \in Bot, TurnNotes(turn[a], i) \/ CompletionNotes(completion[a], i) PROVE a = b
  BY <1>2, <1>3, ActorFacts DEF Named, Holds, TurnNotes, CompletionNotes
<1> QED
  BY <1>1, <1>3 DEF Noted

LEMMA ActorOnce ==
  ASSUME IInv, IInv', Allowed, OnceInv, NEW b \in Bot, ActorStep(b) \/ AgentStep(b)
  PROVE  OnceInv'
<1>1. /\ turn'[b] \in Turn /\ turn[b] \in Turn /\ InOrder(turn[b], completion[b])
      /\ turn \in [Bot -> Turn] /\ completion \in [Bot -> Completion]
      /\ \A a \in Bot : a # b => turn'[a] = turn[a] /\ completion'[a] = completion[a]
  BY TurnsOnly
<1>2. /\ Idle.run = 0 /\ TurnCalm(Idle) /\ TurnCalm([Idle EXCEPT !.phase = "prompted"])
      /\ \A j \in RunId : ~TurnNotes(Idle, j) /\ ~CompletionNotes(NoCompletion, j)
      /\ TurnCalm(turn[b]) /\ used \subseteq RunId /\ \A j \in RunId : j # 0
  <2>1. \A j \in RunId : j # 0
    BY RoutinesAssumption DEF RunId
  <2> QED
    BY <2>1 DEF Idle, NoCompletion, TurnNotes, CompletionNotes, TurnCalm, OnceInv, IInv, TypeOK
<1> DEFINE Keeps == \A j \in used : IsActive(runs'[j]) /\ (TurnNotes(turn[b], j) \/ CompletionNotes(completion[b], j))
                      => j \in acted' \/ TurnNotes(turn'[b], j) \/ CompletionNotes(completion'[b], j)
\* A step of a free actor, or one that changes nothing the turn or the outcome notes.
<1>3. ASSUME acted \subseteq acted', used' = used, hist' = hist, TurnCalm(turn'[b]),
             turn'[b].run \in {0, turn[b].run} \/ IsActive(runs[turn'[b].run]), Keeps
      PROVE  OnceInv'
  BY <1>1, <1>3, CalmSteps
<1>4. Free(b) => turn[b] = Idle /\ completion[b] = NoCompletion
  BY DEF Free
<1>5. \A i \in RunId : Named(b, i) /\ i \in used /\ IsActive(runs[i])
        => i \in acted \/ TurnNotes(turn[b], i) \/ CompletionNotes(completion[b], i)
  BY NotedHere
<1>6. ASSUME NEW i \in RunId, Named(b, i), \A j \in RunId : Holds(b, j) => j = i,
             NEW status \in Finished, NEW late \in BOOLEAN, NEW seen, FinishRun(b, i, status, late, seen),
             acted \subseteq acted', seen \subseteq acted', used' = used, turn'[b] = Idle,
             TurnNotes(turn[b], i) \/ CompletionNotes(completion[b], i) => i \in seen \/ late \/ status \notin Failure,
             acted \subseteq seen
      PROVE  OnceInv'
  BY <1>1, <1>5, <1>6, FinishOnce
\* A turn that goes on, on the next agent.
<1>7. ASSUME MovesOn(b), acted \subseteq acted', turn[b].inflight /\ turn[b].run \in used => turn[b].run \in acted',
             used' = used, UNCHANGED <<hist, completion>>
      PROVE  OnceInv'
  <2>1. turn'[b].run = turn[b].run /\ TurnCalm(turn'[b]) /\ ~turn[b].stop
    BY <1>1, <1>7 DEF MovesOn, Idle, TurnCalm
  <2>2. Keeps
    BY <1>1, <1>2, <1>7, <2>1 DEF TurnNotes
  <2> QED
    BY <1>3, <1>7, <2>1, <2>2
<1>8. CASE HandleCommand(b)
  <2> DEFINE cmd == Head(mailbox[b])
  <2>1. UNCHANGED <<acted, used, hist>> /\ turn[b].phase \in {"idle", "prompted"}
    BY <1>8 DEF HandleCommand, AtSelect
  <2>2. CASE UNCHANGED <<turn, completion>>
    BY <1>2, <1>3, <2>1, <2>2
  <2>3. CASE turn' = [turn EXCEPT ![b].stop = turn[b].phase # "idle"] /\ UNCHANGED completion
    <3>1. turn'[b] = [turn[b] EXCEPT !.stop = turn[b].phase # "idle"]
      BY <1>1, <2>3
    <3>2. /\ turn'[b].run = turn[b].run /\ turn'[b].phase = turn[b].phase
          /\ turn'[b].inflight <=> turn[b].inflight
          /\ turn'[b].late <=> turn[b].late
          /\ turn'[b].stop <=> turn[b].phase # "idle"
      BY <1>1, <3>1 DEF Turn
    <3>3. TurnCalm(turn'[b])
      BY <1>2, <2>1, <3>2 DEF TurnCalm
    <3>4. \A j \in used : TurnNotes(turn[b], j) => TurnNotes(turn'[b], j)
      BY <1>2, <3>2 DEF TurnNotes, TurnCalm
    <3> QED
      BY <1>2, <1>3, <2>1, <2>3, <3>2, <3>3, <3>4
  <2>4. CASE cmd.cmd = "shutdown" /\ turn' = [turn EXCEPT ![b] = Idle] /\ UNCHANGED <<runs, gone>>
    <3>1. b \in gone
      <4>1. mailbox[b] \in Seq(Command) /\ mailbox[b] # <<>>
        BY <1>8 DEF HandleCommand, IInv, TypeOK
      <4>2. 1 \in 1..Len(mailbox[b]) /\ cmd = mailbox[b][1]
        BY <4>1, TailDrops
      <4> QED
        BY <2>4, <4>2 DEF IInv, GoneIsEmpty
    <3>2. \A j \in RunId : Holds(b, j) => ~IsActive(runs'[j])
      BY <2>4, <3>1, ActorFacts DEF Named, IInv, GoneIsEmpty
    <3>3. \A j \in used : TurnNotes(turn[b], j) \/ CompletionNotes(completion[b], j) => ~IsActive(runs'[j])
      BY <1>2, <3>2 DEF Holds, TurnNotes, CompletionNotes
    <3>4. turn'[b] = Idle
      BY <1>1, <2>4
    <3> QED
      BY <1>2, <1>3, <2>1, <3>3, <3>4
  <2> QED
    BY <1>8, <2>2, <2>3, <2>4 DEF HandleCommand, ActorFrame
<1>9. CASE BeginUserTurn(b)
  <2>1. turn'[b] = [Idle EXCEPT !.phase = "prompted"] /\ Free(b) /\ UNCHANGED <<acted, used, hist>>
    BY <1>1, <1>9 DEF BeginUserTurn
  <2>2. turn'[b].run = 0
    BY <2>1 DEF Idle
  <2> QED
    BY <1>2, <1>3, <1>4, <2>1, <2>2
<1>10. CASE BeginRun(b)
  <2> DEFINE i == Head(queue[b])
  <2>1. turn'[b] = [Idle EXCEPT !.phase = "starting", !.run = i] /\ Free(b) /\ UNCHANGED <<acted, used, hist>>
    BY <1>1, <1>10 DEF BeginRun, NextIsRoutine
  <2>2. turn'[b].run = i /\ TurnCalm(turn'[b])
    BY <2>1 DEF Idle, TurnCalm
  <2>3. IsActive(runs[i])
    BY <1>10 DEF BeginRun, IsActive, Active
  <2> QED
    BY <1>2, <1>3, <1>4, <2>1, <2>2, <2>3
<1>11. CASE DropRun(b)
  BY <1>2, <1>3, <1>11 DEF DropRun
<1>12. CASE BeginFails(b)
  <2> DEFINE i == Head(queue[b])
  <2>1. i \in RunId /\ Named(b, i) /\ Free(b) /\ (\A j \in RunId : ~Holds(b, j)) /\ UNCHANGED <<acted, turn, used>>
    BY <1>12, NextRun DEF BeginFails
  <2>2. turn'[b] = Idle /\ \A j \in RunId : ~TurnNotes(turn[b], j) /\ ~CompletionNotes(completion[b], j)
    BY <1>2, <1>4, <2>1
  <2>3. CASE FinishRun(b, i, "failed", FALSE, acted)
    <3>1. "failed" \in Finished /\ FALSE \in BOOLEAN
      BY DEF Finished
    <3> QED
      BY <1>6, <2>1, <2>2, <2>3, <3>1
  <2>4. CASE UNCHANGED hist
    BY <1>2, <1>3, <2>1, <2>2, <2>4
  <2> QED
    BY <1>12, <2>3, <2>4 DEF BeginFails
<1>13. CASE MarkStarted(b) \/ Prompt(b)
  <2>1. /\ turn'[b].run = turn[b].run /\ turn[b].phase \in {"starting", "marked"}
        /\ turn'[b].inflight <=> turn[b].inflight
        /\ turn'[b].late <=> turn[b].late
        /\ turn'[b].stop <=> turn[b].stop
        /\ UNCHANGED <<acted, used, completion>>
    <3>1. CASE MarkStarted(b)
      BY <1>1, <3>1 DEF MarkStarted, Turn
    <3>2. CASE Prompt(b)
      BY <1>1, <3>2 DEF Prompt, Turn
    <3> QED
      BY <1>13, <3>1, <3>2
  <2>2. TurnCalm(turn'[b])
    BY <1>2, <2>1 DEF TurnCalm
  <2>3. Keeps
    BY <2>1 DEF TurnNotes
  <2>4. \A j \in RunId : hist'[j].redoes = hist[j].redoes
    <3>1. HistOK
      BY DEF IInv, TypeOK, HistOK
    <3> QED
      BY <1>13, <3>1 DEF MarkStarted, Prompt, HistOK
  <2>5. {} \in SUBSET RunId /\ used' = used \cup {} /\ Redone' \subseteq Redone \cup {}
    BY <2>1, <2>4, RedoneSame
  <2> QED
    BY <1>1, <2>1, <2>2, <2>3, <2>5, OnceSteps
<1>14. ASSUME turn[b].phase \in {"starting", "marked"}, turn'[b] = Idle, UNCHANGED <<acted, used>>, NEW status \in Finished,
              \E late \in BOOLEAN : FinishRun(b, turn[b].run, status, late, acted)
       PROVE  OnceInv'
  <2>1. /\ turn[b].run \in RunId /\ Named(b, turn[b].run) /\ \A j \in RunId : Holds(b, j) => j = turn[b].run
    BY <1>1, <1>14, ActorFacts DEF InOrder, Holds
  <2>2. ~TurnNotes(turn[b], turn[b].run) /\ ~CompletionNotes(completion[b], turn[b].run)
    BY <1>1, <1>2, <1>14, <2>1 DEF InOrder, TurnNotes, TurnCalm
  <2> QED
    BY <1>6, <1>14, <2>1, <2>2
<1>15. CASE StartFails(b)
  <2>1. "failed" \in Finished /\ turn[b].phase \in {"starting", "marked"} /\ UNCHANGED <<acted, used>>
    BY <1>15 DEF StartFails, Finished
  <2>2. CASE MovesOn(b) /\ UNCHANGED <<hist, completion>>
    BY <1>2, <1>7, <2>1, <2>2 DEF TurnCalm
  <2>3. CASE /\ \E late \in BOOLEAN : FinishRun(b, turn[b].run, "failed", late, acted)
             /\ turn' = [turn EXCEPT ![b] = Idle]
    <3>1. turn'[b] = Idle
      BY <1>1, <2>3
    <3> QED
      BY <1>14, <2>1, <2>3, <3>1
  <2> QED
    BY <1>15, <2>2, <2>3 DEF StartFails
<1>16. CASE SessionLost(b)
  <2>1. /\ "interrupted" \in Finished /\ turn[b].phase \in {"starting", "marked"} /\ UNCHANGED <<acted, used>>
        /\ turn'[b] = Idle
    BY <1>1, <1>16 DEF SessionLost, Finished
  <2> QED
    BY <1>14, <1>16, <2>1 DEF SessionLost
<1>17. CASE TakeUpdate(b)
  <2>1. /\ turn'[b] = [turn[b] EXCEPT !.inflight = FALSE] /\ acted' = acted \cup {turn[b].run}
        /\ UNCHANGED <<used, hist, completion>>
    BY <1>1, <1>17 DEF TakeUpdate
  <2>2. /\ turn'[b].run = turn[b].run /\ turn'[b].phase = turn[b].phase /\ ~turn'[b].inflight
        /\ turn'[b].late <=> turn[b].late
        /\ turn'[b].stop <=> turn[b].stop
    BY <1>1, <2>1 DEF Turn
  <2>3. TurnCalm(turn'[b])
    BY <1>2, <2>2 DEF TurnCalm
  <2>4. Keeps
    BY <2>1 DEF TurnNotes
  <2> QED
    BY <1>3, <2>1, <2>2, <2>3, <2>4
<1>18. CASE KillAgent(b)
  <2>1. /\ turn[b].phase = "prompted" /\ UNCHANGED <<acted, used, hist, completion>>
        /\ \E late \in BOOLEAN : turn'[b] = [turn[b] EXCEPT !.late = @ \/ late, !.stop = TRUE, !.inflight = FALSE,
                                                            !.done = IF @ = "none" THEN "err" ELSE @]
    BY <1>1, <1>18 DEF KillAgent
  <2>2. turn'[b].run = turn[b].run /\ turn'[b].phase = "prompted" /\ turn'[b].stop
    BY <1>1, <2>1 DEF Turn
  <2>3. TurnCalm(turn'[b])
    BY <2>2 DEF TurnCalm
  <2>4. Keeps
    BY <2>1, <2>2 DEF TurnNotes
  <2> QED
    BY <1>3, <2>1, <2>2, <2>3, <2>4
<1>19. CASE TurnDone(b)
  <2> DEFINE i == turn[b].run
  <2>1. /\ acted' = Drained(b) /\ acted \subseteq acted' /\ (turn[b].inflight => i \in acted') /\ used' = used
    BY <1>19 DEF TurnDone, Drained
  <2>2. CASE i = 0 /\ turn' = [turn EXCEPT ![b] = Idle] /\ UNCHANGED <<completion, hist>>
    <3>1. turn'[b] = Idle
      BY <1>1, <2>2
    <3>2. \A j \in used : ~TurnNotes(turn[b], j)
      BY <1>2, <2>2 DEF TurnNotes
    <3> QED
      BY <1>2, <1>3, <2>1, <2>2, <3>1, <3>2
  <2>3. CASE MovesOn(b) /\ UNCHANGED <<hist, completion>>
    BY <1>7, <2>1, <2>3
  <2>4. CASE /\ i # 0 /\ turn' = [turn EXCEPT ![b] = Idle]
             /\ \E status \in Finished : /\ turn[b].stop /\ ~turn[b].late => status = "cancelled"
                                         /\ FinishRun(b, i, status, turn[b].late, Drained(b))
    <3>1. PICK status \in Finished : /\ turn[b].stop /\ ~turn[b].late => status = "cancelled"
                                     /\ FinishRun(b, i, status, turn[b].late, Drained(b))
      BY <2>4
    <3>2. i \in RunId /\ Named(b, i) /\ \A j \in RunId : Holds(b, j) => j = i
      BY <1>1, <2>4, ActorFacts DEF Holds
    <3>3. turn'[b] = Idle /\ turn[b].late \in BOOLEAN
      BY <1>1, <2>4 DEF Turn
    <3>4. completion[b] = NoCompletion
      BY <1>1, <2>4 DEF InOrder, Idle
    <3>5. TurnNotes(turn[b], i) => i \in Drained(b) \/ turn[b].late \/ status \notin Failure
      BY <2>1, <3>1 DEF TurnNotes, Failure
    <3>6. ~CompletionNotes(completion[b], i)
      BY <1>2, <3>2, <3>4
    <3> QED
      BY <1>6, <2>1, <3>1, <3>2, <3>3, <3>5, <3>6
  <2> QED
    BY <1>19, <2>2, <2>3, <2>4 DEF TurnDone, Finished
<1>20. CASE RetryCompletion(b)
  <2> DEFINE c == completion[b]
  <2>1. /\ c # NoCompletion /\ RecordOutcome(c.run, c.status, c.late, acted) /\ UNCHANGED <<acted, used, turn>>
        /\ completion' = [completion EXCEPT ![b] = NoCompletion] /\ active' = Released(b)
    BY <1>20 DEF RetryCompletion
  <2>2. /\ c.run \in RunId /\ Named(b, c.run) /\ (\A j \in RunId : Holds(b, j) => j = c.run)
        /\ c.status \in Finished /\ c.late \in BOOLEAN /\ turn[b] = Idle
    <3>1. c.run # 0 /\ c.status \in Finished /\ turn[b] = Idle
      BY <1>1, <2>1 DEF InOrder
    <3> QED
      BY <1>1, <3>1, ActorFacts DEF Holds, Completion
  <2>3. FinishRun(b, c.run, c.status, c.late, acted)
    BY <2>1 DEF FinishRun
  <2>4. TurnNotes(turn[b], c.run) \/ CompletionNotes(c, c.run) => c.late \/ c.status \notin Failure
    BY <1>2, <2>2 DEF CompletionNotes
  <2>5. turn'[b] = Idle
    BY <2>1, <2>2
  <2> QED
    BY <1>6, <2>1, <2>2, <2>3, <2>4, <2>5
<1>21. CASE AgentActs(b)
  <2>1. /\ turn'[b] = [turn[b] EXCEPT !.inflight = TRUE] /\ used' = used \cup {turn[b].run}
        /\ turn[b].phase = "prompted" /\ turn[b].run # 0 /\ UNCHANGED <<acted, hist, completion>>
    BY <1>1, <1>21 DEF AgentActs, RunsRoutine
  <2>2. /\ turn'[b].run = turn[b].run /\ turn'[b].phase = "prompted" /\ turn'[b].inflight
        /\ turn'[b].late <=> turn[b].late
        /\ turn'[b].stop <=> turn[b].stop
    BY <1>1, <2>1 DEF Turn
  <2>3. TurnCalm(turn'[b])
    BY <1>2, <2>2 DEF TurnCalm
  <2>4. Keeps
    BY <2>1, <2>2 DEF TurnNotes
  <2>5. turn[b].run \in RunId /\ turn[b].run <= created /\ turn[b].run \notin Redone
    BY <2>1, ActorFacts DEF OnceInv
  <2>6. {turn[b].run} \in SUBSET RunId /\ \A j \in {turn[b].run} : j <= created /\ j \notin Redone /\ TurnNotes(turn'[b], j)
    BY <2>2, <2>5 DEF TurnNotes
  <2>7. Redone' = Redone
    BY <2>1, RedoneSame
  <2>8. PICK R \in SUBSET RunId : Redone' \subseteq Redone \cup R /\ \A j \in R : FALSE
    <3>1. {} \in SUBSET RunId /\ Redone' \subseteq Redone \cup {}
      BY <2>7
    <3> QED
      BY <3>1
  <2> QED
    BY <1>1, <2>1, <2>2, <2>3, <2>4, <2>6, <2>8, OnceSteps
<1>22. CASE AgentEnds(b, "ok") \/ AgentEnds(b, "err")
  <2>1. /\ \E done : turn'[b] = [turn[b] EXCEPT !.done = done]
        /\ UNCHANGED <<acted, used, hist, completion>>
    BY <1>1, <1>22 DEF AgentEnds
  <2>2. /\ turn'[b].run = turn[b].run /\ turn'[b].phase = turn[b].phase
        /\ turn'[b].inflight <=> turn[b].inflight
        /\ turn'[b].late <=> turn[b].late
        /\ turn'[b].stop <=> turn[b].stop
    BY <1>1, <2>1 DEF Turn
  <2>3. TurnCalm(turn'[b])
    BY <1>2, <2>2 DEF TurnCalm
  <2>4. Keeps
    BY <2>1, <2>2 DEF TurnNotes
  <2> QED
    BY <1>3, <2>1, <2>2, <2>3, <2>4
<1> QED
  BY <1>8, <1>9, <1>10, <1>11, <1>12, <1>13, <1>15, <1>16, <1>17, <1>18, <1>19, <1>20, <1>21, <1>22
  DEF ActorStep, AgentStep

LEMMA OnceKept ==
  ASSUME IInv, OnceInv, [Next]_vars, crashes' = 0
  PROVE  OnceInv'
<1>1. IInv' /\ Allowed
  BY NextKeeps
<1>2. CASE Request \/ Clock \/ Tick \/ StopScheduler \/ UNCHANGED vars
  <2>1. UNCHANGED <<acted, turn, completion, used, hist>>
    BY <1>2, OutsideKeeps DEF vars
  <2>2. /\ created \in Nat /\ created' \in Nat /\ created <= created' /\ (\A j \in RunId : j \in Nat) /\ used \subseteq RunId
    BY RoutinesAssumption, <1>1 DEF IInv, TypeOK, RunId, Allowed, LogMove
  <2>3. \A j \in RunId : j <= created => j <= created' /\ (IsActive(runs'[j]) => IsActive(runs[j]))
    BY <1>1, <2>2 DEF Allowed, LogMove
  <2>4. Redone' = Redone /\ Redone \subseteq RunId
    BY <2>1 DEF Redone
  <2>5. \A j \in RunId : Noted(j)' <=> Noted(j)
    BY <2>1 DEF Noted
  <2>6. \A j \in used' : j <= created' /\ (IsActive(runs'[j]) => Noted(j)')
    BY <2>1, <2>2, <2>3, <2>5 DEF OnceInv
  <2>7. \A j \in Redone' : /\ j <= created' /\ ~IsActive(runs'[j]) /\ j \notin used'
                           /\ \A b \in Bot : turn'[b].run # j
    BY <2>1, <2>3, <2>4 DEF OnceInv
  <2>8. \A b \in Bot : TurnCalm(turn'[b])
    BY <2>1 DEF OnceInv
  <2> QED
    BY <2>6, <2>7, <2>8 DEF OnceInv, TurnCalm
<1>3. CASE \E b \in Bot : ActorStep(b) \/ AgentStep(b)
  BY <1>1, <1>3, ActorOnce
<1>4. CASE \E back : Restart(back)
  <2>1. crashes \in Nat
    BY RoutinesAssumption DEF IInv, TypeOK
  <2>2. crashes' = crashes + 1
    BY <1>4 DEF Restart
  <2> QED
    BY <2>1, <2>2
<1> QED
  BY <1>2, <1>3, <1>4 DEF Next

LEMMA CrashesGrow ==
  ASSUME IInv, [Next]_vars, crashes' = 0
  PROVE  crashes = 0
<1>1. crashes \in Nat
  BY RoutinesAssumption DEF IInv, TypeOK
<1>2. CASE Request \/ Clock \/ Tick \/ StopScheduler \/ UNCHANGED vars
  BY <1>2, OutsideKeeps DEF vars
<1>3. CASE \E b \in Bot : ActorStep(b) \/ AgentStep(b)
  <2>1. ActorFrame
    BY <1>3 DEF ActorStep, AgentStep, HandleCommand, BeginUserTurn, BeginRun, DropRun, BeginFails, MarkStarted, Prompt,
                StartFails, SessionLost, TakeUpdate, KillAgent, TurnDone, RetryCompletion, AgentActs, AgentEnds
  <2> QED
    BY <2>1 DEF ActorFrame
<1>4. CASE \E back : Restart(back)
  <2>1. crashes' = crashes + 1
    BY <1>4 DEF Restart
  <2> QED
    BY <1>1, <2>1
<1> QED
  BY <1>2, <1>3, <1>4 DEF Next

\* While the host lives, no automatic retry repeats work: a tool's use is known before
\* the run's outcome is recorded (its update is stored, or is taken first), or the turn
\* was stopped or timed out, which is never retried.  A restart loses the update on its
\* way: the run lost_update shows what then may happen.
THEOREM NothingRedone == Spec => [](crashes = 0 => NothingDoneTwice)
<1>1. Init => OnceInv
  <2>1. ASSUME Init PROVE OnceInv
    BY <2>1 DEF Init, OnceInv, Redone, TurnCalm, Idle
  <2> QED
    BY <2>1
<1>2. IInv /\ (crashes = 0 => OnceInv) /\ [Next]_vars => (crashes = 0 => OnceInv)'
  BY OnceKept, CrashesGrow
<1>3. IInv /\ (crashes = 0 => OnceInv) => (crashes = 0 => NothingDoneTwice)
  BY OnceHolds
<1> QED
  BY <1>1, <1>2, <1>3, Invariant, PTL DEF Spec

-----------------------------------------------------------------------------
(* One retry offer for each routine. *)

\* What a run keeps of its event and its offer: while it may still be run it has its
\* event and no offer; ended, it has the one if and only if it has the other.
OfferOf(run) ==
  /\ IsActive(run) => run.event # "null" /\ ~run.retryable
  /\ run.status \in Finished => (run.event # "null" <=> run.retryable)
  /\ run.status = "none" => ~run.retryable

\* The inductive invariant behind OneRetryOffer.
Offers(log) ==
  /\ \A i \in RunId : OfferOf(log[i])
  /\ \A i, j \in RunId : log[i].retryable /\ log[j].retryable /\ log[i].routine = log[j].routine => i = j

LEMMA OffersHold == ASSUME Offers(runs) PROVE OneRetryOffer
  BY DEF Offers, OfferOf, OneRetryOffer

\* A log that makes no new offer.
LEMMA OffersLess ==
  ASSUME NEW log, Offers(log), NEW new,
         \A i \in RunId : /\ OfferOf(new[i])
                          /\ new[i].retryable => log[i].retryable /\ new[i].routine = log[i].routine
  PROVE  Offers(new)
  BY DEF Offers

LEMMA OffersChange ==
  ASSUME NEW log \in [RunId -> Run], Offers(log), NEW i \in RunId, NEW run, OfferOf(run),
         run.retryable => log[i].retryable /\ run.routine = log[i].routine
  PROVE  Offers([log EXCEPT ![i] = run])
<1>1. \A j \in RunId : [log EXCEPT ![i] = run][j] = IF j = i THEN run ELSE log[j]
  OBVIOUS
<1> QED
  BY <1>1, OffersLess DEF Offers

LEMMA PruneOffers ==
  ASSUME NEW log \in [RunId -> Run], Offers(log)
  PROVE  Offers(Prune(log))
<1> DEFINE Blank(i) == [NoRun EXCEPT !.routine = log[i].routine]
<1>1. \A i \in RunId : Prune(log)[i] \in {log[i], Blank(i)}
  BY DEF Prune
<1>2. \A i \in RunId : Blank(i).status = "none" /\ ~Blank(i).retryable /\ OfferOf(Blank(i))
  BY DEF NoRun, OfferOf, IsActive, Active, Finished
<1> HIDE DEF Blank
<1> QED
  BY <1>1, <1>2, OffersLess DEF Offers

LEMMA CancelOffers ==
  ASSUME NEW log \in [RunId -> Run], Offers(log), NEW S, \A i \in S \cap RunId : IsActive(log[i])
  PROVE  Offers(CancelWhere(log, S))
<1>1. \A i \in RunId : CancelWhere(log, S)[i] = IF i \in S THEN Cancelled(log[i]) ELSE log[i]
  BY DEF CancelWhere
<1>2. ASSUME NEW i \in RunId, i \in S
      PROVE  OfferOf(Cancelled(log[i])) /\ ~Cancelled(log[i]).retryable
  <2>1. log[i] \in Run /\ ~log[i].retryable
    BY <1>2 DEF Offers, OfferOf
  <2>2. Cancelled(log[i]).status = "cancelled" /\ Cancelled(log[i]).event = "null" /\ ~Cancelled(log[i]).retryable
    BY <2>1 DEF Cancelled, Run
  <2> QED
    BY <2>2 DEF OfferOf, IsActive, Active
<1> QED
  BY <1>1, <1>2, OffersLess DEF Offers

LEMMA ForgottenIs ==
  ASSUME NEW run \in Run, OfferOf(run), run.retryable
  PROVE  OfferOf(Forgotten(run)) /\ ~Forgotten(run).retryable
<1>1. Forgotten(run).status = run.status /\ Forgotten(run).event = "null" /\ ~Forgotten(run).retryable
  BY DEF Forgotten, Run
<1> QED
  BY <1>1 DEF OfferOf, IsActive

LEMMA ForgetOffers ==
  ASSUME NEW log \in [RunId -> Run], Offers(log), NEW S
  PROVE  /\ Offers(Forget(log, S))
         /\ \A i \in RunId : i \in S => ~Forget(log, S)[i].retryable
<1>1. \A i \in RunId : Forget(log, S)[i] = IF i \in S /\ log[i].retryable THEN Forgotten(log[i]) ELSE log[i]
  BY DEF Forget
<1>2. \A i \in RunId : log[i].retryable => OfferOf(Forgotten(log[i])) /\ ~Forgotten(log[i]).retryable
  BY ForgottenIs DEF Offers
<1> QED
  BY <1>1, <1>2, OffersLess DEF Offers

LEMMA NewOffers ==
  ASSUME NEW r \in Routine, NEW e \in Event, e # "null", NEW d \in Delivery \cup {NoDelivery}
  PROVE  OfferOf(NewRun(r, e, d)) /\ ~NewRun(r, e, d).retryable /\ NewRun(r, e, d) \in Run
<1>1. NewRun(r, e, d).status = "pending" /\ NewRun(r, e, d).event = e /\ ~NewRun(r, e, d).retryable
  BY NoRunType DEF NewRun, NoRun
<1> QED
  BY <1>1, NewRunType DEF OfferOf, IsActive, Active, Finished

\* A saved log, with or without a new run.
LEMMA SaveOffers ==
  ASSUME NEW log \in [RunId -> Run], Offers(log), Save(log)
  PROVE  Offers(runs')
  BY PruneOffers DEF Save

LEMMA PushOffers ==
  ASSUME TypeOK, NEW log \in [RunId -> Run], Offers(log), NEW run \in Run, OfferOf(run), ~run.retryable, SavePushed(log, run)
  PROVE  Offers(runs')
<1>1. created + 1 \in RunId
  BY RoutinesAssumption DEF TypeOK, SavePushed, RunId
<1>2. Offers([log EXCEPT ![created + 1] = run])
  BY <1>1, OffersChange
<1> QED
  BY <1>1, <1>2, PruneOffers DEF SavePushed, Save

\* A change of one run's time or attempt.
LEMMA FieldOffers ==
  ASSUME NEW log \in [RunId -> Run], Offers(log), NEW i \in RunId
  PROVE  /\ \A x \in BOOLEAN : Offers([log EXCEPT ![i].later = x]) /\ Offers([log EXCEPT ![i].retryAt = x])
         /\ \A n \in 0..MaxRetries : Offers([log EXCEPT ![i].attempt = n])
<1>1. log[i] \in Run /\ OfferOf(log[i])
  BY DEF Offers
<1>2. ASSUME NEW run, run.status = log[i].status, run.event = log[i].event, run.retryable = log[i].retryable,
             run.routine = log[i].routine
      PROVE  Offers([log EXCEPT ![i] = run])
  <2>1. OfferOf(run)
    BY <1>1, <1>2 DEF OfferOf, IsActive
  <2> QED
    BY <1>2, <2>1, OffersChange
<1>3. ASSUME NEW x \in BOOLEAN
      PROVE Offers([log EXCEPT ![i].later = x]) /\ Offers([log EXCEPT ![i].retryAt = x])
  <2>1. Offers([log EXCEPT ![i] = [log[i] EXCEPT !.later = x]]) /\ Offers([log EXCEPT ![i] = [log[i] EXCEPT !.retryAt = x]])
    BY <1>1, <1>2 DEF Run
  <2> QED
    BY <2>1
<1>4. ASSUME NEW n \in 0..MaxRetries
      PROVE Offers([log EXCEPT ![i].attempt = n])
  <2>1. Offers([log EXCEPT ![i] = [log[i] EXCEPT !.attempt = n]])
    BY <1>1, <1>2 DEF Run
  <2> QED
    BY <2>1
<1> QED
  BY <1>3, <1>4

LEMMA ForwardOffers ==
  ASSUME NEW log \in [RunId -> Run], Offers(log), NEW i \in RunId, IsActive(log[i]), NEW s \in Active
  PROVE  [log EXCEPT ![i].status = s] \in [RunId -> Run] /\ Offers([log EXCEPT ![i].status = s])
<1> DEFINE run == [log[i] EXCEPT !.status = s]
<1>1. /\ run \in Run /\ run.status = s /\ run.event = log[i].event /\ run.retryable = log[i].retryable
      /\ run.routine = log[i].routine
  BY DEF Run
<1>2. OfferOf(log[i])
  BY DEF Offers
<1>3. [log EXCEPT ![i].status = s] = [log EXCEPT ![i] = run]
  OBVIOUS
<1> HIDE DEF run
<1>4. OfferOf(run)
  BY <1>1, <1>2 DEF OfferOf, IsActive, Active, Finished
<1> QED
  BY <1>1, <1>3, <1>4, OffersChange

LEMMA RecordOutcomeOffers ==
  ASSUME TypeOK, Addressed, Offers(runs), NEW i \in RunId, NEW status \in Finished, NEW late, NEW seen,
         RecordOutcome(i, status, late, seen)
  PROVE  Offers(runs')
<1> DEFINE run == runs[i]
           r == run.routine
           again == status \in Failure /\ ~late /\ i \notin seen /\ MayTryAgain(run)
           Ended(report) == [runs EXCEPT ![i].status = status, ![i].report = report, ![i].event = "null"]
           Retried == [Ended(TRUE) EXCEPT ![i].retryAt = TRUE]
           wakes == {j \in PendingOf(runs, r) \ {i} : run.event = "schedule" /\ runs[j].event = "schedule"}
           next == [NewRun(r, run.event, NoDelivery) EXCEPT !.attempt = run.attempt + 1, !.later = TRUE]
<1>1. runs \in [RunId -> Run] /\ run \in Run /\ r \in Routine
  BY DEF TypeOK, Run
<1>2. ASSUME IsActive(run), NEW report \in BOOLEAN
      PROVE  /\ Ended(report) \in [RunId -> Run] /\ Offers(Ended(report))
             /\ Ended(report)[i].status = status /\ Ended(report)[i].routine = r
  <2> DEFINE new == [runs[i] EXCEPT !.status = status, !.report = report, !.event = "null"]
  <2>1. /\ new \in Run /\ new.status = status /\ new.event = "null" /\ new.retryable = run.retryable
        /\ new.routine = r
    BY <1>1 DEF Run, Event
  <2>2. Ended(report) = [runs EXCEPT ![i] = new]
    BY <1>1
  <2> HIDE DEF new, Ended
  <2>3. ~run.retryable
    BY <1>2 DEF Offers, OfferOf
  <2>4. OfferOf(new) /\ ~new.retryable
    BY <2>1, <2>3 DEF OfferOf, IsActive, Active, Finished
  <2>5. Offers(Ended(report))
    <3>1. Offers([runs EXCEPT ![i] = new])
      BY <1>1, <2>4, OffersChange
    <3> QED
      BY <2>2, <3>1
  <2>6. Ended(report)[i] = new /\ Ended(report) \in [RunId -> Run]
    BY <1>1, <2>1, <2>2
  <2> QED
    BY <2>1, <2>5, <2>6
<1>3. IsActive(run) => Retried \in [RunId -> Run] /\ Offers(Retried)
  <2> SUFFICES ASSUME IsActive(run) PROVE Retried \in [RunId -> Run] /\ Offers(Retried)
    OBVIOUS
  <2>1. PICK log \in [RunId -> Run] : log = Ended(TRUE) /\ Offers(log)
    BY <1>2
  <2>2. Retried = [log EXCEPT ![i].retryAt = TRUE]
    BY <2>1
  <2> HIDE DEF Retried, Ended
  <2>3. [log EXCEPT ![i].retryAt = TRUE] \in [RunId -> Run]
    BY DEF Run
  <2> QED
    BY <2>1, <2>2, <2>3, FieldOffers
<1>4. CASE Save(runs)
  BY <1>1, <1>4, SaveOffers
<1>5. CASE IsActive(run) /\ \E report \in BOOLEAN : Save(Ended(report))
  <2>1. PICK report \in BOOLEAN : Save(Ended(report))
    BY <1>5
  <2> HIDE DEF Ended
  <2> QED
    BY <1>2, <1>5, <2>1, SaveOffers
<1>6. CASE /\ IsActive(run) /\ again
           /\ \E wake \in wakes : Save([Retried EXCEPT ![wake].attempt = run.attempt + 1])
  <2>1. PICK wake \in wakes : Save([Retried EXCEPT ![wake].attempt = run.attempt + 1])
    BY <1>6
  <2>2. wake \in RunId /\ run.attempt + 1 \in 0..MaxRetries
    BY <1>1, <1>6, RoutinesAssumption DEF MayTryAgain, Run, PendingOf
  <2>3. PICK log \in [RunId -> Run] : log = Retried /\ Offers(log)
    BY <1>3, <1>6
  <2> DEFINE all == [log EXCEPT ![wake].attempt = run.attempt + 1]
  <2>4. Save(all)
    BY <2>1, <2>3
  <2> HIDE DEF Retried
  <2>5. all \in [RunId -> Run]
    BY <2>2 DEF Run
  <2>6. Offers(all)
    BY <2>2, <2>3, FieldOffers
  <2> HIDE DEF all
  <2> QED
    BY <2>4, <2>5, <2>6, SaveOffers
<1>7. CASE IsActive(run) /\ again /\ SavePushed(Retried, next)
  <2>1. run.attempt + 1 \in 0..MaxRetries /\ run.event \in Event /\ run.event # "null" /\ NoDelivery \in Delivery \cup {NoDelivery}
    BY <1>1, <1>7, RoutinesAssumption DEF MayTryAgain, Run, Offers, OfferOf
  <2>2. PICK new \in Run : new = NewRun(r, run.event, NoDelivery) /\ OfferOf(new) /\ ~new.retryable
    BY <1>1, <2>1, NewOffers
  <2>3. /\ next = [new EXCEPT !.attempt = run.attempt + 1, !.later = TRUE]
    BY <2>2
  <2>4. next \in Run /\ next.status = new.status /\ next.event = new.event /\ next.retryable = new.retryable
    BY <2>1, <2>3 DEF Run
  <2> HIDE DEF next, Retried
  <2>5. OfferOf(next)
    BY <2>2, <2>4 DEF OfferOf, IsActive
  <2> QED
    BY <1>3, <1>7, <2>2, <2>4, <2>5, PushOffers
<1>8. CASE /\ IsActive(run) /\ status \in Failure
           /\ Save([Forget(Ended(TRUE), {j \in RunId : runs[j].routine = r})
                      EXCEPT ![i].retryable = TRUE, ![i].event = run.event])
  <2> DEFINE S == {j \in RunId : runs[j].routine = r}
  <2>1. PICK ended \in [RunId -> Run] : /\ ended = Ended(TRUE) /\ Offers(ended)
                                        /\ ended[i].status = status /\ ended[i].routine = r
    BY <1>2, <1>8
  <2>2. \A j \in RunId : ended[j].routine = runs[j].routine
    BY <1>1, <2>1
  <2>3. PICK log : log = Forget(ended, S)
    OBVIOUS
  <2>4. /\ Offers(log) /\ (\A j \in S : ~log[j].retryable)
        /\ log \in [RunId -> Run] /\ \A j \in RunId : log[j].routine = ended[j].routine /\ log[j].status = ended[j].status
    <3>1. \A j \in RunId : log[j] \in {ended[j], Forgotten(ended[j])}
      BY <2>3 DEF Forget
    <3>2. \A j \in RunId : /\ Forgotten(ended[j]) \in Run /\ Forgotten(ended[j]).routine = ended[j].routine
                           /\ Forgotten(ended[j]).status = ended[j].status
      BY DEF Forgotten, Run, Event
    <3>3. log \in [RunId -> Run]
      BY <2>3, <3>2 DEF Forget
    <3>4. Offers(log) /\ \A j \in S : ~log[j].retryable
      BY <2>1, <2>3, ForgetOffers
    <3>5. \A j \in RunId : log[j].routine = ended[j].routine /\ log[j].status = ended[j].status
      BY <3>1, <3>2
    <3> QED
      BY <3>3, <3>4, <3>5
  <2> DEFINE new == [log[i] EXCEPT !.retryable = TRUE, !.event = run.event]
             all == [log EXCEPT ![i] = new]
  <2>5. run.event \in Event /\ run.event # "null"
    BY <1>1, <1>8 DEF Run, Offers, OfferOf
  <2>6. new \in Run /\ new.status = status /\ new.event = run.event /\ new.retryable /\ new.routine = r
    BY <2>1, <2>4, <2>5 DEF Run
  <2>7. OfferOf(new)
    BY <2>5, <2>6 DEF OfferOf, IsActive, Active, Finished
  <2>8. Save(all)
    BY <1>8, <2>1, <2>3, <2>4
  <2> HIDE DEF new
  <2>9. all \in [RunId -> Run] /\ all[i] = new /\ \A j \in RunId : j # i => all[j] = log[j]
    BY <2>4, <2>6
  <2> HIDE DEF all
  <2>10. \A j \in RunId : j # i /\ all[j].retryable => all[j].routine # r
    BY <2>2, <2>4, <2>9
  <2>11. Offers(all)
    BY <2>4, <2>6, <2>7, <2>9, <2>10 DEF Offers
  <2> QED
    BY <2>8, <2>9, <2>11, SaveOffers
<1> QED
  BY <1>4, <1>5, <1>6, <1>7, <1>8 DEF RecordOutcome

\* What a log update that may be made of the saved log keeps.
LEMMA UpdatesOffer ==
  ASSUME TypeOK, Offers(runs)
  PROVE  /\ Save(runs) => Offers(runs')
         /\ \A S : (\A i \in S \cap RunId : IsActive(runs[i])) /\ Save(CancelWhere(runs, S)) => Offers(runs')
         /\ \A i \in RunId : Save([runs EXCEPT ![i].later = FALSE]) => Offers(runs')
         /\ \A i \in RunId, s \in Active : IsActive(runs[i]) /\ Save([runs EXCEPT ![i].status = s]) => Offers(runs')
         /\ \A r \in Routine, e \in Event, d \in Delivery \cup {NoDelivery} :
              e # "null" /\ SavePushed(runs, NewRun(r, e, d)) => Offers(runs')
<1>1. runs \in [RunId -> Run]
  BY DEF TypeOK
<1>2. ASSUME NEW S, \A i \in S \cap RunId : IsActive(runs[i]), Save(CancelWhere(runs, S)) PROVE Offers(runs')
  <2>1. CancelWhere(runs, S) \in [RunId -> Run]
    BY <1>2, SettlesCancel DEF Settles
  <2> QED
    BY <1>1, <1>2, <2>1, CancelOffers, SaveOffers
<1>3. ASSUME NEW i \in RunId, Save([runs EXCEPT ![i].later = FALSE]) PROVE Offers(runs')
  <2>1. [runs EXCEPT ![i].later = FALSE] \in [RunId -> Run]
    BY SetLater DEF Settles
  <2> QED
    BY <1>1, <1>3, <2>1, FieldOffers, SaveOffers
<1>4. ASSUME NEW i \in RunId, NEW s \in Active, IsActive(runs[i]), Save([runs EXCEPT ![i].status = s]) PROVE Offers(runs')
  BY <1>1, <1>4, ForwardOffers, SaveOffers
<1>5. ASSUME NEW r \in Routine, NEW e \in Event, NEW d \in Delivery \cup {NoDelivery}, e # "null",
             SavePushed(runs, NewRun(r, e, d))
      PROVE  Offers(runs')
  BY <1>1, <1>5, NewOffers, PushOffers
<1> QED
  BY <1>1, <1>2, <1>3, <1>4, <1>5, SaveOffers

LEMMA PendingIsActive == ASSUME NEW r PROVE \A i \in PendingOf(runs, r) \cap RunId : IsActive(runs[i])
  BY DEF PendingOf, IsActive, Active

LEMMA DisableBotOffers ==
  ASSUME TypeOK, Offers(runs), NEW b, DisableBot(b)
  PROVE  Offers(runs')
<1> DEFINE mine == {i \in RunId : runs[i].status # "none" /\ BotOf(runs[i]) = b}
           ended == {i \in mine : IsActive(runs[i])}
<1>1. Save(Forget(CancelWhere(runs, ended), mine))
  BY DEF DisableBot
<1>2. \A i \in ended \cap RunId : IsActive(runs[i])
  OBVIOUS
<1> HIDE DEF ended, mine
<1>3. PICK cut : cut = CancelWhere(runs, ended)
  OBVIOUS
<1>4. Settles(cut) /\ Offers(cut)
  BY <1>2, <1>3, SettlesCancel, CancelOffers DEF TypeOK
<1>5. PICK log : log = Forget(cut, mine)
  OBVIOUS
<1>6. log \in [RunId -> Run] /\ Offers(log)
  BY <1>4, <1>5, SettlesForget, ForgetOffers DEF Settles
<1> QED
  BY <1>1, <1>3, <1>5, <1>6, SaveOffers

LEMMA RequestOffers ==
  ASSUME IInv, Offers(runs), Request
  PROVE  Offers(runs')
<1>1. TypeOK /\ runs \in [RunId -> Run]
  BY DEF IInv, TypeOK
<1>2. CASE \E r \in Routine : \E on \in BOOLEAN, wake \in {"none", "later", "now"} :
             SaveRoutine(r, on, wake) \/ SetEnabled(r, on, wake)
  <2>1. PICK r \in Routine, on \in BOOLEAN : Save(IF on THEN runs ELSE CancelWhere(runs, PendingOf(runs, r)))
    BY <1>2 DEF SaveRoutine, SetEnabled
  <2> QED
    BY <1>1, <2>1, PendingIsActive, UpdatesOffer
<1>3. ASSUME NEW r \in Routine, Remove(r) PROVE Offers(runs')
  <2> DEFINE S == {i \in RunId : runs[i].routine = r}
  <2>1. Save(Forget(CancelWhere(runs, PendingOf(runs, r)), S))
    BY <1>3 DEF Remove
  <2>2. PICK cut : cut = CancelWhere(runs, PendingOf(runs, r))
    OBVIOUS
  <2>3. Settles(cut) /\ Offers(cut)
    BY <1>1, <2>2, PendingIsActive, CancelPending, CancelOffers
  <2> HIDE DEF S
  <2>4. PICK log : log = Forget(cut, S)
    OBVIOUS
  <2>5. log \in [RunId -> Run] /\ Offers(log)
    BY <2>3, <2>4, SettlesForget, ForgetOffers DEF Settles
  <2> QED
    BY <2>1, <2>2, <2>4, <2>5, SaveOffers
<1>4. NoDelivery \in Delivery \cup {NoDelivery} /\ {"test", "hook", "schedule"} \subseteq Event \ {"null"}
  BY DEF Event
<1>5. ASSUME NEW r \in Routine, RunNow(r) PROVE Offers(runs')
  <2>1. CASE \E i \in PendingOf(runs, r) : Save([runs EXCEPT ![i].later = FALSE])
    BY <1>1, <2>1, UpdatesOffer DEF PendingOf
  <2>2. CASE SavePushed(runs, NewRun(r, "test", NoDelivery))
    BY <1>1, <1>4, <2>2, UpdatesOffer
  <2> QED
    BY <1>5, <2>1, <2>2 DEF RunNow
<1>6. ASSUME NEW r \in Routine, NEW d \in Delivery, Receive(r, d) PROVE Offers(runs')
  <2>1. SavePushed(runs, NewRun(r, "hook", d))
    BY <1>6 DEF Receive
  <2> QED
    BY <1>1, <1>4, <2>1, UpdatesOffer
<1>7. ASSUME NEW i \in RunId, Retry(i) PROVE Offers(runs')
  <2> DEFINE r == runs[i].routine
             log == [runs EXCEPT ![i] = Forgotten(runs[i])]
  <2>1. runs[i].retryable /\ SavePushed(log, NewRun(r, runs[i].event, NoDelivery))
    BY <1>7 DEF Retry
  <2>2. runs[i] \in Run /\ OfferOf(runs[i]) /\ r \in Routine /\ runs[i].event \in Event /\ runs[i].status \in Status
    BY <1>1 DEF Offers, Run, Status
  <2>3. runs[i].event # "null"
    BY <2>1, <2>2 DEF OfferOf, Status, IsActive
  <2>4. Forgotten(runs[i]) \in Run /\ OfferOf(Forgotten(runs[i])) /\ ~Forgotten(runs[i]).retryable
    BY <2>1, <2>2, ForgottenIs DEF Forgotten, Run, Event
  <2>5. log \in [RunId -> Run] /\ Offers(log)
    <3>1. PICK new \in Run : new = Forgotten(runs[i])
      BY <2>4
    <3>2. [runs EXCEPT ![i] = new] \in [RunId -> Run]
      BY <1>1
    <3>3. Offers([runs EXCEPT ![i] = new])
      BY <1>1, <2>4, <3>1, OffersChange
    <3> QED
      BY <3>1, <3>2, <3>3
  <2> HIDE DEF log
  <2> QED
    BY <1>1, <1>4, <2>1, <2>2, <2>3, <2>5, NewOffers, PushOffers
<1>8. ASSUME NEW b \in Bot, UserSends(b, "send") \/ UserSends(b, "stop") PROVE Offers(runs')
  BY <1>8 DEF UserSends, logVars
<1>9. ASSUME NEW b \in Bot, DeleteBot(b) PROVE Offers(runs')
  BY <1>1, <1>9, DisableBotOffers DEF DeleteBot
<1> QED
  BY <1>2, <1>3, <1>5, <1>6, <1>7, <1>8, <1>9 DEF Request

LEMMA HostOffers ==
  ASSUME IInv, Offers(runs), Clock \/ Tick \/ StopScheduler
  PROVE  Offers(runs')
<1>1. TypeOK /\ runs \in [RunId -> Run]
  BY DEF IInv, TypeOK
<1>2. CASE UNCHANGED runs
  BY <1>2
<1>3. CASE \E i \in RunId : RetryTimeArrives(i)
  <2>1. PICK i \in RunId : runs' = [runs EXCEPT ![i].later = FALSE]
    BY <1>3 DEF RetryTimeArrives
  <2> QED
    BY <1>1, <2>1, FieldOffers
<1>4. CASE \E r \in Routine : ScheduleDue(r)
  <2>1. PICK r \in Routine : ScheduleDue(r)
    BY <1>4
  <2>2. CASE \E i \in PendingOf(runs, r) : Save([runs EXCEPT ![i].later = FALSE])
    BY <1>1, <2>2, UpdatesOffer DEF PendingOf
  <2>3. CASE SavePushed(runs, NewRun(r, "schedule", NoDelivery))
    <3>1. NoDelivery \in Delivery \cup {NoDelivery} /\ "schedule" \in Event /\ "schedule" # "null"
      BY DEF Event
    <3> QED
      BY <1>1, <2>3, <3>1, UpdatesOffer
  <2> QED
    BY <2>1, <2>2, <2>3 DEF ScheduleDue
<1>5. CASE \E r \in Routine : ScheduleInvalid(r)
  BY <1>1, <1>5, UpdatesOffer DEF ScheduleInvalid
<1>6. CASE Dispatch
  <2>1. UNCHANGED runs \/ \E b : DisableBot(b)
    BY <1>6 DEF Dispatch
  <2> QED
    BY <1>1, <2>1, DisableBotOffers
<1>7. CASE (\E r \in Routine : WakeArrives(r)) \/ Snapshot \/ StopScheduler
  BY <1>2, <1>7 DEF WakeArrives, Snapshot, StopScheduler, logVars
<1> QED
  BY <1>3, <1>4, <1>5, <1>6, <1>7 DEF Clock, Tick

LEMMA FinishOffers ==
  ASSUME IInv, Offers(runs), NEW b \in Bot, NEW i \in RunId, NEW status \in Finished, NEW late, NEW seen,
         FinishRun(b, i, status, late, seen)
  PROVE  Offers(runs')
  BY RecordOutcomeOffers DEF FinishRun, IInv

LEMMA ActorOffers ==
  ASSUME IInv, Offers(runs), NEW b \in Bot, ActorStep(b) \/ AgentStep(b)
  PROVE  Offers(runs')
<1>1. TypeOK /\ runs \in [RunId -> Run] /\ Addressed /\ InOrder(turn[b], completion[b])
  BY ActorFacts DEF IInv, TypeOK
<1>2. CASE UNCHANGED runs
  BY <1>2
<1>3. "failed" \in Finished /\ "interrupted" \in Finished /\ "starting" \in Active /\ "running" \in Active
  BY DEF Finished, Active
<1>4. CASE HandleCommand(b)
  <2> DEFINE queued == {i \in RunId : Ready(runs[i]) /\ BotOf(runs[i]) = b}
  <2>1. UNCHANGED runs \/ Save(CancelWhere(runs, queued))
    BY <1>4 DEF HandleCommand
  <2>2. \A i \in queued \cap RunId : IsActive(runs[i])
    BY DEF Ready, IsActive, Active
  <2> QED
    BY <1>1, <2>1, <2>2, UpdatesOffer
<1>5. ASSUME NextIsRoutine(b), runs[Head(queue[b])].status = "pending", Save([runs EXCEPT ![Head(queue[b])].status = "starting"])
      PROVE  Offers(runs')
  <2>1. PICK i \in RunId : i = Head(queue[b])
    BY <1>5, NextRun
  <2>2. IsActive(runs[i])
    BY <1>5, <2>1 DEF IsActive, Active
  <2> QED
    BY <1>1, <1>3, <1>5, <2>1, <2>2, UpdatesOffer
<1>6. CASE BeginRun(b)
  BY <1>5, <1>6 DEF BeginRun
<1>7. CASE DropRun(b)
  <2> DEFINE i == Head(queue[b])
  <2>1. UNCHANGED runs \/ Save(runs) \/ (runs[i].status = "pending" /\ Save(CancelWhere(runs, {i})))
    BY <1>7 DEF DropRun
  <2>2. runs[i].status = "pending" => \A j \in {i} \cap RunId : IsActive(runs[j])
    BY DEF IsActive, Active
  <2> QED
    BY <1>1, <2>1, <2>2, UpdatesOffer
<1>8. CASE BeginFails(b)
  <2>1. Head(queue[b]) \in RunId
    BY <1>8, NextRun DEF BeginFails
  <2> QED
    BY <1>3, <1>5, <1>8, <2>1, FinishOffers DEF BeginFails
<1>9. CASE MarkStarted(b)
  <2>1. PICK i \in RunId : i = turn[b].run
    BY <1>1, <1>9, ActorFacts DEF MarkStarted, InOrder
  <2>2. IsActive(runs[i]) /\ Save([runs EXCEPT ![i].status = "running"])
    BY <1>9, <2>1 DEF MarkStarted, IsActive, Active, Executing
  <2> QED
    BY <1>1, <1>3, <2>2, UpdatesOffer
<1>10. CASE StartFails(b) \/ SessionLost(b)
  <2>1. turn[b].run \in RunId
    BY <1>1, <1>10, ActorFacts DEF StartFails, SessionLost, InOrder
  <2> QED
    BY <1>3, <1>10, <2>1, FinishOffers DEF StartFails, SessionLost
<1>11. CASE TurnDone(b)
  <2>1. turn[b].run # 0 => turn[b].run \in RunId
    BY ActorFacts
  <2>2. \/ UNCHANGED runs
        \/ turn[b].run # 0 /\ \E status \in Finished : FinishRun(b, turn[b].run, status, turn[b].late, Drained(b))
    BY <1>11 DEF TurnDone, Finished
  <2> QED
    BY <2>1, <2>2, FinishOffers
<1>12. CASE RetryCompletion(b)
  <2>1. completion[b].run \in RunId /\ completion[b].status \in Finished
    BY <1>1, <1>12, ActorFacts DEF RetryCompletion, InOrder
  <2> QED
    BY <1>1, <1>12, <2>1, RecordOutcomeOffers DEF RetryCompletion
<1>13. CASE BeginUserTurn(b) \/ Prompt(b) \/ TakeUpdate(b) \/ KillAgent(b) \/ AgentActs(b) \/ AgentEnds(b, "ok") \/ AgentEnds(b, "err")
  BY <1>2, <1>13 DEF BeginUserTurn, Prompt, TakeUpdate, KillAgent, AgentActs, AgentEnds
<1> QED
  BY <1>4, <1>6, <1>7, <1>8, <1>9, <1>10, <1>11, <1>12, <1>13 DEF ActorStep, AgentStep

LEMMA RestartOffers ==
  ASSUME IInv, Offers(runs), NEW back, Restart(back)
  PROVE  Offers(runs')
<1>1. runs' = [i \in RunId |-> Restored(runs[i])] /\ runs \in [RunId -> Run]
  BY DEF Restart, IInv, TypeOK
<1>2. ASSUME NEW i \in RunId
      PROVE  /\ OfferOf(Restored(runs[i]))
             /\ Restored(runs[i]).retryable => runs[i].retryable /\ Restored(runs[i]).routine = runs[i].routine
  <2>1. runs[i] \in Run /\ OfferOf(runs[i])
    BY <1>1 DEF Offers
  <2>2. /\ Restored(runs[i]).event = runs[i].event /\ Restored(runs[i]).retryable = runs[i].retryable
        /\ Restored(runs[i]).routine = runs[i].routine
    BY <2>1 DEF Restored, Run
  <2>3. /\ runs[i].status = "starting" => Restored(runs[i]).status = "pending"
        /\ runs[i].status = "running" => Restored(runs[i]).status = "recovering"
        /\ runs[i].status \notin {"starting", "running"} => Restored(runs[i]).status = runs[i].status
    BY <2>1, RestoredKeeps
  <2> QED
    BY <2>1, <2>2, <2>3 DEF OfferOf, IsActive, Active, Finished
<1> QED
  BY <1>1, <1>2, OffersLess

\* A failed run can be retried by hand only while it is its routine's latest such failure,
\* and only then does it still hold the event it was given: whatever ends, is retried,
\* paused, deleted or pruned in between.
THEOREM RetryOffered == Spec => []OneRetryOffer
<1>1. Init => Offers(runs)
  <2>1. ASSUME Init PROVE Offers(runs)
    <3>1. \A i \in RunId : runs[i] = NoRun /\ NoRun.status = "none" /\ ~NoRun.retryable
      BY <2>1 DEF Init, NoRun
    <3> QED
      BY <3>1 DEF Offers, OfferOf, IsActive, Active, Finished
  <2> QED
    BY <2>1
<1>2. IInv /\ Offers(runs) /\ [Next]_vars => Offers(runs)'
  <2> SUFFICES ASSUME IInv, Offers(runs), [Next]_vars PROVE Offers(runs')
    OBVIOUS
  <2>1. CASE UNCHANGED vars
    BY <2>1 DEF vars
  <2>2. CASE \E b \in Bot : ActorStep(b) \/ AgentStep(b)
    BY <2>2, ActorOffers
  <2>3. CASE \E back : Restart(back)
    BY <2>3, RestartOffers
  <2> QED
    BY <2>1, <2>2, <2>3, RequestOffers, HostOffers DEF Next
<1>3. Offers(runs) => OneRetryOffer
  BY OffersHold
<1> QED
  BY <1>1, <1>2, <1>3, Invariant, PTL DEF Spec
=============================================================================
