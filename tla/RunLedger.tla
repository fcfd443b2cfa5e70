----------------------------- MODULE RunLedger -----------------------------
(***************************************************************************)
(* What the routines promise of their runs (docs/features/routines.md,     *)
(* "Execution"), whatever is queued, stopped, retried, deleted or          *)
(* restarted: a run is queued once, executed at most once and by one bot   *)
(* that does nothing else of the kind meanwhile, and then done for good.   *)
(***************************************************************************)
CONSTANTS RunId, Bot

VARIABLES ledger, bot  \* each run's place, and the bot it belongs to once it is queued
vars == <<ledger, bot>>

Places == {"new", "queued", "executing", "done"}

\* Where a run may go.  Only a queued run may be executed, and nothing leaves "done".
Moves == {<<"new", "queued">>, <<"queued", "executing">>, <<"queued", "done">>, <<"executing", "done">>}

OneEach(place, owner) ==
  \A i, j \in RunId : place[i] = "executing" /\ place[j] = "executing" /\ owner[i] = owner[j] => i = j

Init == ledger = [i \in RunId |-> "new"] /\ bot \in [RunId -> Bot]

\* Any number of runs may move at once (a Stop drops all that wait), none breaking the rules.
Next ==
  /\ ledger' \in [RunId -> Places]
  /\ \A i \in RunId : ledger'[i] = ledger[i] \/ <<ledger[i], ledger'[i]>> \in Moves
  /\ \A i \in RunId : ledger[i] # "new" => bot'[i] = bot[i]
  /\ OneEach(ledger', bot')

Spec == Init /\ [][Next]_vars
=============================================================================
