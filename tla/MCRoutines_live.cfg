SPECIFICATION FairSpec
CONSTANTS
  b1 = b1
  r1 = r1
  r2 = r2
  d1 = d1
  Bot = {b1}
  OwnerOf <- OneBotOneRoutine
  Routine = {r1}
  OneShot = {r1}
  CheckIn = {}
  Delivery = {}
  MaxRetries = 1
  MaxFinished = 1
  MaxAgents = 1
  SqliteFails = TRUE
  MaxRuns = 4
  MaxMail = 2
  MaxRequests = 1
  MaxCrashes = 0
INVARIANT NothingDoneTwice
INVARIANT ReservationsReturn
PROPERTY RunsEnd
PROPERTY OutcomesAreFinal
CHECK_DEADLOCK FALSE
