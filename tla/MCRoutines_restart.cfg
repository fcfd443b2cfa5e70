SPECIFICATION Spec
CONSTANTS
  b1 = b1
  r1 = r1
  r2 = r2
  d1 = d1
  Bot = {b1}
  OwnerOf <- OneBotOneRoutine
  Routine = {r1}
  OneShot = {}
  CheckIn = {r1}
  Delivery = {d1}
  MaxRetries = 1
  MaxFinished = 0
  MaxAgents = 2
  SqliteFails = FALSE
  MaxRuns = 2
  MaxMail = 1
  MaxRequests = 1
  MaxCrashes = 1
INVARIANT ExecutingIsHeld
INVARIANT InstructedOnce
PROPERTY ImplementsLedger
CHECK_DEADLOCK FALSE
