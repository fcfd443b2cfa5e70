SPECIFICATION Spec
CONSTANTS
  lead = lead
  reviewer = reviewer
  Bot = {lead, reviewer}
  MAX_REQUEST_HOPS = 2
  MAX_PENDING_MESSAGES = 2
  MAX_PENDING_MESSAGES_PER_SENDER = 2
  StoreFails = TRUE
  MaxRequests = 3
  MaxUserTurns = 1
  MaxTouches = 1
  MaxCrashes = 1
INVARIANT SlotsExact
INVARIANT RepliesOnce
CHECK_DEADLOCK FALSE
