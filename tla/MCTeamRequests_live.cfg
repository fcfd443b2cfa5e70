SPECIFICATION FairSpec
CONSTANTS
  lead = lead
  reviewer = reviewer
  Bot = {lead, reviewer}
  MAX_REQUEST_HOPS = 1
  MAX_PENDING_MESSAGES = 2
  MAX_PENDING_MESSAGES_PER_SENDER = 2
  StoreFails = FALSE
  MaxRequests = 2
  MaxUserTurns = 2
  MaxTouches = 1
  MaxCrashes = 0
INVARIANT ChainsBounded
PROPERTY RequestsEnd
PROPERTY RepliesArrive
CHECK_DEADLOCK FALSE
