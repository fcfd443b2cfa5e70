SPECIFICATION Spec
CONSTANTS
  ann = ann
  ben = ben
  User = User
  Members <- AnnBen
  MAX_ROUNDS = 2
  MAX_REPLIES = 1
  CutShort = FALSE
  Overdue = FALSE
  MaxEpochs = 2
  MaxOwn = 1
  MaxStops = 0
  MaxCrashes = 1
INVARIANT StopEndsTurns
CHECK_DEADLOCK FALSE
