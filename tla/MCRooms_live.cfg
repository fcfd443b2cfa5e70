SPECIFICATION FairSpec
CONSTANTS
  ann = ann
  ben = ben
  User = User
  Members <- AnnBen
  MAX_ROUNDS = 2
  MAX_REPLIES = 2
  CutShort = TRUE
  Overdue = TRUE
  MaxEpochs = 1
  MaxOwn = 1
  MaxStops = 1
  MaxCrashes = 0
INVARIANT OneSpeaks
PROPERTY RoomTurnsEnd
PROPERTY LateAnswers
CHECK_DEADLOCK FALSE
