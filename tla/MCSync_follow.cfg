SPECIFICATION FairSpec
CONSTANTS
  Bot = {lead}
  Early = 2
  CATCH_UP_PER_BOT = 1
  Buffer = 1
  MaxRev = 5
  MaxEntries = 3
  MaxDrops = 1
  MaxSaves = 1
  MaxRefetches = 1
INVARIANT TypeOK
INVARIANT CursorHonest
 
 
 
CHECK_DEADLOCK FALSE
