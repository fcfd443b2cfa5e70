SPECIFICATION FairSpec
CONSTANTS
  Message = {hi}
  PerDevice = 2
  Overlaps = FALSE
  Exclusive = FALSE
  Expires = TRUE
  MayDelete = TRUE
  MaxSends = 1
  MaxCancels = 1
  MaxConns = 2
  MaxLinks = 2
 
PROPERTY MailSettles
PROPERTY WaitingSettles
CHECK_DEADLOCK FALSE
