SPECIFICATION Spec
CONSTANTS
  Message = {hi, there}
  PerDevice = 2
  Overlaps = TRUE
  Exclusive = TRUE
  Expires = FALSE
  MayDelete = TRUE
  MaxSends = 2
  MaxCancels = 1
  MaxConns = 2
  MaxLinks = 1
SYMMETRY Alike
INVARIANT TypeOK
 
INVARIANT NeverLost
INVARIANT MailInOrder
CHECK_DEADLOCK FALSE
