SPECIFICATION Spec
CONSTANTS
  s1 = s1
  s2 = s2
  Sender = {s1}
  CanSteer = TRUE
  AnswersLost = FALSE
  Other = {}
  MaxMessages = 3
  MaxOthers = 0
  MaxTouches = 3
  MaxCrashes = 1
INVARIANT TypeOK
 
 
 
 
CHECK_DEADLOCK FALSE
