SPECIFICATION FairSpec
CONSTANTS
  s1 = s1
  s2 = s2
  Sender = {s1}
  CanSteer = TRUE
  AnswersLost = TRUE
  Other = {"request", "reply"}
  MaxMessages = 2
  MaxOthers = 1
  MaxTouches = 2
  MaxCrashes = 1
 
INVARIANT AnswerOwed
PROPERTY StopEnds
PROPERTY MessagesSettle
CHECK_DEADLOCK FALSE
