SPECIFICATION Spec
CONSTANTS
  N = 3
  Founders = 2
  MAX_PER_SIGNER = 8
  Skew = 0
  MaxSigned = 3
  MaxOthers = 1
  MaxAnswers = 2
INVARIANT TypeOK
INVARIANT OneHello
INVARIANT OwnerSeated
CHECK_DEADLOCK FALSE
