SPECIFICATION FairSpec
CONSTANTS
  Code = {x, y}
  Req = {r1, r2}
  NULL = NULL
  MaxSends = 1
  SendWindow = 2
  MaxVerifies = 2
  VerifyWindow = 3
  OtpLife = 1
INVARIANTS
  AttemptsAreBounded
  CodeIsSpentOnce
PROPERTIES
  LockoutEnds
