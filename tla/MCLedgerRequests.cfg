SPECIFICATION ReqSpec
CONSTANTS
  Apps = {minter}
  Minter = minter
  minter = minter
  Unusable = {"absent"}
  Mismatch <- const_Mismatch
  MaxEvents = 1
  Requests = {r1}
  r1 = r1
INVARIANTS ReqTypeOK
PROPERTIES  SilentOnlyWhenClosed RequestEnds AnsweredWhileOpened
