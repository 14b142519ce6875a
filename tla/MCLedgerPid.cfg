SPECIFICATION ReqSpec
CONSTANTS
  Apps = {minter, other}
  Minter = minter
  minter = minter
  other = other
  Unusable = {"absent"}
  Mismatch <- const_Mismatch
  MaxEvents = 1
  Requests = {r1}
  r1 = r1
INVARIANTS SavedPidIsMinter
