SPECIFICATION Spec
CONSTANTS
  Apps = {minter, other}
  Minter = minter
  minter = minter
  other = other
  Unusable = {"absent", "denied"}
  Mismatch <- const_Mismatch
  MaxEvents = 2
INVARIANTS TypeOK ListenerNotMisled
PROPERTIES ImplementsNotifier StopEndsLoop SkipReleasesDevice InfiniteEmittingRepeats
