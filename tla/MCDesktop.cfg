SPECIFICATION Spec
CONSTANTS
  DevStates <- const_DevStates
  Installers = {1, 2}
  MaxInstalls = 2
  MaxLists = 1
  MaxServers = 2
INVARIANTS TypeOK SkipHeld StoppedMeansStopped  
 
CHECK_DEADLOCK FALSE
