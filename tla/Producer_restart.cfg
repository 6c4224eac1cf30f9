SPECIFICATION Spec
CONSTANTS
  MaxLoops = 1
  MaxClients = 1
  Limits = {0}
INVARIANT StartedIsNotStopping
