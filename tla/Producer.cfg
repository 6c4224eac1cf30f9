SPECIFICATION Spec
CONSTANTS
  MaxLoops = 2
  MaxClients = 3
  Limits = {0, 2}
INVARIANTS TypeOK StoppedIsStopping ClosedOnlyWhenStopping ProfileAgrees
PROPERTIES SoleLoop StopStops BoostEnds
