SPECIFICATION FairSpec
CONSTANTS
  Events = {e1, e2}
  Rejected = {e2}
  Malformed = {bad}
  ApiProcs = {api}
  Worker = worker
  NoEvent = NoEvent
  NoOne = NoOne
  MaxRaw = 2
  MaxFaults = 1
  MaxCrashes = 1
INVARIANTS TypeOK AtMostOnce SeenIsStored OneVerdict NoRepeat
PROPERTIES SettledForGood KeepsPromise PayloadHeard
