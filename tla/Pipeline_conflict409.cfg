SPECIFICATION Spec
CONSTANTS
  Events = {e1}
  Rejected = {e1}
  Malformed = {bad}
  ApiProcs = {api}
  Worker = worker
  NoEvent = NoEvent
  NoOne = NoOne
  MaxRaw = 0
  MaxFaults = 0
  MaxCrashes = 0
INVARIANT DuplicateWasProcessed
