SPECIFICATION Spec
CONSTANTS
  Events = {e1}
  Rejected = {}
  Malformed = {bad}
  ApiProcs = {api}
  Worker = worker
  NoEvent = NoEvent
  NoOne = NoOne
  MaxRaw = 1
  MaxFaults = 0
  MaxCrashes = 1
INVARIANT StoredIsPublished
