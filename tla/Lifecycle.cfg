SPECIFICATION Spec
CONSTANTS
  Trainers = {service, cli}
  Runtimes = {worker, api}
  Apis = {api}
  MaxVersions = 2
  MaxRows = 2
  MaxFailures = 1
INVARIANTS TypeOK CachedIsReal PairedInPromotionOrder
PROPERTY ModelArrives
CHECK_DEADLOCK FALSE
