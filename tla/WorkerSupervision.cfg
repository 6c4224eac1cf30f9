SPECIFICATION Spec
CONSTANTS
  MaxThreads = 3
  Autostart = TRUE
INVARIANTS TypeOK HealthyConsumes ErrorVisible
PROPERTIES SoleDataflow FailureNoticed
