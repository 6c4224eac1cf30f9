SPECIFICATION Spec
CONSTANTS
  Paths = {first, second}
  Home = first
  MaxRequests = 2
  MaxDecisions = 2
  ActivityLimit = 1
  Samples <- TwoTrainings
  Probabilities = {0, 10, 30, 60, 80, 100}
  Observations <- Combinations
INVARIANTS TypeOK ApprovedNotOvercounted AnnouncedOnce ThresholdsApart DecisionMonotone
PROPERTIES CatchesUp
CHECK_DEADLOCK FALSE
