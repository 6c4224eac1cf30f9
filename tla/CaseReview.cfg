SPECIFICATION Spec
CONSTANTS
  MaxPayments = 2
  MaxRestarts = 1
  MaxPosts = 2
  MaxTrainings = 1
  Times = {1, 2}
  Labels = {"legitimate", "review"}
  MinRows = 2
INVARIANTS TypeOK ClosedIsTrained HeardIsRecorded NumbersDiffer
PROPERTIES AnalystIsAnswered
CHECK_DEADLOCK FALSE
