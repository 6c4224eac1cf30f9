SPECIFICATION Spec
CONSTANTS
  MaxPayments = 2
  MaxRestarts = 1
  MaxPosts = 1
  MaxTrainings = 1
  Times = {1, 2}
  Labels = {"fraud", "false_positive", "legitimate", "review"}
  MinRows = 2
INVARIANTS TrainedAsReviewed
CHECK_DEADLOCK FALSE
