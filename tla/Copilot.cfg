SPECIFICATION Spec
CONSTANTS
  NumCards = 2
  Urgent = {2}
  Gated = {2}
  QueueLimit = 2
  MaxRetries = 1
  MaxLeftover = 1
INVARIANTS
  RunningIsExecuted
  OverlapOnlyAfterGivingUp
PROPERTIES
  RunEnds
CHECK_DEADLOCK FALSE
