SPECIFICATION FairSpec
CONSTANTS
  j1 = j1
  j2 = j2
  Jobs = {j1, j2}
  MaxRetries = 1
  SweepLimit = 2
  UseCloudTasks = TRUE
  LongIds = {j2}
  Redelivered = {j1}
  Faults = {"crash", "enqueue", "storage"}
INVARIANTS RecoveryTypeOK OneExecution CompletedIsProcessed DeadLetterIsExact NothingForgotten
PROPERTIES FollowsPolicy JobsSettle
CHECK_DEADLOCK FALSE
