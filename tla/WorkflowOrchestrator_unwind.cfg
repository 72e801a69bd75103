\* The catalog's parallel_provisioning and one worker; nothing is interrupted.
CONSTANTS
  Steps <- ParallelSteps
  DependsOn <- ParallelDependsOn
  Compensable <- ParallelSteps
  Tasks = {t1}
  HasDeadline = FALSE
  Operated = {}
  MaxWebhooks = 0
  MaxInterruptions = 0
SPECIFICATION FairSpec
PROPERTY CompensationEnds
CHECK_DEADLOCK FALSE
