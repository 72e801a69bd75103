\* The chain of two steps and two tasks: a late notification of a step that is being undone.
CONSTANTS
  Steps = {"first", "second"}
  DependsOn <- Chain
  Compensable = {"first"}
  Tasks = {t1, t2}
  HasDeadline = TRUE
  Operated = {"first"}
  MaxWebhooks = 1
  MaxInterruptions = 1
SYMMETRY Interchangeable
SPECIFICATION Spec
INVARIANT FailedUndoIsReviewed
CHECK_DEADLOCK FALSE
