\* A chain of two steps, two concurrent tasks, and a cancellation, a deadline, an operator or a crash.
CONSTANTS
  Steps = {"first", "second"}
  DependsOn <- Chain
  Compensable = {"first"}
  Tasks = {t1, t2}
  HasDeadline = TRUE
  Operated = {"first"}
  MaxWebhooks = 1
  MaxInterruptions = 1
SYMMETRY Interchangeable
SPECIFICATION Spec
INVARIANTS
  OneRequestPerStep
  SuccessIsWhole
  OnlyDoneIsUndone
  CancellationIsHonoured
  EndedMeansUnwound
PROPERTIES
  StepsStartOnSolidGround
CHECK_DEADLOCK FALSE
