\* The catalog's customer_onboarding and one worker.
CONSTANTS
  Steps <- OnboardingSteps
  DependsOn <- OnboardingDependsOn
  Compensable <- OnboardingSteps
  Tasks = {t1}
  HasDeadline = FALSE
  Operated = {}
  MaxWebhooks = 1
  MaxInterruptions = 0
SPECIFICATION FairSpec
PROPERTIES
  QuietSuccessIsNoticed
  UnwindsInReverse
CHECK_DEADLOCK FALSE
