\* Two probes at a time, and two successes to close.
CONSTANTS
  Callers = {c1, c2, c3, c4}
  FailureThreshold = 2
  SuccessThreshold = 2
  HalfOpenMaxProbes = 2
  Replica <- TwoReplicas
  MaxConcurrency = 2
SPECIFICATION FairSpec
INVARIANTS
  CountersDecide
  ProbesLimited
PROPERTIES
  ClosesThroughProbes
  HalfOpenEnds
