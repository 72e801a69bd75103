CONSTANTS
  ReplayWindow = 1
  Calls = {"c1", "c2", "c3"}
  Keys = {"k1"}
  Bodies <- MCBodies
  MaxCrashes = 1
SPECIFICATION FairSpec
INVARIANTS
  OneEntityPerKey
  ReplaysMatch
  ConflictsAreReal
PROPERTIES
  CreatedIsStarted
CHECK_DEADLOCK FALSE
