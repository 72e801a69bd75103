CONSTANTS
  Calls = {"c1", "c2"}
  MaxTokens = 2
  MaxFaults = 2
SPECIFICATION FairSpec
INVARIANTS
  LeaseStands
  RefreshRecovers
PROPERTIES
  CallsEnd
CHECK_DEADLOCK FALSE
