CONSTANTS
  ReplayWindow = 1
  OperationIds <- Ids
  Providers = {"northstar", "meridian"}
  Events = {"success", "progress", "malformed"}
  Handlers = {"h1", "h2"}
  Workers = {"w1"}
  MaxInterruptions = 1
SPECIFICATION FairSpec
INVARIANTS
  AcknowledgedIsRecorded
  OnlyGenuineEventsAct
PROPERTIES
  ProcessedWithItsRequest
  DeferredSettles
  AcknowledgedTakesEffect
