CONSTANTS
  ReplayWindow = 1
  OperationIds <- Ids
  Providers = {"northstar", "meridian", "cobalt"}
  Calls = {"c1", "c2"}
  Requests = {"r1"}
  Scenarios = {"healthy", "timeout", "slow", "rate_limit", "unavailable_then_ok", "always_unavailable", "reject", "auth_challenge", "async_failure", "no_reference", "unknown_status", "webhook_first"}
  MaxFaults = 1
SPECIFICATION FairSpec
INVARIANTS
  OneOperationPerCreate
  ResultsAreTrue
  WebhooksTellTheOutcome
PROPERTIES
  CallsEnd
CHECK_DEADLOCK FALSE
