\* One webhook may arrive, be late or be lost; a crash may hit any attempt.
CONSTANTS
  Providers = {"northstar", "meridian", "cobalt"}
  MaxAttempts = 2
  MaxOperatorRetries = 0
  MaxEvents = 1
  Reconcilers = {r1}
  Cancellers = {}
SPECIFICATION FairSpec
PROPERTIES
  InFlightSettles
  LostWebhookRecovered
CHECK_DEADLOCK FALSE
