\* Every provider, three attempts (two automatic and one operator retry).
CONSTANTS
  Providers = {"northstar", "meridian", "cobalt"}
  MaxAttempts = 2
  MaxOperatorRetries = 1
  MaxEvents = 1
  Reconcilers = {r1}
  Cancellers = {c1}
SPECIFICATION Spec
INVARIANTS
  SuccessIsTheProviders
  DispatchingHasOwner
PROPERTIES
  PendingLeavesOnEvidence
  ImplementsContract
CHECK_DEADLOCK FALSE
