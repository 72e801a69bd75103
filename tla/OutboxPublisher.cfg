\* Two replicas, two events in one batch, one fault or redrive.
CONSTANTS
  Events = {1, 2}
  Publishers = {p1, p2}
  BatchSize = 2
  MaxAttempts = 2
  Unsendable = {}
  MaxFaults = 1
SPECIFICATION FairSpec
INVARIANTS
  NothingIsLost
  DeadLettersAreExhausted
  LeasesExclude
PROPERTIES
  EventsSettle
