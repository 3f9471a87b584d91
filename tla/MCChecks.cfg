SPECIFICATION Spec
CONSTANTS
  KeyCount = 3
  Listings <- MCListings
  Batch = 2
  MaxMeasured = 1
  Failing = {1}
  Services = {"s", "t"}
  ServiceTTL = 3
  RefreshAfter = 2
  RetryAfter = 2
  Providers <- MCProviders
  PoolProviders <- MCPoolProviders
INVARIANT
  VerdictOfAll
PROPERTIES
  CheckedInTurn
  MeasuredInTurn
