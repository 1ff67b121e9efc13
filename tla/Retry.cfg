SPECIFICATION RetrySpec
CONSTANTS
  Steps = 4
  ClientErrors = {401, 404, 409}
  ServerErrors = {500, 503}
INVARIANTS Settled RepeatsOnlyLost
PROPERTIES OnlyRetryableAgain
CHECK_DEADLOCK FALSE
