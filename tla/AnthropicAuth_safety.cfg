SPECIFICATION FairSpec
CONSTANTS
  None = None
  MaxPairs = 4
  MaxFaults = 2
  MaxRestarts = 1
  MaxCount = 3
  maxAuthFailures = 2
  maxRateLimitFailures = 2
  authPausedRetryInterval = 1
  authPausedRetryMaxInterval = 3
  rateLimitBaseBackoff = 1
  rateLimitMaxBackoff = 2
  apiPollCycleInterval = 2
INVARIANT ProactiveOnce
PROPERTY NoDowngrade
PROPERTY WaitsGrow
PROPERTY Recovers
CHECK_DEADLOCK FALSE
