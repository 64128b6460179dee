CONSTANTS
  initialRateLimit = 5
  minRateLimit = 3
  maxRateLimit = 11
  increasePercent = 10
  decreasePercent = 50
  increaseInterval = 1
  backoffTime = 2
  Second = 3
  UserRates = {0, 10}
  MaxCalls = 2
  MaxSaves = 1
SPECIFICATION Spec
INVARIANT SettlesOnWallet
PROPERTY BackoffIsKept
