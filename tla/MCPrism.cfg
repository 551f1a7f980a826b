SPECIFICATION PrismFairSpec
CONSTANTS
  VMs <- FiveVMs
  maxRetries = 2
  pageSize = 2
  TokenMaxAge = 4
  TokenExpiry = 5
  MaxAge = 7
  MaxPages = 4
  MaxCalls = 2
  MaxChurn = 2
INVARIANTS OneObjectPerCall OKIsDone ListIsExact LiveUntilRenewed
PROPERTIES EveryCallReturns
CHECK_DEADLOCK FALSE
