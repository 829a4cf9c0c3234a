\* Caps below the backpressure limits: tenants wait at their cap, the queue fills.
SPECIFICATION MCSpec
CONSTANTS
  Parts = {"pool", "breaker"}
  Task <- MCTask
  Tenant <- MCTenant
  TenantOf <- MCTenantOf
  PriorityOf <- MCPriorityOf
  MaxConcurrency = 2
  MaxPerTenant = 1
  MaxQueueDepth = 2
  MaxTotalInflight = 2
  MaxTenantInflight = 2
  Key <- MCKey
  Call <- MCCall
  KeyOf <- MCKeyOf
  FailureThreshold = 2
  ResetTimeout = 2
  HalfOpenMaxProbes = 1
  MaxTime = 5
  MaxRetried = 3
  MayAbandon = TRUE
INVARIANTS PoolSafe BreakerSafe
PROPERTIES QueuedIsRun CoolDown
CHECK_DEADLOCK FALSE
