SPECIFICATION Spec
CONSTANTS
  Submission <- AllSubmissions
  Tenant <- MCTenant
  Permit <- MCPermit
  CircuitKey = {"k", "l"}
  PermitOf <- MCPermitOf
  SubmitterOf <- MCSubmitterOf
  SubmissionPriority <- MCPriority
  KeyOf <- MCKeyOf
  Slot <- MCSlot
  SlotsOf <- MCSlotsOf
  CostOf <- MCCostOf
  QuotaLimit <- MCQuotaLimit
  ResourcePool <- MCResourcePool
  RetrySafe = {"s3"}
  Cancellable = {"s3"}
  MaxAttempts = 2
  RetryDelayed = TRUE
  AuditMayFail = TRUE
  MayShutdown = FALSE
  FailureThreshold = 2
  ResetTimeout = 1
  HalfOpenMaxProbes = 1
  MaxTime = 0
  MaxConcurrency = 1
  MaxPerTenant = 1
  MaxQueueDepth = 1
  MaxTotalInflight = 1
  MaxTenantInflight = 2
INVARIANTS EngineSafe HoldsAccounted
PROPERTIES CancelWins
CHECK_DEADLOCK FALSE
