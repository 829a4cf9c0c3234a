SPECIFICATION FairSpec
CONSTANTS
  Submission <- TenantA
  Tenant <- MCTenant
  Permit <- MCPermit
  CircuitKey = {"k", "l"}
  PermitOf <- MCPermitOf
  SubmitterOf <- MCSubmitterOf
  SubmissionPriority <- MCPriority
  KeyOf <- MCKeyOf
  Slot <- MCSlot
  SlotsOf <- MCSlotsOf
  CostOf <- MCCostOf
  QuotaLimit <- MCQuotaLimit
  ResourcePool <- MCResourcePool
  RetrySafe = {"s3"}
  Cancellable = {"s3"}
  MaxAttempts = 2
  RetryDelayed = FALSE
  AuditMayFail = TRUE
  MayShutdown = TRUE
  FailureThreshold = 2
  ResetTimeout = 1
  HalfOpenMaxProbes = 1
  MaxTime = 1
  MaxConcurrency = 1
  MaxPerTenant = 1
  MaxQueueDepth = 1
  MaxTotalInflight = 1
  MaxTenantInflight = 2
INVARIANTS HoldsAccounted
PROPERTIES AnsweredUnlessDropped
CHECK_DEADLOCK FALSE
