SPECIFICATION MCSpec
CONSTANTS
  Run <- MCRun
  Direct <- MCDirect
  Permit <- MCPermit
  PermitOf <- MCPermitOf
  Approval = {"a"}
  NoApproval = "noApproval"
  ApprovalOf <- MCApprovalOf
  Required = {1, 4, 5}
  ApprovalExpiry <- MCApprovalExpiry
  PermitTtl = 1
  ClaimMayFail = TRUE
  AuditMayFail = TRUE
  MaxTime = 1
  Workflow <- MCWorkflow
  PlannedGraphs <- MCPlannedGraphs
  Module = {1, 2, 3}
  Graphs <- MCGraphs
  BootRank <- MCBootRank
  Audit = {2}
  Call = {"c", "d", "e"}
  MaxRestarts = 1
  StopOnExhaustion = TRUE
INVARIANTS SpentOnce TrailTruth WorkflowSound KernelSafe
PROPERTIES WorkflowEnds BootFailClosed LifecycleEnds
CHECK_DEADLOCK FALSE
