SPECIFICATION MCSpec
CONSTANTS
  Parts = {"loop"}
  Decision = {"d1"}
  Context = {"cx", "cy"}
  Tenant = {"x", "y"}
  TenantOf <- MCTenantOf
  Stages <- MCStages
  Approver = {"h1", "h2", "req", "agent"}
  Human = {"h1", "h2", "req"}
  Qualified = {"h1", "h2", "req", "agent"}
  Requester = "req"
  Quorum = 2
  BoundContext = "cx"
  ApprovalExpiry = 1
  Submissions <- MCSubmissions
  Action = {"a", "b"}
  Capability = {"cap"}
  Call = {1, 2}
  PermitTtl = 1
  MaxTime = 2
  None = "none"
  x = x
  y = y
  text = text
  Attributes = {x, y}
  Amounts = {0, 1, text}
  Unknown = Unknown
  Conditions <- MCConditions
  RuleConditions <- MCRuleConditions
  Height <- MCHeight
  MaxHeight = 3
  MaxConditionDepth = 2
  PolicyLife = 1
  SignalSet <- MCSignals
  ThresholdSet <- MCThresholds
  MinHighAt = 60
  MaxCriticalAt = 90
  Team = {"s1", "s2", "w1"}
  Supervisors = {"s1", "s2"}
  MaxTurn = 2
  Contexts = {"pay", "ask"}
  Critical = {"pay"}
  Deciders = {"hum", "req", "bot"}
  KindOf <- MCKindOf
  Envelopes <- MCEnvelopes
  AskedBy = "req"
  ApprovalLife = 1
  FireAt = 0
  ScheduleExpiry = 1
  LeasePeriod = 1
  MaxTaskAttempts = 2
  MaxFired = 1
  MaxDecisions = 1
  MaxAgentClock = 1
  NoAgent = "none"
PROPERTY HumanApproves
CHECK_DEADLOCK FALSE
