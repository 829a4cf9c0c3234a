SPECIFICATION MCSpec
CONSTANTS
    Foci = {"gate", "recovery", "session", "agent session", "delegation", "break glass", "tool", "permit", "sandbox",
            "immutable", "snapshot", "working", "load", "policy", "operate", "flags", "recover",
            "screen", "promotion", "agent"}
    s1 = s1 s2 = s2 j1 = j1 j2 = j2 ann = ann bot = bot
    MaxClock = 2
    EdgeRequests = {r1}
    ActionClasses = {"standard", "admin", "permission_change"}
    MfaLife = 1
    MaxElevation = 1
    Approvers = {p1, p2}
    MinimumApprovals = 2
    Persons = {ann, bot, cyd, dan}
    Agents = {bot}
    SessionIds = {s1, s2}
    Jtis = {j1, j2}
    Claims = {c1, c2}
    SessionLife = 3
    AbsoluteLife = 2
    IdleTimeout = 1
    MaxDepth = 2
    Root = ann
    MaxLinks = 3
    BreakGlassMax = 1
    NoSession = NoSession
    Calls = {"c1", "c2", "c3"}
    ToolNonce <- MCToolNonce
    SecretNonce <- MCSecretNonce
    LeaseLife = 1
    MaxAsked = 2
    Hosts = {"h1", "h2"}
    Identities = {"i1", "i2"}
    BasePermits = {"b1", "b2", "b3"}
    HostOf <- MCHostOf
    PermitIds = {"p1", "p2"}
    PermitLife = 1
    Distributed = "shared"
    MaxPermits = 2
    MaxSandboxes = 1
    NoIdentity = "none"
    Scopes <- MCScopes
    MemKeys = {"k1"}
    MemTtl = 1
    MaxVersions = 2
    MaxRecords = 2
    MaxCopies = 2
    Nodes = {"n1", "n2"}
    Versions <- MCVersions
    MinSupported <- MCMinSupported
    MaxSupported <- MCMaxSupported
    Capacities = {"net", "fs"}
    Rules <- MCRules
    HardPermits = {"p1", "p2"}
    MaxAttempts = 2
    SettingKeys = {"a", "b", "pw"}
    SecretSettings = {"pw"}
    Layers = {0, 1, 4, 5}
    PromotionNonces = {n1, n2}
    Promoters = {h1, h2}
INVARIANTS IdentityGateSafe IdentityTrustSafe ToolAccessSafe IsolationSafe MemorySafe HardeningSafe ContentScreenSafe
PROPERTIES EndedStaysEnded RevocationsReach HistoryKept
CHECK_DEADLOCK FALSE
