CONSTANTS
    Services = {"scheduler", "budget", "fake", "tokens", "deletion", "plans", "drills", "approval", "execution", "workflow", "dispatch", "accounts", "targets", "metrics", "reports", "items", "actions", "trials", "windows", "session", "rules", "pilots", "gate", "registry", "evaluations", "packages", "webhooks", "matrices"}
    SchedJobs = {"j1"}
    SchedWorkers = {"w1", "w2"}
    Schedules <- MCSchedules
    LeaseTicks = 1
    LastTick = 2
    MaxSchedVersion = 2
    CallKeys = {"k1", "k2", "k3"}
    RequestOf <- MCRequestOf
    GatewayOf <- MCGatewayOf
    Costs = {1, 3}
    PolicyNames = {"p"}
    LimitSets <- MCLimitSets
    MaxPolicies = 2
    LastBudgetDay = 1
    MonthDays = 2
    Publications = {"i1"}
    PublishKeys = {"k1"}
    Publishers = {"t1", "t2"}
    DeskOperators = {"o1"}
    MaxNo = 2
    DeskNumbers = {1}
    AuthSessions = {"s1"}
    AuthCodes = {"c1", "c2"}
    AuthThreads = {"t1", "t2"}
    SessionTicks = 1
    LeaseTerms = {1}
    LastAuthTick = 1
    MaxLeases = 2
    StageOrder <- MCStageOrder
    DeletionThreads = {"t1", "t2"}
    MaxDeletionVersion = 2
    PlanKeys = {"k1", "k2"}
    DeletionAsks <- MCDeletionAsks
    Things = {"x1"}
    Drillers = {"d1", "d2"}
    DrillKeys = {"k1", "k2", "k3", "k4"}
    DrillQueues = {"q1"}
    MaxBackups = 1
    MaxRestores = 2
    Never = Never
    Unbound = Unbound
    Approvals = {"a1"}
    People = {"p1", "p2", "p3"}
    LastDay = 2
    Forms <- MCForms
    Overrides = {Never, 2}
    ScopeOrder <- MCScopeOrder
    SideEffects = {"simulation"}
    SafeModes = {"manual_export"}
    BlockLists <- MCBlockLists
    Callers = {"c1", "c2"}
    Operators = {"op"}
    Keys = {"k1", "k2"}
    MaxSwitch = 1
    Intents = {"i1", "i2"}
    IntentMode <- MCIntentMode
    IntentApproval <- MCIntentApproval
    Slices = {"i2"}
    MaxAttempts = 2
    Runs = {"r1", "r2"}
    HumanTasks = {"h1"}
    Assignees = {"p1"}
    DueDays = {1}
    MaxRunVersion = 4
    OutEvents = {1, 2, 3}
    JobOf <- MCJobOf
    NoSpec = NoSpec
    BadSpec = BadSpec
    Posts = {1, 2}
    DispatchLease = 1
    MaxTries = 2
    LastSecond = 1
    MaxClaims = 2
    Connections = {"a1"}
    Consent = "oauth"
    Required = {"oauth", "member"}
    Offered <- MCOffered
    Outcomes <- MCOutcomes
    Attachers = {"w1"}
    Checkers = {"w2"}
    LastAccountDay = 1
    MaxProofs = 3
    TargetWorkers = {"w1", "w2"}
    MaxTargetVersions = 2
    MetricNames = {"published", "cost", "mentioned"}
    Measures = {"m1", "m2", "m3"}
    NameOf <- MCNameOf
    RateNames = {"published"}
    KpiNames = {"published", "cost"}
    GeoNames = {"mentioned"}
    Bodies <- MCBodies
    Recorders = {"w1", "w2"}
    ReportKeys = {"k1", "k2"}
    Windows <- MCWindows
    MaxMetricVersions = 3
    MaxRevisions = 2
    MaxReports = 2
    Items = {"i1"}
    Actions = {"a1"}
    FeedbackKeys = {"k1", "k2", "k3", "k4"}
    Targets4Feedback = {"refresh_queue"}
    Requests4Window = {"x", "y"}
    FactOf <- MCFactOf
    MaxSamples = 2
    Policies <- MCPolicies
    DaysPosted = {0, 1}
    RuleWeek = 2
    MaxPosted = 1
    Pilots = {"p1", "p2"}
    PilotAccounts = {"x"}
    ItemLists <- MCItemLists
    Launches = {"j1", "j2", "j3"}
    OrderOf <- MCOrderOf
    Runners = {"r1", "r2"}
    FactValues <- MCFactValues
    GoodFacts <- MCGoodFacts
    Snapshots <- MCSnapshots
    GateKeys = {"k1"}
    LastGateHour = 3
    EvalKeys = {"k1", "k2"}
    VersionKinds = {"prompt", "golden_set", "threshold"}
    BodiesOf <- MCBodiesOf
    CaseBudgets = {2}
    Answers <- MCAnswers
    MaxKindVersions = 2
    MaxEvalRuns = 2
    HandKeys = {1, 2, 3, 4}
    Exports <- MCExports
    Fetchers = {"f1", "f2"}
    Ttl = 1
    LastHandMoment = 2
    MaxExports = 1
    Deliveries <- MCDeliveries
    MaxHandlings = 2
    MaxReplays = 2
    Mappings <- MCMappings
    Payloads <- MCPayloads
SPECIFICATION Spec
CHECK_DEADLOCK FALSE
INVARIANTS
    ServicesTypeOK
    ReleaseGuarded
    AttemptsKept
    WorkHeld
    BudgetKept
    OneVerdict
    
    RecordsKept
    ReportsKept
