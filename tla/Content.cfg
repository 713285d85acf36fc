CONSTANTS
    Parts = {"signals", "plans", "briefs", "taxonomy", "rights", "claims", "cores", "canonical", "refresh", "regions", "runs", "assess", "render",
             "scripts", "boards", "visuals", "subtitles", "specs", "files", "checks", "quality", "uses", "sandbox", "pages", "site", "structured", "audits", "sitekeys", "datakeys", "auditkeys", "planner", "research", "clues", "transform", "review", "variants", "decisions", "terms"}
    Snapshots = {"s1"}
    MaxRights = 2
    Derived = {"d1", "d2"}
    ParentsOf <- MCParents
    BlockReasons = {"r1", "r2"}
    Claims = {"c1", "c2"}
    ScopeOf <- MCScope
    StatementOf <- MCStatement
    Evidences = {"e1"}
    SnapshotOf <- MCSnapshot
    RightsOf <- MCRights
    MaxCoreVersions = 2
    Texts = {"t1", "t2"}
    BindingOf <- MCBinding
    Refreshers = {"w1", "w2"}
    CanonTimes = {0, 1, 2}
    GivenFreshness = {"fresh", "conflict"}
    Expiries = {2}
    Window = 1
    MaxEditions = 2
    MaxItems = 2
    Terms <- MCTerms
    NoTerms = NoTerms
    Sites = {"s1"}
    AskedTimes = {0}
    Omitted = Omitted
    LastRegionDay = 1
    MaxRegionVersions = 2
    Fixtures = {"f1", "f2"}
    BodyOf <- MCBody
    Expects = {"f1", "f2"}
    Claiming = {"f1"}
    Requests <- MCRequests
    Captured <- MCCaptured
    GeoKeys = {"k1", "k2"}
    AssessedClaims = {"c1", "c2"}
    AssessedEvidence = {"e1"}
    AssessedSnapshots = {"s1", "s2"}
    AssessKeys = {"k1"}
    Clean <- MCClean
    MaxFlaws = 2
    RenderWorkers = {"w1", "w2"}
    MaxTries = 2
    OtherMaxima = {1}
    MaxRenders = 2
    RenderCodes = {"RENDER_TIMEOUT", "STORAGE_UNAVAILABLE", "RENDER_RESULT_UNKNOWN"}
    RenderCommands = {"rerender", "succeeded"}
    Editors = {"w1", "w2"}
    MediaKeys = {"k1", "k2"}
    SegmentEnds <- MCSegmentEnds
    SpokenBudget <- MCSpoken
    CtaWords = 2
    BlocksOf <- MCBlocks
    EditOf <- MCEdits
    PlanOf <- MCPlans
    CuesOf <- MCCues
    ItemsOf <- MCItems
    ProfilesOf <- MCProfiles
    MaxMade = 2
    TopicSignals = {"s1", "s2"}
    UsableSignals = {"s1"}
    Batches <- MCBatches
    TopicNames = {"t1"}
    Planners = {"p1", "p2"}
    BriefTexts <- MCBriefTexts
    TaxKeys = {"k1", "k2"}
    AssetRights = {"r1", "r2"}
    AssetClaims = {"q1"}
    FactQuestions <- MCFactQuestions
    RightsQuestions <- MCRightsQuestions
    SandboxKeys = {"k1", "k2", "k3"}
    SandboxRequests <- MCSandboxRequests
    MaxLimit = 2
    PageKeys = {"p1", "p2"}
    PageRoutes = {"r1", "r2"}
    PageBodies <- MCPageBodies
    PageSources = {"c1", "c2"}
    SiteKeys = {"k1", "k2"}
    SiteQuestions <- MCSiteQuestions
    KeyedQuestions <- MCKeyedQuestions
    LocaleRank <- MCLocaleRank
    DataQuestions <- MCDataQuestions
    KeyedData <- MCKeyedData
    AuditQuestions <- MCAuditQuestions
    KeyedAudits <- MCKeyedAudits
    Probed <- MCProbed
    SiteWorkers = {"w1", "w2"}
    MaxPageVersions = 2
    MaxFound = 2
    MaxLinks = 2
    MaxImports = 2
    MaxOpps = 2
    MaxOppVersions = 3
    MaxPlans = 2
    MaxBriefs = 2
    MaxTaxChanges = 4
    AgentThreads = {"t1", "t2"}
    AgentKeys = {"k1", "k2"}
    AgentRequests <- MCAgentRequests
    Supplies <- MCSupplies
    ModelAnswers <- MCModelAnswers
    Literals = {"1"}
    MappingName <- MCMappingName
    MaxAgentRuns = 2
    MaxDefinitions = 1
    VariantKeys = {"k1", "k2"}
    VariantSources = {"v1", "v2"}
    SourceText <- MCSourceText
    ContentOf <- MCContentOf
    VariantWords = {"x", "y", "1"}
    TokenWords = {"1"}
    RegionVersions = {"r1", "r2", "r3", "r4"}
    RegionTerms <- MCRegionTerms
    Audiences <- MCAudiences
    OtherTexts <- MCOtherTexts
    Disclosures = {{}, {"ad"}}
    Platforms = {"none", "shop", "web"}
    NoPlatform = "none"
    GlossaryBodies <- MCGlossaryBodies
    LastVariantMoment = 1
    MaxVariantRows = 2
    MaxGlossaries = 2
SPECIFICATION Spec
CHECK_DEADLOCK FALSE
INVARIANTS
    ContentTypeOK
    RightsHold
    Grounded
    RefreshQueued
    GeoKept
    VideoKept
    WritingKept
