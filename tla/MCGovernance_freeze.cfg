SPECIFICATION Spec
CONSTANTS
    Null = Null
    ONE = 64
    DecayNum = 7
    DecayDen = 8
    DAYS_IN_MONTH = 2
    DEFAULT_KAPPA = 1
    DECLARED_TTL_DAYS = 180
    Customers = {c}
    FatigueCap = 1
    MaxErasures = 2
    Mandates = {m1, m2}
    Replies = {r}
    Updates = {u}
    MaxSuccesses = 2
    Writers = {w1, w2, w3}
    Decisions = {d1, d2}
    Propensities <- Exactly
    Scale = 10
    GENESIS = GENESIS
    MaxLength = 4
    MaxRewrites = 1
    MaxRemovals = 1
    Points <- PointsDef
    Fits <- FitsDef
    Heuristic = Heuristic
    None = None
    Unknown = Unknown
    MaxHistory = 5
    MaxStamps = 2
    Tenants = {t1}
    Operators = {o1, o2}
    ExperimentIds = {e1, e2}
    Seeds = {0, 1}
    Subjects = {0, 1}
    Platform = Platform
    NoOne = NoOne
    NoExperiment = NoExperiment
    Buckets = 4
    Shares = {3}
    Hash <- HashDef
    MaxFreezes = 2
    MaxDecisions = 2
    Nil = Nil
    BaseRules <- MCBaseRules
    LaterRules <- MCLaterRules
    BaseCaps <- MCBaseCaps
    LaterCaps <- MCLaterCaps
    FirstDay = 1
    LastDay = 3
    Facts <- MCFacts
    Parts = {"experiments"}
PROPERTIES
    FrozenIsKept
CHECK_DEADLOCK FALSE
