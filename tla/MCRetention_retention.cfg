SPECIFICATION FairSpec
CONSTANTS
    Null = Null
    ANY = ANY
    Tenants = {t1, t2}
    t1 = t1
    t2 = t2
    Mandates = {m1, m2}
    m1 = m1
    m2 = m2
    Segments = {s}
    DAYS_IN_MONTH = 2
    MIN_COHORT = 3
    MIN_CONTRIBUTORS = 2
    DEFAULT_KAPPA = 1
    day_presence <- Presence
    tenant_of <- TenantOf
    segment_of <- SegmentOf
    active_tenants <- Roster
    due_days <- Due
    Treated = {m1}
    Planners = {w1, w2}
    CHRONIC_CYCLES = 2
    MIN_OBSERVATIONS = 2
    BOOTSTRAP_OBSERVATIONS = 2
    SWEEP_BATCH = 2
    MaxCycles <- Cycles2
    MaxEvents <- Events2
    MaxFailedPasses = 1
INVARIANTS
    CellsAreAnonymous
    DecisionsStand
PROPERTIES
    ChronicGetsProposed
CHECK_DEADLOCK FALSE
