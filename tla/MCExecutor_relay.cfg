CONSTANTS
    Cycles = {c1}
    Workers = {w1, w2}
    Reconcilers = {}
    Budget = 2
    MaxRelayAttempts = 2
    LeaseOutlivesClaim = TRUE
    MaxFailures = 3
    MaxCrashes = 1
    None = None
SYMMETRY Symmetric
SPECIFICATION Spec
INVARIANTS
    DebitsWithinBudget
    IntentBeforeCharge
PROPERTIES
    PromiseKept
