CONSTANTS
    Cycles = {c1}
    Workers = {w1}
    Reconcilers = {r1}
    Budget = 2
    MaxRelayAttempts = 2
    LeaseOutlivesClaim = TRUE
    MaxFailures = 1
    MaxCrashes = 1
    None = None
SPECIFICATION FairSpec
INVARIANTS
    AnswersAreTrue
PROPERTIES
    TimersResolve
    IntentsRelayed
