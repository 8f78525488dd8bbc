CONSTANTS
    Cycles = {c1}
    Workers = {w1}
    Reconcilers = {}
    Budget = 3
    MaxRelayAttempts = 1
    LeaseOutlivesClaim = TRUE
    MaxFailures = 1
    MaxCrashes = 0
    None = None
SPECIFICATION Spec
PROPERTIES
    SilenceIsNotFailure
