CONSTANTS
    Mandates = {1, 2}
    Cycles = {1, 2}
    Provisioned = {2}
    Events <- TwoMandates
    Workers = {w1, w2}
    Batch = 2
    Budget = 1
    MaxCrashes = 1
    None = None
SPECIFICATION FairSpec
INVARIANTS
    RowsAreFolds
PROPERTIES
    FactsOnlyGrow
    EventsProcessed
