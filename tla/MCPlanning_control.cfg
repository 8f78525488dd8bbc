SPECIFICATION Spec
CONSTANTS
    None = None
    Nothing = Nothing
    Days = {0, 2, 6}
    Hours = {0, 7, 20}
    MaxSlots = 4
    Budget = 2
    Horizon = 100
    Window = 170
    MaxMandates = 2
    CyclesPerMandate = 3
    MinCellObservations = 2
    MaxUnits = 4
    MaxDuration = 3
    MaxBursts = 5
    MaxLate = 2
    BASELINE = 820
    MIN_ATTEMPTS = 5
    EXPECTED_OUTAGE = 54
    PEER_SPAN = 10
    CLOSED_HISTORY = 5
INVARIANTS
    BothArmsAreLawful
CHECK_DEADLOCK FALSE
