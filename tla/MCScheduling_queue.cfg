SPECIFICATION Spec
CONSTANTS
    Null = Null
    Platform = Platform
    Roster <- MCRoster
    Cycles <- MCCycles
    TenantOf <- MCTenantOf
    ShareDraw <- MCShareDraw
    HoldoutDraw <- MCHoldoutDraw
    Worthwhile = {"held", "treated"}
    BATCH = 1
    PAGE = 1
    Budget = 3
    Lead = 1
    Slots = {1}
    Deadline <- MCDeadline
    InitialConfig <- MCInitialConfig
    Evidences <- MCEvidences
    ByHand = {0, 4}
    Operators = {p, q}
    MaxTime = 1
    MaxActs = 2
INVARIANTS
    OneDebitInFlight
    FiresOnEvidence
    CohortsAreStable
PROPERTIES
    TellsThenDebits
    StopsAreObeyed
    TreatedIsQueued
CHECK_DEADLOCK FALSE
