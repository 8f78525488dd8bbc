SPECIFICATION Spec
CONSTANTS
    Null = Null
    Platform = Platform
    Roster <- TwoRoster
    Cycles <- TwoCycles
    TenantOf <- TwoTenantOf
    ShareDraw <- TwoDraw
    HoldoutDraw <- TwoDraw
    Worthwhile = {"c1", "c2"}
    BATCH = 1
    PAGE = 1
    Budget = 3
    Lead = 1
    Slots = {1}
    Deadline <- TwoDeadline
    InitialConfig <- TwoInitialConfig
    Evidences <- MCEvidences
    ByHand = {4}
    Operators = {p}
    MaxTime = 1
    MaxActs = 1
PROPERTIES
    PlatformStopIsWhole
CHECK_DEADLOCK FALSE
