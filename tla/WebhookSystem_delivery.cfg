CONSTANTS
    U64Max = 99
    Features = {}
    Garbled = {}
    Std = FALSE
    Events = {"e1"}
    Plans <- MCPlans
    Leads <- MCLeads
    Window = 1
    Overlap = 3
    MaxInFlight = 3
    Wall = 10
SPECIFICATION FairSpec
INVARIANTS
    TypeOK
    RotationLosesNothing
    FailsClosedWithoutClock
PROPERTIES
    AcknowledgedForAnActiveKey
    EveryEventIsAcknowledged
    ReplaysEnd
CHECK_DEADLOCK FALSE
