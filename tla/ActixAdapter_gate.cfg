CONSTANTS
    U64Max = 9
    Features = {}
    Garbled = {}
    Provider = "Slack"
    Secret = "k1"
    Options <- MCOptions
    Wires <- MCWires
    Reqs <- MCReqs
    MCReqs = {r1}
    MaxCopies = 2
    MCStamps = {2, 4}
    Times = {2, 4}
SPECIFICATION FairSpec
INVARIANTS
    TypeOK
    HandlerSeesExactBody
    EveryReadingIsGenuine
    HandlerNeverSeesUnverifiedBytes
    RefusedUnread
PROPERTIES
    ImplementsGate
    EveryRequestSettles
CHECK_DEADLOCK FALSE
