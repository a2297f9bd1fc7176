CONSTANTS
    U64Max = 9
    Features = {}
    Garbled = {}
    Provider = "Slack"
    Secret = "k1"
    Options <- MCOptions
    Wires <- MCWires
    Reqs <- MCReqs
    MCReqs = {r1}
    MaxCopies = 2
    MCStamps = {2, 4}
    MCKeys = {"k1", "k2"}
    Times = {2, 4}
SPECIFICATION Spec
INVARIANTS
    TypeOK
    HandlerSeesWholeBody
    EveryReadingIsGenuine
PROPERTIES
    ImplementsGate
CHECK_DEADLOCK FALSE
