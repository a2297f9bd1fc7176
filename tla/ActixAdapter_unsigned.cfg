CONSTANTS
    U64Max = 9
    Features = {}
    Garbled = {}
    Provider = "Twilio"
    Secret = "k1"
    Options <- MCOptions
    Wires <- MCWires
    Reqs <- MCReqs
    MCReqs = {r1}
    MaxCopies = 1
    MCStamps = {2}
    Times = {2, 4}
SPECIFICATION Spec
INVARIANT
    HandlerNeverSeesUnverifiedBytes
CHECK_DEADLOCK FALSE
