CONSTANTS
    U64Max = 9
    Features = {}
    Garbled = {}
    Provider = "Slack"
    Secret = "k1"
    Options <- MCOptions
    Wires <- MCWires
    Times = {2, 4}
    r1 = r1
    r2 = r2
    r3 = r3
    c1 = c1
    c2 = c2
    Reqs <- MCReqs
    Conns <- MCConns
    ConnOf <- MCConnOf
    Limit = 1
SPECIFICATION StackSpec
INVARIANT
    InnerIsReadyWhenCalled
CHECK_DEADLOCK FALSE
