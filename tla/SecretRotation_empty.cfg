CONSTANTS
    U64Max = 4
    Features = {}
    Garbled = {"bad"}
    MCProviders = {"StandardWebhooks"}
    MCStamps = {0, 2}
    MCFresh = 2
    MCMaxAges = {{}, {1}}
    MaxSlice = 1
    MaxElements = 1
    Requests <- MCRequests
    SecretSlices <- MCSlices
    Secrets <- MCSecrets
    Times = {0, 1, 3}
SPECIFICATION Spec
INVARIANT
    EmptyHeaderHasItsOwnError
CHECK_DEADLOCK FALSE
