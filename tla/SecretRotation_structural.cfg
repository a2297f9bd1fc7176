CONSTANTS
    U64Max = 4
    Features = {}
    Garbled = {"bad"}
    MCProviders = {"Stripe"}
    MCStamps = {0, 2}
    MCFresh = 2
    MCMaxAges = {{}, {1}}
    MaxSlice = 2
    MaxElements = 2
    Requests <- MCRequests
    SecretSlices <- MCSlices
    Secrets <- MCSecrets
    Times = {1, 3}
SPECIFICATION Spec
INVARIANT
    StructuralErrorsAreDeterministic
CHECK_DEADLOCK FALSE
