CONSTANTS
    U64Max = 4
    Features = {"sendgrid"}
    Garbled = {"bad"}
    MCProviders = {"Discord", "StandardWebhooks", "Square", "Twilio", "SendGrid"}
    MCStamps = {0, 4}
    MCFresh = 4
    MCMaxAges = {{}, {1}}
    MaxSlice = 3
    MaxElements = 1
    Requests <- MCRequests
    SecretSlices <- MCOrders
    Secrets <- MCSecrets
    Times = {0, 4}
SPECIFICATION Spec
INVARIANTS
    AcceptsOnlyGenuine
    RotationSucceeds
    StaleOnlyIfGenuine
    FormErrorsAreDeterministic
    StatusBlamesTheRightParty
PROPERTIES
    KeepsPromise
CHECK_DEADLOCK FALSE
