CONSTANTS
    U64Max = 99999999
    Features = {"paypal", "sendgrid"}
    Garbled = {"bad", "bad2"}
    MCProviders = {"Slack", "Zoom", "Square", "Twilio", "Discord", "StandardWebhooks",
        "PayPal", "SendGrid", "GitHub", "Shopify", "Linear", "Dropbox", "Custom",
        "CustomTimestamped", "Stripe"}
    MCStamps = {0, 39999999, 100000000}
    MCFresh = 39999999
    MCMaxAges = {{}, {1}}
    MaxSlice = 2
    MaxElements = 2
    Requests <- AllRequests
    SecretSlices <- AllSlices
    Secrets <- AllSecrets
    Times = {40000000}
SPECIFICATION Spec
INVARIANTS
    TypeOK
    AcceptsOnlyGenuine
    AgreesWithTests
    EmptyHeaderIsNoMismatch
    BrokenIsNeverJudged
CHECK_DEADLOCK FALSE
