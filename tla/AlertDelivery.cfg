CONSTANTS
    Deliveries = {d1}
    Workers = {w1}
    Channels = {c}
    ChannelType <- Webhook
    MaxRetries = 3
    MaxFailures = 2
    MaxPerWindow = 3
    Errors = {"timeout", "auth"}
    MaxFaults = 2
    Edits = 1
SPECIFICATION FairSpec
INVARIANTS
    SuccessWasSent
    DisabledAtThreshold
PROPERTY AttemptSettled
