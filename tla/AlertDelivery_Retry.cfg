CONSTANTS
    Deliveries = {d1}
    Workers = {w1}
    Channels = {c}
    ChannelType <- Webhook
    MaxRetries = 3
    MaxFailures = 2
    MaxPerWindow = 3
    Errors = {"transient"}
    MaxFaults = 1
    Edits = 0
SPECIFICATION FairSpec
PROPERTY RetryHappens
