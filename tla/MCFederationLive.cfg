SPECIFICATION FederationFairSpec
CONSTANTS
    Peers = {1}
    Events = {e1}
    Senders = {s1}
    BatchSize = 1
    FailureWindow = 2
    BaseDelay = 1
    MaxDelay = 1
    RateDelay = 1
    NoItem = NoItem
    MaxPublishes = 1
    MaxPublishers = 1
    MaxCrashes = 1
    AttemptCap = 0
    FreshnessWindow = 1
    Nobody = Nobody
    MaxLate = 1
PROPERTIES RetriesEnd
