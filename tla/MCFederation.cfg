SPECIFICATION FederationSpec
CONSTANTS
    Peers = {1}
    Events = {e1}
    Senders = {s1}
    BatchSize = 1
    FailureWindow = 1
    BaseDelay = 1
    MaxDelay = 1
    RateDelay = 1
    NoItem = NoItem
    MaxPublishes = 2
    MaxPublishers = 1
    MaxCrashes = 0
    AttemptCap = 0
    FreshnessWindow = 1
    Nobody = Nobody
    MaxLate = 1
INVARIANTS FederationTypeOK FinalStateIsKept
