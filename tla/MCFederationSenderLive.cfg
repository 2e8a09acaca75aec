SPECIFICATION FairSpec
CONSTANTS
    Peers = {1}
    Events = {e1, e2}
    Senders = {s1}
    BatchSize = 1
    FailureWindow = 1
    BaseDelay = 1
    MaxDelay = 2
    RateDelay = 2
    NoItem = NoItem
    MaxPublishes = 1
    MaxPublishers = 1
    MaxCrashes = 1
    AttemptCap = 1
PROPERTIES AttemptedEventually
