SPECIFICATION Spec
CONSTANTS
    Peers = {1}
    Events = {e1}
    Senders = {s1, s2}
    BatchSize = 1
    FailureWindow = 2
    BaseDelay = 1
    MaxDelay = 2
    RateDelay = 2
    NoItem = NoItem
    MaxPublishes = 2
    MaxPublishers = 1
    MaxCrashes = 1
    AttemptCap = 1
INVARIANTS TypeOK OnlyOvertakenIsLost BoundedOverrun
PROPERTIES SuspendedOnlyAfterAWindow
