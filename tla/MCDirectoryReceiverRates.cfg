\* Two allowances shared by concurrent calls, over a change of minute.
SPECIFICATION Spec
CONSTANTS
    Calls = {c1, c2}
    Ids = {b1, b2}
    NoBatch = NoBatch
    Batches <- CrowdedBatches
    Events = {"e1"}
    Orgs = {"o1", "o2"}
    Peer = Peer
    FreshnessWindow = 1
    Retention = 0
    PeerLimit = 3
    OriginLimit = 1
    Overrides = {}
    NoOverride = NoOverride
    MaxSkew = 0
    MaxClock = 1
    MaxFaults = 0
SYMMETRY Symmetry
INVARIANTS NeverOverLimit ReceiptAddsUp
CHECK_DEADLOCK FALSE
