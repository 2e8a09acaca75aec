\* Replays of one envelope, skewed clocks, the sweep, a limit that is changed.
SPECIFICATION Spec
CONSTANTS
    Calls = {c1, c2}
    Ids = {b1}
    NoBatch = NoBatch
    Batches <- SmallBatches
    Events = {"e1"}
    Orgs = {"o1"}
    Peer = Peer
    FreshnessWindow = 1
    Retention = 1
    PeerLimit = 2
    OriginLimit = 1
    Overrides = {0, 1}
    NoOverride = NoOverride
    MaxSkew = 1
    MaxClock = 4
    MaxFaults = 1
SYMMETRY Symmetry
INVARIANTS TypeOK ReplayIsRefused OneCallPerBatch OnlyBrokenCallsKeepTheirClaim
PROPERTIES KeepsPromise
CHECK_DEADLOCK FALSE
