SPECIFICATION Spec
CONSTANTS
    Addresses = {a1}
    Identities = {i1, i2}
    Rows = {r1, r2}
    NoPeer = NoPeer
    Unknown = Unknown
    Calls = {c1, c2}
    MaxDecisions = 3
    MaxFaults = 1
SYMMETRY Symmetry
INVARIANTS TypeOK OnlyTheVouchedAreHeard
PROPERTIES AskingAgainIsNoWayOut
CHECK_DEADLOCK FALSE
