SPECIFICATION Spec
CONSTANTS
    Events = {e1}
    Users = {u1}
    Peers = {p1, p2}
    NoEvent = NoEvent
    Nothing = Nothing
    Tombstone = Tombstone
    Calls = {c1, c2}
    MaxTime = 3
    MaxRemoved = 1
    MaxFaults = 1
SYMMETRY Symmetry
INVARIANTS TypeOK LastWordIsTheRow
PROPERTIES FrozenOnceStarted
CHECK_DEADLOCK FALSE
