SPECIFICATION FairSpec
CONSTANTS
    Levels = {l1}
    Hooks = {h1, h2}
    Deliveries = {d1, d2}
    NoHook = NoHook
    NoRow = NoRow
    NoJob = NoJob
    Senders = {s1, s2}
    Calls = {c1, c2}
    Limit = 1
    BatchSize = 1
    MaxAttempts = 2
    MaxFaults = 1
    MaxAtBegin = 1
    MaxWork = 3
ACTION_CONSTRAINT BoundedWork
INVARIANTS TypeOK NoOrphans WithinLimitUnlessRaced
PROPERTIES LeavesOnlyAnswered QueueDrains
CHECK_DEADLOCK FALSE
