\* Two calls at work at once, three instants of the clock, one occurrence touched by hand
\* and one call that breaks off.
SPECIFICATION Spec
CONSTANTS
    Calls = {c1, c2}
    Rules <- SmallRules
    NoRule = NoRule
    Horizon = 1
    MaxHorizon = 2
    MaxOccurrences = 2
    MaxClock = 2
    MaxVersions = 2
    MaxEdits = 1
    MaxFaults = 1
SYMMETRY Symmetry
INVARIANTS TypeOK InStepUnlessTangled
PROPERTIES HistoryIsKept
CHECK_DEADLOCK FALSE
