---------------------------- MODULE MCEventSeries ----------------------------
\* EventSeries with three rules: two that share instants, and one that starts
\* beyond the horizon of a series made at once.
EXTENDS EventSeries, TLC

SmallRules == {
    [starts |-> 0, times |-> {0, 1, 2, 4}],
    [starts |-> 0, times |-> {1, 2, 3}],
    [starts |-> 3, times |-> {3, 4}]}

Symmetry == Permutations(Calls)
=============================================================================
