------------------------ MODULE MCDirectoryReceiver ------------------------
\* DirectoryReceiver with batches small enough for TLC.
EXTENDS DirectoryReceiver, TLC

Update(e, o) == [event |-> e, org |-> o, deleted |-> FALSE, valid |-> TRUE, ends |-> 0]
Invalid(e, o) == [event |-> e, org |-> o, deleted |-> FALSE, valid |-> FALSE, ends |-> 0]
Tombstone(e, o) == [event |-> e, org |-> o, deleted |-> TRUE, valid |-> TRUE, ends |-> 0]

SmallBatches == {<<Update("e1", "o1")>>, <<Tombstone("e1", "o1")>>}

\* Two of it ask for more than the peer's allowance and more than each
\* organization's, and each has a deletion behind the cut.
CrowdedBatches == {
    <<Update("e1", "o1"), Invalid("e1", "o2"), Tombstone("e1", "o1")>>}

Symmetry == Permutations(Calls) \cup Permutations(Ids)
=============================================================================
