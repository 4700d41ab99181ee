SPECIFICATION FairSpec
CONSTANTS
    Page = {p1, p2}
    Reader = {r1}
    Soft = 1
    Hard = 2
    MaxHead = 3
    MaxSyncs = 2
INVARIANT WriteAhead
INVARIANT NoLostRedo
PROPERTY SnapshotHistoryKept
PROPERTY StallEnds
