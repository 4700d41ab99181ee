CONSTANTS
    c1 = c1
    c2 = c2
    r1 = r1
    None = None
    Clients <- MCClients
    Appliers <- MCAppliers
    Names = {"a"}
    ReuseNames = FALSE
    MaxWrites = 2
    MaxControl = 3
    MaxPending = 1
    MaxMarks = 1
    MaxFaults = 1
SPECIFICATION FairSpec
INVARIANTS BufferMatches LockedReadsCommitted
PROPERTIES SerialStore Served
CHECK_DEADLOCK FALSE
