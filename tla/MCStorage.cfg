SPECIFICATION DiskSpec
CONSTANTS
    Keep = 1
    KeepIncr = 1
    HasRemote = TRUE
    MaxExport = 2
    MaxClock = 1
    MaxWrites = 2
    MaxJobs = 3
    MaxAdopts = 1
    MaxFaults = 2
    MaxFences = 1
    MaxTrims = 1
    MaxRestores = 1
    MaxRare = 2
INVARIANTS
    SnapshotsHold
    PagesOwned
    IndexesExact
    Truthful
    ArchiveSound
CHECK_DEADLOCK FALSE
