CONSTANTS
    s = s
    o = o
    j = j
    Node = {s, o, j}
    Joiner = j
    Order <- MCOrder
    Static = {}
    Insert <- MCInsert
    MaxSeq <- MCMaxSeq
    SyncRounds = 2
    MaxEvents = 2
    Cap = 1
    HoldIds = 4
SPECIFICATION FairSpec
INVARIANTS JoinComplete AckedLands
PROPERTY JoinEnds
CHECK_DEADLOCK FALSE
