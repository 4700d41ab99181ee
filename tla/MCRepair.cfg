CONSTANTS
    a = a
    b = b
    me = me
    Peer = {a, b}
    Me = me
    PeerOrder <- MCOrder
    Insert <- MCInsert
    MaxSeq <- MCMaxSeq
    MaxEvents = 2
    Rounds = 2
SPECIFICATION FairSpec
INVARIANTS RepairComplete NoResurrection
PROPERTY RepairEnds
CHECK_DEADLOCK FALSE
