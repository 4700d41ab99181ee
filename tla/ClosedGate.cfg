CONSTANTS
    a = a
    b = b
    me = me
    Peer = {a, b}
    Me = me
    PeerOrder <- MCOrder
    Insert <- MCInsert
    MaxSeq <- MCMaxSeq
    MaxEvents = 2
    Rounds = 2
SPECIFICATION Spec
INVARIANT QueuedMeanwhile
CHECK_DEADLOCK FALSE
