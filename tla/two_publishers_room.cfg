SPECIFICATION Spec
CONSTANTS
    p1 = p1
    p2 = p2
    k1 = k1
    k2 = k2
    w1 = w1
    w2 = w2
    Publishers = {p1, p2}
    Keys = {k1}
    Waiters = {w1, w2}
    MaxSeq = 6
    Deployments <- OnlyTwo
INVARIANTS
    RoomAfterRemove
CHECK_DEADLOCK FALSE
