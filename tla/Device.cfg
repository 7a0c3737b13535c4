SPECIFICATION DSpec
CONSTANTS
    p1 = p1
    p2 = p2
    p3 = p3
    p4 = p4
    Phys = {p1, p2, p3, p4}
    Blobs <- MCBlobs
    FwNames = {"good", "big", "absent"}
    LogSize = 3
    Levels = {0, 1}
    MsgLens = {2}
    ReadLens = {1, 3}
    CharMod = 2
SYMMETRY MCSymmetry
INVARIANTS DTypeOK NoStaleActivation BouncesReturned LogIsNewest
CHECK_DEADLOCK FALSE
