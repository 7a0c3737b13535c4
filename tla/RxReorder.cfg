SPECIFICATION RSpec
CONSTANTS
    SeqMod = 16
    MaxBuf = 4
    NumTid = 2
    BufReqs = {0, 3}
    Ahead = 2
    FirstSns = {13}
    MaxSn = 17
INVARIANTS RTypeOK WindowInv HeadTracksPeer StoredExact
PROPERTIES InOrderRelease InputSkipsOnlyExpired
