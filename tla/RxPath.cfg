SPECIFICATION PSpec
CONSTANTS
    SeqMod = 12
    MaxBuf = 4
    NumTid = 1
    BufReqs = {0}
    Ahead = 1
    FirstSns = {10}
    MaxSn = 13
INVARIANTS PTypeOK DeliveredOnce HoleHasTimer
PROPERTIES HoleIsFlushed RSpec
