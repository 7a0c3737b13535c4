SPECIFICATION CSpec
CONSTANTS
    a = a
    b = b
    Home = Home
    NoSsid = NoSsid
    NoBss = NoBss
    NoSta = NoSta
    Beacon <- MCBeacon
    Chips <- MCChips
    Lens = {3, 21, 22, 41}
    IesCap = 512
    Inband = 40
    GenMod = 64
    Starts = {63}
    MaxCmds = 4
    MaxAge = 1
    MaxLag = 1
INVARIANTS
    CTypeOK
    TableIsCurrent
    ListRoundTrip
    NegotiatedWidth
PROPERTIES
    OldOnesGo
CHECK_DEADLOCK FALSE
