SPECIFICATION HSpec
CONSTANTS PnBase = 2 PnLen = 2 MaxAssoc = 2 MaxReplay = 3 MaxNonce = 2 MaxSeq = 3
INVARIANTS HTypeOK ConnectedAgrees DataIsProtected AmpduAccepted SkbExact
PROPERTY LinkPromise
CHECK_DEADLOCK FALSE
