SPECIFICATION TSpec
CONSTANTS Ring = 6 StallAvail = 3 ResumeAvail = 4 MaxHeld = 2 MaxEapol = 2
INVARIANTS TTypeOK HeldIsKnown Headroom
PROPERTY StallEnds
