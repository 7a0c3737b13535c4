SPECIFICATION LSpec
CONSTANT MaxCmds = 2
CHECK_DEADLOCK FALSE
INVARIANTS LTypeOK LinkMatchesState ConnectedHasKeys WaitingHasTimer
PROPERTY AttemptsEnd
