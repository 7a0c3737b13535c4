SPECIFICATION LSpec
CONSTANT MaxCmds = 2
CHECK_DEADLOCK FALSE
INVARIANT DisconnectSticks
