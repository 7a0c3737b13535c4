SPECIFICATION QSpec
CONSTANTS Works = {"w1", "w2"}
CHECK_DEADLOCK FALSE
INVARIANTS QTypeOK LinkedOnce DestroyDrains
PROPERTIES QueuedRuns DelayedRuns
