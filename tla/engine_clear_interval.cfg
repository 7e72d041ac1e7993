CONSTANTS MaxTimers = 2  MaxDelay = 2  MaxFrames = 2  MaxInbound = 1
SPECIFICATION Spec
INVARIANT ClearedNotReArmed
