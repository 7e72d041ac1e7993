CONSTANTS MaxTimers = 2  MaxDelay = 1  MaxFrames = 1  MaxInbound = 1
SPECIFICATION FairSpec
INVARIANTS TypeOK TimersAccounted SleepsNoLongerThanWork
PROPERTIES TimersFire FramesRun TimersCarryInbound TimersCarryRecords
