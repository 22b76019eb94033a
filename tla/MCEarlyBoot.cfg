SPECIFICATION FairSpec
CONSTANTS
    Parts <- MCParts
    NoPart = NoPart
    PollLimit = 3
    MaxTouches = 7
INVARIANTS TypeOK NoDmaBeforeStreams HandoffComplete RescueKeepsItsLog OneTouchOneStep
PROPERTIES BootEnds
\* PID 1 stays where it ends, and a diagnostic boot waits for its operator
CHECK_DEADLOCK FALSE
