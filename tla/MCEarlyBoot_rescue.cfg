SPECIFICATION Spec
CONSTANTS
    Parts <- MCParts
    NoPart = NoPart
    PollLimit = 3
    MaxTouches = 7
INVARIANTS RescueReachable
\* PID 1 stays where it ends, and a diagnostic boot waits for its operator
CHECK_DEADLOCK FALSE
