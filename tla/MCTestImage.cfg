SPECIFICATION MCSpec
CONSTANTS
    Runs = {r1, r2}
    Args <- ArgsOf
    UdcLimit = 20
    Rounds = 1
    SetupLimit = 2
    ResultLimit = 2
    PhyLimit = 2
    MaxHolds = 2
    MaxDiags = 1
INVARIANTS TypesOK StreamsBeforeDma
PROPERTIES Pid1Ends
\* PID 1 is a shell and the ladder is over; the touch tests end
CHECK_DEADLOCK FALSE
