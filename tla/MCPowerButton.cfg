SPECIFICATION FairSpec
CONSTANTS
    MaxLevel = 2
    LongPress = 2
    Writes = 1
    MaxPresses = 3
    MaxCrashes = 1
    MaxRefused = 1
    None = None
    Dialog = Dialog
INVARIANTS TypeOK PressesDoOneThing
PROPERTIES DialogOnlyWhileHeld PressDecided
\* presses and crashes are bounded: in the end the service waits
CHECK_DEADLOCK FALSE
