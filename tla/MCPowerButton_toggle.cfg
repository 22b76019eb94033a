SPECIFICATION Spec
CONSTANTS
    MaxLevel = 2
    LongPress = 2
    Writes = 1
    MaxPresses = 2
    MaxCrashes = 0
    MaxRefused = 0
    None = None
    Dialog = Dialog
PROPERTIES ShortPressToggles
\* presses and crashes are bounded: in the end the service waits
CHECK_DEADLOCK FALSE
