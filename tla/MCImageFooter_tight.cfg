SPECIFICATION Spec
CONSTANTS
    BlockSize = 2
    MaxVbmeta = 2
    Sizes = {4}
    Commands <- MCTightCommands
    MaxFaults = 0
INVARIANTS NothingCutOff
