SPECIFICATION MCSpec
CONSTANTS
    TotalBlocks = 6
    PerChunk = 2
    Units = {0, 1, 2}
    BlockSize = 2
    Patterns <- MCPatterns
    Payloads <- MCPayloads
    MaxBlocks = 3
    MaxChunks = 4
    Opened <- MCOpened
    Offsets <- MCOffsets
    CanFail = TRUE
    MaxVbmeta = 2
    ImageSizes = {1, 3, 4}
    FooterCommands <- MCFooterCommands
    MaxFaults = 1
    None = None
    BootArgs = 2
    BootExtraArgs = 2
    VendorArgs = 3
    AddressLimit = 30
    Commands <- BootCommands
    Files <- RamdiskFiles
    Present = {"init", "new"}
    Seconds <- MCSeconds
INVARIANTS TypesOK Flashed FileAgrees FootersSound ReadsBack Repackable
PROPERTIES Implements
\* the writer ends, a truncation after a failure may be the last thing the caller
\* of the handler does, and a part of a boot image is neither made again nor repacked
CHECK_DEADLOCK FALSE
