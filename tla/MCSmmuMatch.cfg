SPECIFICATION Spec
CONSTANTS
    Bits <- MCBits
    MaskBits <- MCMaskBits
    Contexts <- MCContexts
    UsbSid <- MCUsbSid
    MaxSmr = 4
    Boot <- MCBoot
    Calls <- MCCalls
    MaxCalls = 2
    Rejected <- MCRejected
    Unmatched = Unmatched
    Conflict = Conflict
INVARIANTS TypeOK TablesSound OkMeansRouted
PROPERTIES RepairsRouting
\* the number of runs is bounded: after the last one nothing is enabled
CHECK_DEADLOCK FALSE
