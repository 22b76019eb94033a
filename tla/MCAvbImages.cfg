SPECIFICATION Spec
CONSTANTS
    None = None
    PerBlock = 2
    Names <- MCNames
    KeySize <- MCKeySize
    Sizes <- MCSizes
    Footers <- MCFooters
    Makes <- MCMakes
    Verifies <- MCVerifies
    MaxEvents = 1
    CanTruncate = TRUE
INVARIANTS TypeOK VerifySound FreshVerifies DeviceUnderstands
PROPERTIES DigestPins
\* Copies are not written to: an image that lost everything leaves nothing to look at.
CHECK_DEADLOCK FALSE
