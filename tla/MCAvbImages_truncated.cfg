SPECIFICATION Spec
CONSTANTS
    None = None
    PerBlock = 2
    Names <- MCNames
    KeySize <- MCKeySize
    Sizes <- MCSizes
    Footers <- FewFooters
    Makes <- FewMakes
    Verifies <- FewVerifies
    MaxEvents = 1
    CanTruncate = TRUE
PROPERTIES VerifyEnds
CHECK_DEADLOCK FALSE
