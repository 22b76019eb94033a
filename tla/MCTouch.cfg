SPECIFICATION MCSpec
CONSTANTS
    Width = 4
    MaxPoints = 3
    MaxDist = 2
    IdMod = 8
    FirstIds <- MCFirstIds
    MaxDowns = 4
    NoContact = NoContact
    Types <- MCTypes
    Pens <- MCPens
    Shapes = {s1, s2}
    ProbeFrames = 3
    RefFrames = 3
    Threshold = 20
    Signal = 20
    MaxBase = 10
    Starts <- MCStarts
    Nodes = {n1, n2}
    None = None
    MaxLen = 2
    Pieces = 3
    BufSize = 5
    Magic = Magic
    NoLength = NoLength
SYMMETRY MCSymmetry
INVARIANTS TypesOK FramesAgree ReferenceSound RecordsInOrder
PROPERTIES FollowsProtocol FingersForgiven
\* the wire ends
CHECK_DEADLOCK FALSE
