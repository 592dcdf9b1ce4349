SPECIFICATION Spec
CONSTANTS
    FrameWidth = 704
    FrameHeight = 576
    Faces <- MCFaces
    Durations = {1, 2}
    SECOND = 6
    MaxSends = 3
INVARIANT TypeOK
INVARIANT DetectsOften
INVARIANT Settled
INVARIANT ZonesAsDrawn
CHECK_DEADLOCK FALSE
