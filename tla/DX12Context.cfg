\* Two workers, two resources, three frames, one resize and one command.
SPECIFICATION Spec
CONSTANTS
    Workers = {w1, w2}
    Ids = {i1, i2}
    MaxFrames = 3
    MaxClears = 1
    MaxDraws = 1
SYMMETRY Symmetry
INVARIANTS
    TypeOK
    LiveStay
    DoneFindsEntry
    EraseDeferred
    
CHECK_DEADLOCK FALSE
