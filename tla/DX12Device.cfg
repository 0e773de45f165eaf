\* Three buffers, six calls, a fence that never goes back, a GPU that never stops.
SPECIFICATION FairSpec
CONSTANTS
    BufferCount = 3
    MaxCalls = 6
    Rewinding = FALSE
INVARIANTS
    TypeOK
    WaitsForSignaled
    OtherFramesEmpty
 
CHECK_DEADLOCK FALSE
